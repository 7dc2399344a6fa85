------------------------------- MODULE Outbox -------------------------------
(***************************************************************************)
(* The event outbox and its relays (modules/events), seen from the first   *)
(* commit of a business change to the broker.                              *)
(*                                                                         *)
(* A business flow commits its own transaction and only then appends the   *)
(* outbox row, on a connection of its own.  Every API pod and every worker *)
(* pod runs a relay: a timer starts relayOnce every five seconds, whether  *)
(* or not the previous one has returned, so one pod may have several       *)
(* iterations in flight and none of them claims the rows it has read.      *)
(***************************************************************************)
EXTENDS Naturals, FiniteSets

CONSTANTS
  Events,       \* one domain event per business flow
  Pods,         \* processes that load EventsModule
  Iterations,   \* executions of relayOnce that may be in flight
  PodOf,        \* the pod an iteration runs in
  BatchSize,    \* OUTBOX_POLL_BATCH_SIZE
  MaxFaults     \* bound: broker, database and process failures in a behaviour

ASSUME OutboxAssumption ==
  /\ PodOf \in [Iterations -> Pods]
  /\ BatchSize \in Nat \ {0}
  /\ MaxFaults \in Nat

VARIABLES
  committed,   \* events whose business change is in the database
  writing,     \* those whose flow has not reached the end of append() yet
  row,         \* outbox_events.status, or ABSENT
  createdAt,   \* outbox_events.created_at, as a rank
  pod,         \* life cycle of each process
  connected,   \* EventBusService.connected in each process
  relay,       \* where each iteration of relayOnce stands
  published,   \* events the broker has at least one copy of
  faults       \* failures so far

vars == <<committed, writing, row, createdAt, pod, connected, relay, published, faults>>

Idle == [at |-> "idle"]
Publishing(todo) == [at |-> "publish", todo |-> todo]
Marking(todo, e, ok) == [at |-> "mark", todo |-> todo, event |-> e, ok |-> ok]

RelayState ==
  {Idle}
    \cup [at : {"publish"}, todo : (SUBSET Events) \ {{}}]
    \cup [at : {"mark"}, todo : SUBSET Events, event : Events, ok : BOOLEAN]

TypeOK ==
  /\ committed \subseteq Events
  /\ writing \subseteq committed
  /\ row \in [Events -> {"ABSENT", "PENDING", "PROCESSED", "FAILED"}]
  /\ createdAt \in [Events -> Nat]
  /\ pod \in [Pods -> {"down", "up", "closing"}]
  /\ connected \in [Pods -> BOOLEAN]
  /\ relay \in [Iterations -> RelayState]
  /\ published \subseteq Events
  /\ faults \in Nat

Init ==
  /\ committed = {}
  /\ writing = {}
  /\ row = [e \in Events |-> "ABSENT"]
  /\ createdAt = [e \in Events |-> 0]
  /\ pod = [p \in Pods |-> "down"]
  /\ connected = [p \in Pods |-> FALSE]
  /\ relay = [i \in Iterations |-> Idle]
  /\ published = {}
  /\ faults = 0

Fault == faults < MaxFaults /\ faults' = faults + 1

Recorded == {e \in Events : row[e] # "ABSENT"}

Pending == {e \in Events : row[e] = "PENDING"}

Older(e, S) == {f \in S : createdAt[f] < createdAt[e]}

\* findMany ... orderBy createdAt asc, take BatchSize.
Batch == {e \in Pending : Cardinality(Older(e, Pending)) < BatchSize}

Oldest(S) == {e \in S : Older(e, S) = {}}

-----------------------------------------------------------------------------
(***************************************************************************)
(* The business flow.                                                      *)
(***************************************************************************)
flowVars == <<pod, connected, relay, published, faults>>

CommitChange(e) ==
  /\ e \notin committed
  /\ committed' = committed \cup {e}
  /\ writing' = writing \cup {e}
  /\ UNCHANGED <<row, createdAt, flowVars>>

AppendRow(e) ==
  /\ e \in writing
  /\ row' = [row EXCEPT ![e] = "PENDING"]
  /\ createdAt' = [createdAt EXCEPT ![e] = Cardinality(Recorded)]
  /\ writing' = writing \ {e}
  /\ UNCHANGED <<committed, flowVars>>

\* append() throws and the caller logs a warning, or the process dies first.
SkipAppend(e) ==
  /\ e \in writing
  /\ Fault
  /\ writing' = writing \ {e}
  /\ UNCHANGED <<committed, row, createdAt, pod, connected, relay, published>>

-----------------------------------------------------------------------------
(***************************************************************************)
(* One iteration of relayOnce.                                             *)
(***************************************************************************)
rows == <<committed, writing, createdAt>>

\* Mutant: relayOnce does not look at bus.isConnected.
TimerRuns(i) == pod[PodOf[i]] = "up"
MayRelay(i) == pod[PodOf[i]] = "up" /\ connected[PodOf[i]]

Poll(i) ==
  /\ relay[i] = Idle
  /\ MayRelay(i)
  /\ Batch # {}
  /\ relay' = [relay EXCEPT ![i] = Publishing(Batch)]
  /\ UNCHANGED <<rows, row, pod, connected, published, faults>>

\* The for loop takes the rows in the order they came.
PublishReturns(i, e, ok) ==
  /\ relay[i].at = "publish"
  /\ e \in Oldest(relay[i].todo)
  /\ relay' = [relay EXCEPT ![i] = Marking(relay[i].todo \ {e}, e, ok)]

\* The broker confirms.
PublishConfirmed(i, e) ==
  /\ PublishReturns(i, e, TRUE)
  /\ connected[PodOf[i]]
  /\ published' = published \cup {e}
  /\ UNCHANGED <<rows, row, pod, connected, faults>>

\* No channel, or the bus is disconnected: false without trying.
PublishUnavailable(i, e) ==
  /\ PublishReturns(i, e, FALSE)
  /\ ~connected[PodOf[i]]
  /\ UNCHANGED <<rows, row, pod, connected, published, faults>>

\* channel.publish throws; the broker may have taken the message all the same.
PublishThrows(i, e) ==
  /\ PublishReturns(i, e, FALSE)
  /\ connected[PodOf[i]]
  /\ Fault
  /\ published' \in {published, published \cup {e}}
  /\ UNCHANGED <<rows, row, pod, connected>>

Resume(todo) == IF todo = {} THEN Idle ELSE Publishing(todo)

\* Mutant: the result of publish() is ignored.
MarkedRegardless(ok) == "PROCESSED"
MarkedAs(ok) == IF ok THEN "PROCESSED" ELSE "FAILED"

\* markProcessed / markFailed: an update by id, whatever the row says now.
Mark(i) ==
  /\ relay[i].at = "mark"
  /\ row' = [row EXCEPT ![relay[i].event] = MarkedAs(relay[i].ok)]
  /\ relay' = [relay EXCEPT ![i] = Resume(relay[i].todo)]
  /\ UNCHANGED <<rows, pod, connected, published, faults>>

\* The update fails: relayOnce rejects and the rest of the batch is dropped.
MarkThrows(i) ==
  /\ relay[i].at = "mark"
  /\ Fault
  /\ relay' = [relay EXCEPT ![i] = Idle]
  /\ UNCHANGED <<rows, row, pod, connected, published>>

-----------------------------------------------------------------------------
(***************************************************************************)
(* Processes and their broker connection.                                  *)
(***************************************************************************)
storage == <<committed, writing, row, createdAt, published>>

Stopped(p) == [i \in Iterations |-> IF PodOf[i] = p THEN Idle ELSE relay[i]]

Boot(p) ==
  /\ pod[p] = "down"
  /\ pod' = [pod EXCEPT ![p] = "up"]
  /\ UNCHANGED <<storage, connected, relay, faults>>

Connect(p) ==
  /\ pod[p] = "up"
  /\ ~connected[p]
  /\ connected' = [connected EXCEPT ![p] = TRUE]
  /\ UNCHANGED <<storage, pod, relay, faults>>

Disconnect(p) ==
  /\ connected[p]
  /\ Fault
  /\ connected' = [connected EXCEPT ![p] = FALSE]
  /\ UNCHANGED <<storage, pod, relay>>

\* outbox.stop() and bus.close(): iterations in flight go on without a bus.
Shutdown(p) ==
  /\ pod[p] = "up"
  /\ Fault
  /\ pod' = [pod EXCEPT ![p] = "closing"]
  /\ connected' = [connected EXCEPT ![p] = FALSE]
  /\ UNCHANGED <<storage, relay>>

Exit(p) ==
  /\ pod[p] = "closing"
  /\ pod' = [pod EXCEPT ![p] = "down"]
  /\ relay' = Stopped(p)
  /\ UNCHANGED <<storage, connected, faults>>

Crash(p) ==
  /\ pod[p] = "up"
  /\ Fault
  /\ pod' = [pod EXCEPT ![p] = "down"]
  /\ connected' = [connected EXCEPT ![p] = FALSE]
  /\ relay' = Stopped(p)
  /\ UNCHANGED storage

-----------------------------------------------------------------------------
Flow(e) == CommitChange(e) \/ AppendRow(e) \/ SkipAppend(e)

Publish(i) ==
  \E e \in Events :
    PublishConfirmed(i, e) \/ PublishUnavailable(i, e) \/ PublishThrows(i, e)

RelayOnce(i) == Poll(i) \/ Publish(i) \/ Mark(i) \/ MarkThrows(i)

Lifecycle(p) ==
  Boot(p) \/ Connect(p) \/ Disconnect(p) \/ Shutdown(p) \/ Exit(p) \/ Crash(p)

Next ==
  \/ \E e \in Events : Flow(e)
  \/ \E i \in Iterations : RelayOnce(i)
  \/ \E p \in Pods : Lifecycle(p)

Spec == Init /\ [][Next]_vars

(***************************************************************************)
(* The event loop resumes a handler whose await has settled, the timer     *)
(* fires for ever, the orchestrator restarts a process, and the connection *)
(* manager dials again every five seconds.  Failures are never fair.       *)
(***************************************************************************)
Fairness ==
  /\ \A e \in Events : WF_vars(AppendRow(e))
  /\ \A i \in Iterations : WF_vars(Poll(i)) /\ WF_vars(Publish(i)) /\ WF_vars(Mark(i))
  /\ \A p \in Pods : WF_vars(Boot(p)) /\ WF_vars(Connect(p)) /\ WF_vars(Exit(p))

FairSpec == Spec /\ Fairness

-----------------------------------------------------------------------------
(***************************************************************************)
(* Properties.                                                             *)
(***************************************************************************)
InHand(i) ==
  CASE relay[i].at = "idle" -> {}
    [] relay[i].at = "publish" -> relay[i].todo
    [] relay[i].at = "mark" -> relay[i].todo \cup {relay[i].event}

\* However relays overlap, die or overwrite each other, a row says PROCESSED
\* only if the broker has the event (outbox.service.ts:8, the half of the
\* at-least-once claim that the code keeps).
ProcessedWasPublished ==
  \A e \in Events : row[e] = "PROCESSED" => e \in published

GivenUp(e) == row[e] = "FAILED" /\ \A i \in Iterations : e \notin InHand(i)

\* FAILED is a dead end: once no iteration holds the row any more, none takes it
\* again, nobody publishes the event and the row never moves, because relayOnce
\* asks for PENDING rows (outbox.service.ts:71) and nothing puts a row back.
FailedIsADeadEnd ==
  [][\A e \in Events :
       GivenUp(e) => GivenUp(e)' /\ (e \in published' => e \in published)]_vars

\* As long as nothing fails, every committed change has its event published:
\* overlapping iterations, pods that have not connected yet and batch limits
\* cost nothing.  One failure is enough to lose it: append() is called after the
\* commit (invoice.service.ts:124), and a FAILED row is never read again.
DeliveredUnlessFault ==
  \A e \in Events : e \in committed ~> (e \in published \/ faults > 0)

Delivery ==
  INSTANCE EventDelivery WITH
    recorded <- Recorded,
    delivered <- published,
    verdict <- [e \in Events |-> CASE row[e] = "PROCESSED" -> "acknowledged"
                                   [] row[e] = "FAILED" -> "abandoned"
                                   [] OTHER -> "open"]

\* The relays implement EventDelivery, fairness included: no row stays PENDING
\* for ever once failures stop.
DeliverySpec == Delivery!FairSpec
=============================================================================
