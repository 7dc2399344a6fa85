---------------------------- MODULE OutboxProofs ----------------------------
(***************************************************************************)
(* Theorems about Outbox, for any number of events, pods and overlapping   *)
(* iterations, and any bound on the faults.                                *)
(***************************************************************************)
EXTENDS Outbox, FiniteSetTheorems, TLAPS

\* What an iteration holds: rows it has read, and the outcome it will write.
RelayInv ==
  \A i \in Iterations :
    /\ InHand(i) \subseteq Recorded
    /\ (relay[i].at = "mark" /\ relay[i].ok) => relay[i].event \in published

\* A row exists before anybody publishes its event, and is appended once.
StorageInv ==
  /\ IsFiniteSet(Recorded)
  /\ Recorded \subseteq committed \ writing
  /\ published \subseteq Recorded

IInv == TypeOK /\ StorageInv /\ RelayInv /\ ProcessedWasPublished

LEMMA InitIInv == Init => IInv
  <1> SUFFICES ASSUME Init PROVE IInv
    OBVIOUS
  <1>1. TypeOK
    BY OutboxAssumption DEF Init, TypeOK, RelayState, Idle
  <1>2. Recorded = {}
    BY DEF Init, Recorded
  <1>3. StorageInv
    BY <1>2, FS_EmptySet DEF Init, StorageInv
  <1>4. RelayInv
    BY DEF Init, RelayInv, InHand, Idle
  <1>5. ProcessedWasPublished
    BY DEF Init, ProcessedWasPublished
  <1> QED
    BY <1>1, <1>3, <1>4, <1>5 DEF IInv

\* The steps that leave every row where it is keep all of IInv but the part
\* about the iterations.
LEMMA SameRows ==
  ASSUME IInv, UNCHANGED <<committed, row, published>>, writing' \subseteq writing
  PROVE  Recorded' = Recorded /\ StorageInv' /\ ProcessedWasPublished'
  BY DEF IInv, TypeOK, StorageInv, Recorded, ProcessedWasPublished

LEMMA SameRelays ==
  ASSUME IInv, UNCHANGED relay, Recorded \subseteq Recorded', published \subseteq published'
  PROVE  RelayInv'
  BY DEF IInv, RelayInv, InHand

LEMMA FlowKeepsIInv ==
  ASSUME IInv, NEW e \in Events, Flow(e)
  PROVE  IInv'
  <1>1. CASE CommitChange(e)
    <2>1. TypeOK'
      BY <1>1 DEF CommitChange, flowVars, IInv, TypeOK
    <2>2. e \notin Recorded /\ Recorded' = Recorded
      BY <1>1 DEF CommitChange, flowVars, IInv, StorageInv, Recorded
    <2>3. StorageInv' /\ ProcessedWasPublished'
      BY <1>1, <2>2 DEF CommitChange, flowVars, IInv, StorageInv, ProcessedWasPublished
    <2>4. RelayInv'
      BY <1>1, <2>2, SameRelays DEF CommitChange, flowVars
    <2> QED
      BY <2>1, <2>3, <2>4 DEF IInv
  <1>2. CASE AppendRow(e)
    <2>1. Recorded' = Recorded \cup {e} /\ e \notin Recorded
      BY <1>2 DEF AppendRow, IInv, TypeOK, StorageInv, Recorded
    <2>2. Cardinality(Recorded) \in Nat /\ IsFiniteSet(Recorded')
      BY <2>1, FS_CardinalityType, FS_AddElement DEF IInv, StorageInv
    <2>3. TypeOK'
      BY <1>2, <2>2 DEF AppendRow, flowVars, IInv, TypeOK
    <2>4. StorageInv'
      BY <1>2, <2>1, <2>2 DEF AppendRow, flowVars, IInv, TypeOK, StorageInv
    <2>5. ProcessedWasPublished'
      BY <1>2 DEF AppendRow, flowVars, IInv, TypeOK, ProcessedWasPublished
    <2>6. RelayInv'
      BY <1>2, <2>1, SameRelays DEF AppendRow, flowVars
    <2> QED
      BY <2>3, <2>4, <2>5, <2>6 DEF IInv
  <1>3. CASE SkipAppend(e)
    <2>1. TypeOK'
      BY <1>3 DEF SkipAppend, Fault, IInv, TypeOK
    <2>2. Recorded' = Recorded /\ StorageInv' /\ ProcessedWasPublished'
      BY <1>3, SameRows DEF SkipAppend
    <2>3. RelayInv'
      BY <1>3, <2>2, SameRelays DEF SkipAppend
    <2> QED
      BY <2>1, <2>2, <2>3 DEF IInv
  <1> QED
    BY <1>1, <1>2, <1>3 DEF Flow

LEMMA PollKeepsIInv ==
  ASSUME IInv, NEW i \in Iterations, Poll(i)
  PROVE  IInv'
  <1>1. Batch \in (SUBSET Events) \ {{}} /\ Batch \subseteq Recorded
    BY DEF Poll, Batch, Pending, Recorded
  <1>2. Publishing(Batch) \in RelayState
    BY <1>1 DEF Publishing, RelayState
  <1>3. TypeOK'
    BY <1>2 DEF Poll, rows, IInv, TypeOK
  <1>4. Recorded' = Recorded /\ StorageInv' /\ ProcessedWasPublished'
    BY SameRows DEF Poll, rows
  <1>5. ASSUME NEW j \in Iterations
        PROVE  /\ InHand(j)' \subseteq Recorded'
               /\ (relay'[j].at = "mark" /\ relay'[j].ok) => relay'[j].event \in published'
    <2>1. CASE j = i
      BY <1>1, <1>4, <2>1 DEF Poll, Publishing, InHand, IInv, TypeOK
    <2>2. CASE j # i
      BY <1>4, <2>2 DEF Poll, InHand, IInv, TypeOK, RelayInv
    <2> QED
      BY <2>1, <2>2
  <1> QED
    BY <1>3, <1>4, <1>5 DEF IInv, RelayInv

\* What the three outcomes of publish() have in common.
LEMMA PublishKeepsIInv ==
  ASSUME IInv, NEW i \in Iterations, Publish(i)
  PROVE  IInv'
  <1> PICK e \in Events :
        PublishConfirmed(i, e) \/ PublishUnavailable(i, e) \/ PublishThrows(i, e)
    BY DEF Publish
  <1> PICK ok \in BOOLEAN : PublishReturns(i, e, ok) /\ (ok => e \in published')
    BY DEF PublishConfirmed, PublishUnavailable, PublishThrows
  <1>1. relay[i].at = "publish" /\ e \in relay[i].todo
    BY DEF PublishReturns, Oldest
  <1>2. relay[i].todo \subseteq Recorded /\ relay[i].todo \in SUBSET Events
    BY <1>1 DEF IInv, RelayInv, InHand, Recorded
  <1>3. UNCHANGED <<committed, writing, row, createdAt, pod, connected>>
    BY DEF PublishConfirmed, PublishUnavailable, PublishThrows, rows
  <1>4. published' \in {published, published \cup {e}}
    BY DEF PublishConfirmed, PublishUnavailable, PublishThrows
  <1>5. faults' \in Nat
    <2>1. faults \in Nat
      BY DEF IInv, TypeOK
    <2>2. faults' = faults \/ faults' = faults + 1
      BY DEF PublishConfirmed, PublishUnavailable, PublishThrows, Fault
    <2> QED
      BY <2>1, <2>2
  <1>6. Marking(relay[i].todo \ {e}, e, ok) \in RelayState
    BY <1>2 DEF Marking, RelayState
  <1>7. TypeOK'
    BY <1>3, <1>4, <1>5, <1>6 DEF PublishReturns, IInv, TypeOK
  <1>8. Recorded' = Recorded /\ StorageInv' /\ ProcessedWasPublished'
    BY <1>1, <1>2, <1>3, <1>4 DEF IInv, StorageInv, ProcessedWasPublished, Recorded
  <1>9. ASSUME NEW j \in Iterations
        PROVE  /\ InHand(j)' \subseteq Recorded'
               /\ (relay'[j].at = "mark" /\ relay'[j].ok) => relay'[j].event \in published'
    <2>1. CASE j = i
      BY <1>1, <1>2, <1>8, <2>1 DEF PublishReturns, Marking, InHand, IInv, TypeOK
    <2>2. CASE j # i
      BY <1>4, <1>8, <2>2 DEF PublishReturns, InHand, IInv, TypeOK, RelayInv
    <2> QED
      BY <2>1, <2>2
  <1> QED
    BY <1>7, <1>8, <1>9 DEF IInv, RelayInv

LEMMA MarkKeepsIInv ==
  ASSUME IInv, NEW i \in Iterations, Mark(i)
  PROVE  IInv'
  <1> DEFINE e == relay[i].event
  <1>1. /\ e \in Recorded
        /\ relay[i].todo \in SUBSET Events
        /\ relay[i].todo \subseteq Recorded
        /\ relay[i].ok \in BOOLEAN
        /\ relay[i].ok => e \in published
    BY DEF Mark, IInv, TypeOK, RelayInv, RelayState, Idle, InHand, Recorded
  <1>2. Resume(relay[i].todo) \in RelayState
    BY <1>1 DEF Resume, Publishing, RelayState
  <1>3. MarkedAs(relay[i].ok) \in {"PROCESSED", "FAILED"}
    BY DEF MarkedAs
  <1>4. TypeOK'
    BY <1>2, <1>3 DEF Mark, rows, IInv, TypeOK
  <1>5. Recorded' = Recorded
    BY <1>1, <1>3 DEF Mark, Recorded, IInv, TypeOK
  <1>6. StorageInv'
    BY <1>5 DEF Mark, rows, IInv, StorageInv
  <1>7. ProcessedWasPublished'
    BY <1>1, <1>3 DEF Mark, MarkedAs, IInv, TypeOK, ProcessedWasPublished
  <1>8. ASSUME NEW j \in Iterations
        PROVE  /\ InHand(j)' \subseteq Recorded'
               /\ (relay'[j].at = "mark" /\ relay'[j].ok) => relay'[j].event \in published'
    <2>1. CASE j = i
      BY <1>1, <1>5, <2>1 DEF Mark, Resume, Publishing, Idle, InHand, IInv, TypeOK
    <2>2. CASE j # i
      BY <1>5, <2>2 DEF Mark, InHand, IInv, TypeOK, RelayInv
    <2> QED
      BY <2>1, <2>2
  <1> QED
    BY <1>4, <1>6, <1>7, <1>8 DEF IInv, RelayInv

\* Iterations that are dropped, by a failed update or with their process, hold
\* nothing afterwards.
LEMMA DroppingKeepsIInv ==
  ASSUME IInv, UNCHANGED <<committed, writing, row, createdAt, published>>,
         pod' \in [Pods -> {"down", "up", "closing"}],
         connected' \in [Pods -> BOOLEAN],
         faults' \in Nat,
         relay' \in [Iterations -> RelayState],
         \A i \in Iterations : relay'[i] \in {relay[i], Idle}
  PROVE  IInv'
  <1>1. TypeOK'
    BY DEF IInv, TypeOK
  <1>2. Recorded' = Recorded /\ StorageInv' /\ ProcessedWasPublished'
    BY SameRows
  <1>3. ASSUME NEW i \in Iterations
        PROVE  /\ InHand(i)' \subseteq Recorded'
               /\ (relay'[i].at = "mark" /\ relay'[i].ok) => relay'[i].event \in published'
    <2>1. CASE relay'[i] = relay[i]
      BY <1>2, <2>1 DEF IInv, RelayInv, InHand
    <2>2. CASE relay'[i] = Idle
      BY <2>2 DEF Idle, InHand
    <2> QED
      BY <2>1, <2>2
  <1> QED
    BY <1>1, <1>2, <1>3 DEF IInv, RelayInv

LEMMA MarkThrowsKeepsIInv ==
  ASSUME IInv, NEW i \in Iterations, MarkThrows(i)
  PROVE  IInv'
  <1>1. /\ UNCHANGED <<committed, writing, row, createdAt, published>>
        /\ pod' \in [Pods -> {"down", "up", "closing"}]
        /\ connected' \in [Pods -> BOOLEAN]
        /\ faults' \in Nat
    BY DEF MarkThrows, Fault, rows, IInv, TypeOK
  <1>2. /\ relay' \in [Iterations -> RelayState]
        /\ \A j \in Iterations : relay'[j] \in {relay[j], Idle}
    BY DEF MarkThrows, IInv, TypeOK, RelayState
  <1> QED
    BY <1>1, <1>2, DroppingKeepsIInv

LEMMA LifecycleKeepsIInv ==
  ASSUME IInv, NEW p \in Pods, Lifecycle(p)
  PROVE  IInv'
  <1> USE DEF Boot, Connect, Disconnect, Shutdown, Exit, Crash
  <1>1. UNCHANGED <<committed, writing, row, createdAt, published>>
    BY DEF Lifecycle, storage
  <1>2. pod' \in [Pods -> {"down", "up", "closing"}] /\ connected' \in [Pods -> BOOLEAN]
    BY DEF Lifecycle, IInv, TypeOK
  <1>3. faults' \in Nat
    <2>1. faults \in Nat
      BY DEF IInv, TypeOK
    <2>2. faults' = faults \/ faults' = faults + 1
      BY DEF Lifecycle, Fault
    <2> QED
      BY <2>1, <2>2
  <1>4. relay' = relay \/ relay' = Stopped(p)
    BY DEF Lifecycle
  <1>5. relay \in [Iterations -> RelayState] /\ Idle \in RelayState
    BY DEF IInv, TypeOK, RelayState
  <1>6. /\ relay' \in [Iterations -> RelayState]
        /\ \A i \in Iterations : relay'[i] \in {relay[i], Idle}
    BY <1>4, <1>5 DEF Stopped
  <1> QED
    BY <1>1, <1>2, <1>3, <1>6, DroppingKeepsIInv

LEMMA NextKeepsIInv == IInv /\ [Next]_vars => IInv'
  <1> SUFFICES ASSUME IInv, [Next]_vars PROVE IInv'
    OBVIOUS
  <1>1. ASSUME NEW e \in Events, Flow(e) PROVE IInv'
    BY <1>1, FlowKeepsIInv
  <1>2. ASSUME NEW i \in Iterations, RelayOnce(i) PROVE IInv'
    BY <1>2, PollKeepsIInv, PublishKeepsIInv, MarkKeepsIInv, MarkThrowsKeepsIInv DEF RelayOnce
  <1>3. ASSUME NEW p \in Pods, Lifecycle(p) PROVE IInv'
    BY <1>3, LifecycleKeepsIInv
  <1>4. CASE UNCHANGED vars
    <2>1. TypeOK'
      BY <1>4 DEF vars, IInv, TypeOK
    <2>2. Recorded' = Recorded /\ StorageInv' /\ ProcessedWasPublished'
      BY <1>4, SameRows DEF vars
    <2>3. RelayInv'
      BY <1>4, <2>2, SameRelays DEF vars
    <2> QED
      BY <2>1, <2>2, <2>3 DEF IInv
  <1> QED
    BY <1>1, <1>2, <1>3, <1>4 DEF Next

LEMMA SpecIInv == Spec => []IInv
  BY InitIInv, NextKeepsIInv, PTL DEF Spec

\* Every reachable state of the outbox is well-formed: row states, relay
\* positions, process and connection states.
THEOREM OutboxTypeCorrect == Spec => []TypeOK
  <1>1. IInv => TypeOK
    BY DEF IInv
  <1> QED
    BY <1>1, SpecIInv, PTL

\* Whatever the number of relays and faults, a row marked PROCESSED names an
\* event the broker has (outbox.service.ts:8).
THEOREM ProcessedImpliesPublished == Spec => []ProcessedWasPublished
  <1>1. IInv => ProcessedWasPublished
    BY DEF IInv
  <1> QED
    BY <1>1, SpecIInv, PTL

-----------------------------------------------------------------------------
(***************************************************************************)
(* FAILED is a dead end.                                                   *)
(***************************************************************************)
LEMMA DeadEndStep ==
  ASSUME IInv, [Next]_vars, NEW e \in Events, GivenUp(e)
  PROVE  GivenUp(e)' /\ (e \in published' => e \in published)
  <1>0. /\ e \notin writing /\ e \notin Pending
        /\ \A i \in Iterations : e \notin InHand(i)
    BY DEF GivenUp, IInv, StorageInv, Recorded, Pending
  <1>1. SUFFICES /\ row'[e] = row[e]
                 /\ e \in published' => e \in published
                 /\ \A i \in Iterations : InHand(i)' \subseteq InHand(i) \cup Pending
    BY <1>0 DEF GivenUp
  <1>2. ASSUME UNCHANGED relay
        PROVE  \A i \in Iterations : InHand(i)' \subseteq InHand(i) \cup Pending
    BY <1>2 DEF InHand
  <1>3. ASSUME NEW f \in Events, Flow(f)
        PROVE  row'[e] = row[e] /\ UNCHANGED <<published, relay>>
    BY <1>0, <1>3 DEF Flow, CommitChange, AppendRow, SkipAppend, flowVars, IInv, TypeOK
  <1>4. ASSUME NEW i \in Iterations, RelayOnce(i)
        PROVE  /\ row'[e] = row[e]
               /\ e \in published' => e \in published
               /\ \A j \in Iterations : InHand(j)' \subseteq InHand(j) \cup Pending
    <2>1. relay' = [relay EXCEPT ![i] = relay'[i]] /\ relay' \in [Iterations -> RelayState]
      BY <1>4, NextKeepsIInv
      DEF RelayOnce, Poll, Publish, PublishConfirmed, PublishUnavailable, PublishThrows,
          PublishReturns, Mark, MarkThrows, IInv, TypeOK
    <2>2. ASSUME InHand(i)' \subseteq InHand(i) \cup Pending
          PROVE  \A j \in Iterations : InHand(j)' \subseteq InHand(j) \cup Pending
      <3> TAKE j \in Iterations
      <3>1. CASE j = i
        BY <2>2, <3>1
      <3>2. CASE j # i
        BY <2>1, <3>2 DEF InHand, IInv, TypeOK
      <3> QED
        BY <3>1, <3>2
    <2>3. CASE Poll(i)
      <3>1. InHand(i)' \subseteq Pending
        BY <2>3 DEF Poll, Publishing, InHand, Batch, IInv, TypeOK
      <3> QED
        BY <2>2, <2>3, <3>1 DEF Poll
    <2>4. CASE Publish(i)
      <3> PICK f \in Events :
            PublishConfirmed(i, f) \/ PublishUnavailable(i, f) \/ PublishThrows(i, f)
        BY <2>4 DEF Publish
      <3> PICK ok \in BOOLEAN : PublishReturns(i, f, ok)
        BY DEF PublishConfirmed, PublishUnavailable, PublishThrows
      <3>1. f \in InHand(i) /\ InHand(i)' \subseteq InHand(i)
        BY DEF PublishReturns, Oldest, Marking, InHand, IInv, TypeOK
      <3>2. f # e
        BY <1>0, <3>1
      <3>3. row' = row /\ published' \in {published, published \cup {f}}
        BY DEF PublishConfirmed, PublishUnavailable, PublishThrows
      <3> QED
        BY <2>2, <3>1, <3>2, <3>3
    <2>5. CASE Mark(i)
      <3>1. relay[i].event # e
        BY <1>0, <2>5 DEF Mark, InHand
      <3>2. InHand(i)' \subseteq InHand(i)
        BY <2>5 DEF Mark, Resume, Publishing, Idle, InHand, IInv, TypeOK
      <3> QED
        BY <2>2, <2>5, <3>1, <3>2 DEF Mark, IInv, TypeOK
    <2>6. CASE MarkThrows(i)
      <3>1. InHand(i)' \subseteq InHand(i)
        BY <2>6 DEF MarkThrows, Idle, InHand, IInv, TypeOK
      <3> QED
        BY <2>2, <2>6, <3>1 DEF MarkThrows
    <2> QED
      BY <1>4, <2>3, <2>4, <2>5, <2>6 DEF RelayOnce
  <1>5. ASSUME NEW p \in Pods, Lifecycle(p)
        PROVE  /\ row'[e] = row[e] /\ published' = published
               /\ \A i \in Iterations : InHand(i)' \subseteq InHand(i)
    <2>1. UNCHANGED <<row, published>> /\ (relay' = relay \/ relay' = Stopped(p))
      BY <1>5 DEF Lifecycle, Boot, Connect, Disconnect, Shutdown, Exit, Crash, storage
    <2>2. ASSUME NEW i \in Iterations PROVE relay'[i] = relay[i] \/ relay'[i] = Idle
      BY <2>1 DEF Stopped
    <2>3. ASSUME NEW i \in Iterations PROVE InHand(i)' \subseteq InHand(i)
      <3>1. CASE relay'[i] = relay[i]
        BY <3>1 DEF InHand
      <3>2. CASE relay'[i] = Idle
        BY <3>2 DEF InHand, Idle
      <3> QED
        BY <2>2, <3>1, <3>2
    <2> QED
      BY <2>1, <2>3
  <1>6. CASE UNCHANGED vars
    BY <1>1, <1>2, <1>6 DEF vars
  <1> QED
    BY <1>1, <1>2, <1>3, <1>4, <1>5, <1>6 DEF Next

\* An event whose publish failed and that no iteration holds any more is never
\* taken up or published again: relayOnce asks for PENDING rows only.
THEOREM FailedRowsAreAbandoned == Spec => FailedIsADeadEnd
  <1>1. IInv /\ [Next]_vars =>
          [\A e \in Events :
             GivenUp(e) => GivenUp(e)' /\ (e \in published' => e \in published)]_vars
    BY DeadEndStep
  <1> QED
    BY <1>1, SpecIInv, PTL DEF Spec, FailedIsADeadEnd

-----------------------------------------------------------------------------
(***************************************************************************)
(* The relays implement EventDelivery.                                     *)
(***************************************************************************)
LEMMA InitRefines == Init => Delivery!Init
  BY DEF Init, Delivery!Init, Recorded

LEMMA StepRefines ==
  ASSUME IInv, [Next]_vars
  PROVE  [Delivery!Next]_(Delivery!vars)
  <1>1. ASSUME UNCHANGED <<row, published>> PROVE UNCHANGED Delivery!vars
    BY <1>1 DEF Delivery!vars, Recorded
  <1>2. ASSUME NEW e \in Events, AppendRow(e) PROVE Delivery!Record(e)
    <2>1. e \notin Recorded /\ Recorded' = Recorded \cup {e}
      BY <1>2 DEF AppendRow, IInv, TypeOK, StorageInv, Recorded
    <2>2. row[e] = "ABSENT" /\ row'[e] = "PENDING" /\ \A f \in Events \ {e} : row'[f] = row[f]
      BY <1>2, <2>1 DEF AppendRow, IInv, TypeOK, Recorded
    <2> QED
      BY <1>2, <2>1, <2>2 DEF AppendRow, flowVars, Delivery!Record
  <1>3. ASSUME NEW i \in Iterations, Publish(i)
        PROVE  UNCHANGED Delivery!vars \/ \E e \in Events : Delivery!Deliver(e)
    <2> PICK e \in Events :
          PublishConfirmed(i, e) \/ PublishUnavailable(i, e) \/ PublishThrows(i, e)
      BY <1>3 DEF Publish
    <2>1. e \in Recorded
      BY DEF PublishConfirmed, PublishUnavailable, PublishThrows, PublishReturns, Oldest,
             IInv, RelayInv, InHand
    <2>2. row' = row /\ published' \in {published, published \cup {e}}
      BY DEF PublishConfirmed, PublishUnavailable, PublishThrows
    <2>3. CASE published' = published \cup {e}
      BY <2>1, <2>2, <2>3 DEF Delivery!Deliver, Recorded
    <2>4. CASE published' = published
      BY <1>1, <2>2, <2>4
    <2> QED
      BY <2>2, <2>3, <2>4
  <1>4. ASSUME NEW i \in Iterations, Mark(i)
        PROVE  \E e \in Events : Delivery!Acknowledge(e) \/ Delivery!Abandon(e)
    <2> DEFINE e == relay[i].event
    <2>1. /\ e \in Recorded /\ e \in Events
          /\ relay[i].ok \in BOOLEAN
          /\ relay[i].ok => e \in published
      BY <1>4 DEF Mark, IInv, TypeOK, RelayInv, RelayState, Idle, InHand, Recorded
    <2>2. /\ row'[e] = MarkedAs(relay[i].ok)
          /\ \A f \in Events \ {e} : row'[f] = row[f]
          /\ published' = published
      BY <1>4, <2>1 DEF Mark, IInv, TypeOK
    <2>3. Recorded' = Recorded
      BY <2>1, <2>2 DEF Recorded, MarkedAs
    <2>4. CASE relay[i].ok
      BY <2>1, <2>2, <2>3, <2>4 DEF MarkedAs, Delivery!Acknowledge
    <2>5. CASE ~relay[i].ok
      BY <2>1, <2>2, <2>3, <2>5 DEF MarkedAs, Delivery!Abandon
    <2> QED
      BY <2>1, <2>4, <2>5
  <1>5. ASSUME NEW e \in Events, CommitChange(e) \/ SkipAppend(e)
        PROVE  UNCHANGED <<row, published>>
    BY <1>5 DEF CommitChange, SkipAppend, flowVars
  <1>6. ASSUME NEW i \in Iterations, Poll(i) \/ MarkThrows(i)
        PROVE  UNCHANGED <<row, published>>
    BY <1>6 DEF Poll, MarkThrows
  <1>7. ASSUME NEW p \in Pods, Lifecycle(p)
        PROVE  UNCHANGED <<row, published>>
    BY <1>7 DEF Lifecycle, Boot, Connect, Disconnect, Shutdown, Exit, Crash, storage
  <1>8. ASSUME UNCHANGED vars PROVE UNCHANGED <<row, published>>
    BY <1>8 DEF vars
  <1> QED
    BY <1>1, <1>2, <1>3, <1>4, <1>5, <1>6, <1>7, <1>8
       DEF Next, Flow, RelayOnce, Delivery!Next

\* Any number of relays, overlapping and failing as they may, do nothing that
\* EventDelivery does not allow (its fairness is left to the model checker).
THEOREM OutboxImplementsDelivery == Spec => Delivery!Spec
  BY InitRefines, StepRefines, SpecIInv, PTL DEF Spec, Delivery!Spec

-----------------------------------------------------------------------------
(***************************************************************************)
(* As long as nothing fails: the safety half of DeliveredUnlessFault.      *)
(***************************************************************************)
\* While nothing has failed, a committed event is on its way: its flow is still
\* to append it, a relay is still to read it, or the broker has it.
OnlyFaultsLose ==
  faults = 0 => \A e \in committed : e \in writing \cup Pending \cup published

\* An iteration that is under way still has its broker connection, so every
\* outcome it carries is a success and no row is ever marked FAILED.
NoFaultInv ==
  faults = 0 =>
    /\ committed \subseteq writing \cup Recorded
    /\ \A e \in Events : row[e] # "FAILED"
    /\ \A i \in Iterations : relay[i] # Idle => connected[PodOf[i]]
    /\ \A i \in Iterations : relay[i].at = "mark" => relay[i].ok

LEMMA NoFaultInit == Init => NoFaultInv
  BY DEF Init, NoFaultInv, Idle

\* A step after which nothing has failed is not a fault, and follows a state in
\* which nothing had failed.
LEMMA FaultsStay ==
  ASSUME IInv, [Next]_vars, faults' = 0
  PROVE  faults = 0 /\ ~Fault
  <1>1. faults \in Nat
    BY DEF IInv, TypeOK
  <1>2. faults' = faults \/ faults' = faults + 1
    BY DEF Next, Flow, RelayOnce, Publish, Lifecycle, CommitChange, AppendRow, SkipAppend,
           flowVars, Poll, PublishConfirmed, PublishUnavailable, PublishThrows, Mark,
           MarkThrows, Boot, Connect, Disconnect, Shutdown, Exit, Crash, Fault, vars
  <1> QED
    BY <1>1, <1>2 DEF Fault

LEMMA NoFaultFlow ==
  ASSUME IInv, NoFaultInv, faults = 0, ~Fault, NEW e \in Events, Flow(e)
  PROVE  NoFaultInv'
  <1>1. CASE CommitChange(e)
    BY <1>1 DEF CommitChange, flowVars, NoFaultInv, Recorded
  <1>2. CASE AppendRow(e)
    <2>1. \A f \in Events : row'[f] = IF f = e THEN "PENDING" ELSE row[f]
      BY <1>2 DEF AppendRow, IInv, TypeOK
    <2>2. Recorded' = Recorded \cup {e}
      BY <2>1 DEF Recorded
    <2> QED
      BY <1>2, <2>1, <2>2 DEF AppendRow, flowVars, NoFaultInv
  <1> QED
    BY <1>1, <1>2 DEF Flow, SkipAppend

LEMMA NoFaultRelay ==
  ASSUME IInv, NoFaultInv, faults = 0, ~Fault, NEW i \in Iterations, RelayOnce(i)
  PROVE  NoFaultInv'
  <1>0. PodOf[i] \in Pods
    BY OutboxAssumption
  <1>1. UNCHANGED <<committed, writing, connected>>
    BY DEF RelayOnce, Poll, Publish, PublishConfirmed, PublishUnavailable, PublishThrows,
           Mark, MarkThrows, rows
  <1>2. connected[PodOf[i]]
    <2>1. CASE Poll(i)
      BY <2>1 DEF Poll, MayRelay
    <2>2. CASE ~Poll(i)
      <3>1. relay[i].at \in {"publish", "mark"}
        BY <2>2 DEF RelayOnce, Publish, PublishConfirmed, PublishUnavailable, PublishThrows,
                    PublishReturns, Mark, MarkThrows
      <3>2. relay[i] # Idle
        BY <3>1 DEF Idle
      <3> QED
        BY <3>2 DEF NoFaultInv
    <2> QED
      BY <2>1, <2>2
  <1>3. relay'[i].at = "mark" => relay'[i].ok
    <2>1. CASE Poll(i)
      BY <2>1 DEF Poll, Publishing, IInv, TypeOK
    <2>2. CASE Publish(i)
      BY <1>2, <2>2 DEF Publish, PublishConfirmed, PublishUnavailable, PublishThrows,
                        PublishReturns, Marking, IInv, TypeOK
    <2>3. CASE Mark(i)
      BY <2>3 DEF Mark, Resume, Publishing, Idle, IInv, TypeOK
    <2> QED
      BY <2>1, <2>2, <2>3 DEF RelayOnce, MarkThrows
  <1>4. \A j \in Iterations \ {i} : relay'[j] = relay[j]
    BY DEF RelayOnce, Poll, Publish, PublishConfirmed, PublishUnavailable, PublishThrows,
           PublishReturns, Mark, MarkThrows, IInv, TypeOK
  <1>5. Recorded' = Recorded /\ \A e \in Events : row'[e] # "FAILED"
    <2>1. CASE Mark(i)
      <3>1. relay[i].ok /\ relay[i].event \in Recorded
        BY <2>1 DEF Mark, NoFaultInv, IInv, RelayInv, InHand
      <3>2. \A e \in Events : row'[e] = IF e = relay[i].event THEN "PROCESSED" ELSE row[e]
        BY <2>1, <3>1 DEF Mark, MarkedAs, IInv, TypeOK
      <3> QED
        BY <3>1, <3>2 DEF Recorded, NoFaultInv
    <2>2. CASE ~Mark(i)
      <3>1. row' = row
        BY <2>2 DEF RelayOnce, Poll, Publish, PublishConfirmed, PublishUnavailable,
                    PublishThrows, MarkThrows
      <3> QED
        BY <3>1 DEF Recorded, NoFaultInv
    <2> QED
      BY <2>1, <2>2
  <1> QED
    BY <1>0, <1>1, <1>2, <1>3, <1>4, <1>5 DEF NoFaultInv

LEMMA NoFaultLifecycle ==
  ASSUME IInv, NoFaultInv, faults = 0, ~Fault, NEW p \in Pods, Lifecycle(p)
  PROVE  NoFaultInv'
  <1>1. /\ UNCHANGED <<committed, writing, row>>
        /\ relay' = relay \/ relay' = Stopped(p)
        /\ connected' = connected \/ connected' = [connected EXCEPT ![p] = TRUE]
    BY DEF Lifecycle, Boot, Connect, Disconnect, Shutdown, Exit, Crash, storage
  <1>2. \A i \in Iterations : relay'[i] = relay[i] \/ relay'[i] = Idle
    BY <1>1 DEF Stopped
  <1>3. \A i \in Iterations : connected[PodOf[i]] => connected'[PodOf[i]]
    BY <1>1, OutboxAssumption DEF IInv, TypeOK
  <1>4. Recorded' = Recorded
    BY <1>1 DEF Recorded
  <1> QED
    BY <1>1, <1>2, <1>3, <1>4 DEF NoFaultInv, Idle

LEMMA NoFaultStep ==
  ASSUME IInv, NoFaultInv, [Next]_vars
  PROVE  NoFaultInv'
  <1> SUFFICES ASSUME faults' = 0 PROVE NoFaultInv'
    BY DEF NoFaultInv
  <1>1. faults = 0 /\ ~Fault
    BY FaultsStay
  <1>2. CASE UNCHANGED vars
    BY <1>2 DEF vars, NoFaultInv, Recorded
  <1> QED
    BY <1>1, <1>2, NoFaultFlow, NoFaultRelay, NoFaultLifecycle DEF Next

\* Overlapping iterations, pods that have not connected yet and batch limits
\* lose no event: as long as nothing fails, whatever is committed is
\* still to be appended, still PENDING, or with the broker.
THEOREM NothingIsLostWithoutFault == Spec => []OnlyFaultsLose
  <1>1. IInv /\ NoFaultInv => OnlyFaultsLose
    <2> SUFFICES ASSUME IInv, NoFaultInv, faults = 0, NEW e \in committed, e \notin writing
                 PROVE  e \in Pending \cup published
      BY DEF OnlyFaultsLose
    <2>1. e \in Recorded /\ row[e] # "FAILED"
      BY DEF NoFaultInv, IInv, TypeOK
    <2>2. row[e] \in {"PENDING", "PROCESSED"}
      BY <2>1 DEF Recorded, IInv, TypeOK
    <2> QED
      BY <2>1, <2>2 DEF Pending, Recorded, IInv, ProcessedWasPublished
  <1>2. IInv /\ NoFaultInv /\ [Next]_vars => NoFaultInv'
    BY NoFaultStep
  <1> QED
    BY <1>1, <1>2, NoFaultInit, SpecIInv, PTL DEF Spec
=============================================================================
