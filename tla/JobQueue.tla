------------------------------ MODULE JobQueue ------------------------------
(***************************************************************************)
(* Background jobs: the BullMQ queues (modules/queue) and the processors   *)
(* that consume them in every API and worker pod.                          *)
(*                                                                         *)
(* A queue hands a waiting job to any free worker attached to it.  A       *)
(* processor looks at job.name only once it holds the job, and returns     *)
(* normally when the name is another processor's.  BullMQ itself (states,  *)
(* locks, retries, stalled jobs) is outside the repository: it is modelled *)
(* from the options the code passes and the defaults it leaves alone.      *)
(***************************************************************************)
EXTENDS Naturals, FiniteSets

CONSTANTS
  Jobs,         \* jobs the API may enqueue
  Workers,      \* one per processor class and pod, each runs one job at a time
  Queues, Names, Pods,
  SentTo,       \* queue of a job
  NameOf,       \* name of a job
  Consumes,     \* queue of a worker
  Handles,      \* the one job name its processor accepts
  PodOf,        \* pod of a worker
  MaxAttempts,  \* DEFAULT_JOB_OPTIONS.attempts
  MaxStalled,   \* maxStalledCount, BullMQ's default
  MaxFaults,    \* bound: crashes and lost locks in a behaviour
  NONE

ASSUME JobQueueAssumption ==
  /\ SentTo \in [Jobs -> Queues] /\ NameOf \in [Jobs -> Names]
  /\ Consumes \in [Workers -> Queues] /\ Handles \in [Workers -> Names]
  /\ PodOf \in [Workers -> Pods] /\ IsFiniteSet(Workers)
  /\ MaxAttempts \in Nat \ {0} /\ MaxStalled \in Nat /\ MaxFaults \in Nat
  /\ NONE \notin Workers

VARIABLES
  state,     \* where BullMQ keeps each job
  attempts,  \* attemptsMade
  stalls,    \* stalledCounter
  owner,     \* the worker whose lock is on the job
  running,   \* what each worker is executing
  effects,   \* times the job's own processor did its work
  faults

queueVars == <<state, attempts, stalls, owner, running, effects, faults>>

Free == [at |-> "free"]
Running(j, phase) == [at |-> phase, job |-> j]

QueueTypes ==
  /\ state \in [Jobs -> {"absent", "waiting", "delayed", "active", "completed", "failed"}]
  /\ attempts \in [Jobs -> 0..MaxAttempts]
  /\ stalls \in [Jobs -> 0..(MaxStalled + 1)]
  /\ owner \in [Jobs -> Workers \cup {NONE}]
  /\ running \in [Workers -> {Free} \cup [at : {"called", "done"}, job : Jobs]]
  /\ effects \in [Jobs -> Nat]
  /\ faults \in Nat

QueueInit ==
  /\ state = [j \in Jobs |-> "absent"]
  /\ attempts = [j \in Jobs |-> 0]
  /\ stalls = [j \in Jobs |-> 0]
  /\ owner = [j \in Jobs |-> NONE]
  /\ running = [w \in Workers |-> Free]
  /\ effects = [j \in Jobs |-> 0]
  /\ faults = 0

Fault == faults < MaxFaults /\ faults' = faults + 1

Executes(w, j) == running[w].at # "free" /\ running[w].job = j
Accepts(w, j) == Handles[w] = NameOf[j]

\* Mutant: the comparison of job.name is inverted.
NotMine(w) == ~Accepts(w, running[w].job)
Mine(w) == Accepts(w, running[w].job)

HoldsLock(w) == owner[running[w].job] = w

\* Mutant: a job that used its last attempt goes back to the queue.
NeverGiveUp(n) == "delayed"
AfterThrow(n) == IF n < MaxAttempts THEN "delayed" ELSE "failed"

AfterStall(n) == IF n <= MaxStalled THEN "waiting" ELSE "failed"

\* Mutant: a processor puts a job of another name back on the queue.
RequeueOther(w) == IF Mine(w) THEN "completed" ELSE "waiting"
AfterReturn(w) == "completed"

-----------------------------------------------------------------------------
New(j) == state[j] = "absent"

\* queue.add without a jobId: every call makes a new job.
Enqueue(j) ==
  /\ New(j)
  /\ state' = [state EXCEPT ![j] = "waiting"]
  /\ UNCHANGED <<attempts, stalls, owner, running, effects, faults>>

\* BullMQ gives the job to whichever worker asks first.
Take(w, j) ==
  /\ running[w] = Free
  /\ state[j] = "waiting"
  /\ Consumes[w] = SentTo[j]
  /\ state' = [state EXCEPT ![j] = "active"]
  /\ owner' = [owner EXCEPT ![j] = w]
  /\ running' = [running EXCEPT ![w] = Running(j, "called")]
  /\ UNCHANGED <<attempts, stalls, effects, faults>>

\* "name mismatch": the processor returns at once, and normally.
SkipOther(w) ==
  /\ running[w].at = "called"
  /\ ~Mine(w)
  /\ running' = [running EXCEPT ![w].at = "done"]
  /\ UNCHANGED <<state, attempts, stalls, owner, effects, faults>>

Process(w) ==
  /\ running[w].at = "called"
  /\ Mine(w)
  /\ effects' = [effects EXCEPT ![running[w].job] = @ + 1]
  /\ running' = [running EXCEPT ![w].at = "done"]
  /\ UNCHANGED <<state, attempts, stalls, owner, faults>>

\* moveToCompleted: refused when the lock is gone.
Complete(w) ==
  /\ running[w].at = "done"
  /\ running' = [running EXCEPT ![w] = Free]
  /\ \/ /\ HoldsLock(w)
        /\ state' = [state EXCEPT ![running[w].job] = AfterReturn(w)]
        /\ owner' = [owner EXCEPT ![running[w].job] = NONE]
     \/ ~HoldsLock(w) /\ UNCHANGED <<state, owner>>
  /\ UNCHANGED <<attempts, stalls, effects, faults>>

\* The processor throws, before or after its work: moveToFailed with backoff.
Throw(w) ==
  /\ running[w].at \in {"called", "done"}
  /\ Mine(w)
  /\ running' = [running EXCEPT ![w] = Free]
  /\ LET j == running[w].job IN
       \/ /\ HoldsLock(w)
          /\ attempts' = [attempts EXCEPT ![j] = @ + 1]
          /\ state' = [state EXCEPT ![j] = AfterThrow(attempts[j] + 1)]
          /\ owner' = [owner EXCEPT ![j] = NONE]
       \/ ~HoldsLock(w) /\ UNCHANGED <<attempts, state, owner>>
  /\ UNCHANGED <<stalls, effects, faults>>

Promote(j) ==
  /\ state[j] = "delayed"
  /\ state' = [state EXCEPT ![j] = "waiting"]
  /\ UNCHANGED <<attempts, stalls, owner, running, effects, faults>>

\* The stalled-job checker finds an active job whose lock has expired.
Unlock(j) ==
  /\ state[j] = "active"
  /\ stalls' = [stalls EXCEPT ![j] = @ + 1]
  /\ state' = [state EXCEPT ![j] = AfterStall(stalls[j] + 1)]
  /\ owner' = [owner EXCEPT ![j] = NONE]
  /\ UNCHANGED <<attempts, running, effects>>

Reclaim(j) ==
  /\ Unlock(j)
  /\ \A w \in Workers : owner[j] = w => ~Executes(w, j)
  /\ UNCHANGED faults

\* Its worker lives, but could not renew the lock in time, and carries on.
LoseLock(j) ==
  /\ Unlock(j)
  /\ \E w \in Workers : owner[j] = w /\ Executes(w, j)
  /\ Fault

Crash(p) ==
  /\ Fault
  /\ running' = [w \in Workers |-> IF PodOf[w] = p THEN Free ELSE running[w]]
  /\ UNCHANGED <<state, attempts, stalls, owner, effects>>

-----------------------------------------------------------------------------
Work(w) ==
  \/ \E j \in Jobs : Take(w, j)
  \/ SkipOther(w) \/ Process(w) \/ Complete(w) \/ Throw(w)

Settled(j) == state[j] \in {"completed", "failed"}

Quiet == (\A j \in Jobs : Settled(j)) /\ (\A w \in Workers : running[w] = Free)

QueueNext ==
  \/ \E j \in Jobs : Enqueue(j) \/ Promote(j) \/ Reclaim(j) \/ LoseLock(j)
  \/ \E w \in Workers : Work(w)
  \/ \E p \in Pods : Crash(p)
  \/ Quiet /\ UNCHANGED queueVars

QueueSpec == QueueInit /\ [][QueueNext]_queueVars

(***************************************************************************)
(* Workers poll for ever and a handler's awaits settle; BullMQ promotes    *)
(* delayed jobs and looks for stalled ones on a timer.  Enqueue, Throw,    *)
(* LoseLock and Crash are never fair.                                      *)
(***************************************************************************)
Fairness ==
  /\ \A j \in Jobs : WF_queueVars(Promote(j)) /\ WF_queueVars(Reclaim(j))
  /\ \A w \in Workers :
       /\ WF_queueVars(\E j \in Jobs : Take(w, j))
       /\ WF_queueVars(SkipOther(w) \/ Process(w))
       /\ WF_queueVars(Complete(w))

FairSpec == QueueSpec /\ Fairness

-----------------------------------------------------------------------------
(***************************************************************************)
(* Properties.  Providers and database are configured: a processor that    *)
(* lacks one also returns normally, without its work.                      *)
(***************************************************************************)

\* A job reported completed on a queue with one processor class really had its
\* work done, whatever worker died or lost its lock on the way.
DedicatedQueueDoesTheWork ==
  \A j \in Jobs :
    (state[j] = "completed" /\ \A w \in Workers : Consumes[w] = SentTo[j] => Accepts(w, j))
      => effects[j] >= 1

\* The work of a job is repeated at most once for each recorded attempt or
\* stall, so never more than MaxAttempts + MaxStalled times in all, although
\* workers that lost their lock go on (queue.constants.ts:24-26).
RerunsAreAccountedFor ==
  \A j \in Jobs :
    /\ effects[j] <= attempts[j] + stalls[j] + 1
    /\ effects[j] <= MaxAttempts + MaxStalled

\* A job is given up only when its attempts or its stalls are used up.
FailedUsedItsTries ==
  \A j \in Jobs :
    state[j] = "failed" => (attempts[j] = MaxAttempts \/ stalls[j] > MaxStalled)

\* The verdict on a job is final: a worker that lost its lock cannot complete,
\* fail or requeue a job that another worker has settled meanwhile.
VerdictIsFinal ==
  [][\A j \in Jobs : Settled(j) => state'[j] = state[j]]_queueVars

\* Every job that was enqueued ends, completed or failed.
EveryJobEnds == \A j \in Jobs : state[j] = "waiting" ~> Settled(j)

\* conversation.worker.ts:12-13: "Non-matching job names are skipped so both
\* `ai-jobs` processors can coexist on the queue".  They cannot: a job taken by
\* the other processor is completed without its work having been done.
CompletedMeansDone ==
  \A j \in Jobs : state[j] = "completed" => effects[j] >= 1
=============================================================================
