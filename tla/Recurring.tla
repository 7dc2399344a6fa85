----------------------------- MODULE Recurring ------------------------------
(***************************************************************************)
(* Billing schedules (modules/invoices: recurring-invoice.service.ts,      *)
(* invoice.recurrence.worker.ts), composed with the invoices they create.  *)
(*                                                                         *)
(* A run lists the due schedules, then creates an invoice for each and     *)
(* advances the schedule in the same transaction, guarded on the nextRunAt *)
(* it has read.  Pause and resume read a schedule and write active and     *)
(* nextRunAt back, unguarded.                                              *)
(***************************************************************************)
EXTENDS Invoices

CONSTANTS
  Schedules,
  Period,      \* cadence and interval of a schedule
  NetTerms,    \* netTermsDays
  Issues,      \* issueOnCreate
  Starts,      \* the startsAt requests ask for, past ones included
  RunLimit,    \* RECURRENCE_RUN_BATCH_SIZE
  CatchUp,     \* the guard of advancePastNow
  NEVER

ASSUME RecurringAssumption ==
  /\ Period \in [Schedules -> Nat \ {0}] /\ NetTerms \in [Schedules -> Nat]
  /\ Issues \in [Schedules -> BOOLEAN]
  /\ Starts \subseteq Nat /\ RunLimit \in Nat \ {0} /\ CatchUp \in Nat
  /\ NEVER \notin Nat

VARIABLES
  schedule,  \* the recurring_invoices table
  origin,    \* invoices.recurringInvoiceId
  run,       \* a process that runs the recurrence job, or toggles a schedule
  stale      \* history: schedules that a toggle has moved back

recurringVars == <<schedule, origin, run, stale>>
allVars == <<vars, recurringVars>>

Row(active, next, last, count) ==
  [state |-> "kept", active |-> active, next |-> next, last |-> last, count |-> count]
Gone(state) == [state |-> state, active |-> FALSE, next |-> 0, last |-> NEVER, count |-> 0]

Kept(s) == schedule[s].state = "kept"

NoRun == [at |-> "none"]
Loop(due, time) == [at |-> "loop", due |-> due, time |-> time]
Billing(d, due, time) == [at |-> "bill", this |-> d, due |-> due, time |-> time]
Toggle(s, active, next) == [at |-> "toggle", id |-> s, active |-> active, next |-> next]

Due == [id : Schedules, next : Nat]

RecurringInit ==
  /\ Init
  /\ schedule = [s \in Schedules |-> Gone("absent")]
  /\ origin = [i \in Ids |-> NEVER]
  /\ run = [p \in Procs |-> NoRun]
  /\ stale = {}

GotoRun(p, r) == run' = [run EXCEPT ![p] = r]

Onward(due, time) == IF due = {} THEN NoRun ELSE Loop(due, time)

-----------------------------------------------------------------------------
(***************************************************************************)
(* advancePastNow: one period, then up to CatchUp more until past now.     *)
(***************************************************************************)

AdvancePastNow(s, from, time) ==
  LET enough == {k \in 1..(CatchUp + 1) : from + k * Period[s] > time}
  IN  IF enough = {} THEN from + (CatchUp + 1) * Period[s]
      ELSE CHOOSE t \in {from + k * Period[s] : k \in enough} :
             \A k \in enough : t <= from + k * Period[s]

-----------------------------------------------------------------------------
(***************************************************************************)
(* The schedule endpoints.                                                 *)
(***************************************************************************)
CreateSchedule(s, start) ==
  /\ schedule[s].state = "absent"
  /\ schedule' = [schedule EXCEPT ![s] = Row(TRUE, start, NEVER, 0)]
  /\ UNCHANGED <<vars, origin, run, stale>>

\* setActive, up to its await of update(): resuming pulls a past date to now.
ReadForToggle(p, s, active) ==
  /\ proc[p] = Idle /\ run[p] = NoRun
  /\ Kept(s)
  /\ GotoRun(p, Toggle(s, active,
                       IF active /\ schedule[s].next < now THEN now ELSE schedule[s].next))
  /\ UNCHANGED <<vars, schedule, origin, stale>>

WriteToggle(p) ==
  /\ run[p].at = "toggle"
  /\ LET s == run[p].id IN
       \/ /\ Kept(s)
          /\ schedule' = [schedule EXCEPT ![s].active = run[p].active, ![s].next = run[p].next]
          /\ stale' = IF run[p].next < schedule[s].next THEN stale \cup {s} ELSE stale
       \/ ~Kept(s) /\ UNCHANGED <<schedule, stale>>
  /\ GotoRun(p, NoRun)
  /\ UNCHANGED <<vars, origin>>

\* remove: the invoices stay, their link is set to null.
Remove(s) ==
  /\ Kept(s)
  /\ schedule' = [schedule EXCEPT ![s] = Gone("removed")]
  /\ origin' = [i \in Ids |-> IF origin[i] = s THEN NEVER ELSE origin[i]]
  /\ UNCHANGED <<vars, run, stale>>

-----------------------------------------------------------------------------
(***************************************************************************)
(* invoice.recurrence.run.                                                 *)
(***************************************************************************)
DueNow == {s \in Schedules : Kept(s) /\ schedule[s].active /\ schedule[s].next <= now}

\* listDue: the oldest, with the rows as they are now.
StartRun(p, batch) ==
  /\ proc[p] = Idle /\ run[p] = NoRun
  /\ batch # {}
  /\ \A s \in batch, t \in DueNow \ batch : schedule[s].next <= schedule[t].next
  /\ Cardinality(batch) <= RunLimit
  /\ batch = DueNow \/ Cardinality(batch) = RunLimit
  /\ GotoRun(p, Loop({[id |-> s, next |-> schedule[s].next] : s \in batch}, now))
  /\ UNCHANGED <<vars, schedule, origin, stale>>

\* generateForRecurring: the transaction takes the invoice counter first.
BeginBill(p, d) ==
  /\ run[p].at = "loop" /\ d \in run[p].due
  /\ \A e \in run[p].due : d.next <= e.next
  /\ BeginInsert(p, IF Issues[d.id] THEN "SENT" ELSE "DRAFT", run[p].time + NetTerms[d.id])
  /\ GotoRun(p, Billing(d, run[p].due \ {d}, run[p].time))
  /\ UNCHANGED <<schedule, origin, stale>>

\* Mutant: the advance is not guarded on the observed nextRunAt.
StillActive(d) == Kept(d.id) /\ schedule[d.id].active
Unmoved(d) == Kept(d.id) /\ schedule[d.id].active /\ schedule[d.id].next = d.next

Counted(n) == n + 1

\* The guarded updateMany matches and the transaction commits.
CommitBill(p, i) ==
  /\ run[p].at = "bill"
  /\ CommitInsert(p, i)
  /\ LET d == run[p].this IN
       /\ Unmoved(d)
       /\ schedule' = [schedule EXCEPT
            ![d.id] = Row(TRUE, AdvancePastNow(d.id, d.next, run[p].time), run[p].time, Counted(@.count))]
       /\ origin' = [origin EXCEPT ![i] = d.id]
  /\ UNCHANGED <<run, stale>>

\* Mutant: the counter is incremented outside the transaction.
NumberBurned(p) ==
  Goto(p, Idle) /\ counter' = counter + 1 /\ UNCHANGED <<invoice, alerts, now>>
RolledBack(p) == Abort(p)

\* ScheduleRaceError, or any other error of one schedule: the loop goes on.
RollBackBill(p) ==
  /\ run[p].at = "bill" /\ proc[p].at = "insert"
  /\ RolledBack(p)
  /\ GotoRun(p, Onward(run[p].due, run[p].time))
  /\ UNCHANGED <<schedule, origin, stale>>

\* invoice.created and recurring_invoice.generated are emitted.
FinishBill(p) ==
  /\ run[p].at = "bill"
  /\ Emit(p)
  /\ GotoRun(p, Onward(run[p].due, run[p].time))
  /\ UNCHANGED <<schedule, origin, stale>>

\* The process dies.
AbandonRun(p) ==
  /\ run[p] # NoRun
  /\ \/ Abort(p)
     \/ proc[p] = Idle /\ UNCHANGED vars
  /\ GotoRun(p, NoRun)
  /\ UNCHANGED <<schedule, origin, stale>>

-----------------------------------------------------------------------------
Recur(p) ==
  \/ \E s \in Schedules, active \in BOOLEAN : ReadForToggle(p, s, active)
  \/ WriteToggle(p)
  \/ \E batch \in SUBSET DueNow : StartRun(p, batch)
  \/ run[p].at = "loop" /\ \E d \in run[p].due : BeginBill(p, d)
  \/ \E i \in Ids : CommitBill(p, i)
  \/ RollBackBill(p) \/ FinishBill(p) \/ AbandonRun(p)

RecurringNext ==
  \/ \E s \in Schedules : Remove(s) \/ \E start \in Starts : CreateSchedule(s, start)
  \/ \E p \in Procs : Recur(p)
  \/ \E p \in Procs : run[p] = NoRun /\ Step(p) /\ UNCHANGED recurringVars
  \/ Tick /\ UNCHANGED recurringVars

RecurringSpec == RecurringInit /\ [][RecurringNext]_allVars

-----------------------------------------------------------------------------
(***************************************************************************)
(* Properties.                                                             *)
(***************************************************************************)
\* Concurrent runs never bill a period twice, pauses and resumes included, as
\* long as no toggle overwrites a nextRunAt that has moved since it was read.
\* Slots are a period apart and none is later than the run that billed it.
NeverOverbilled ==
  \A s \in Schedules :
    (schedule[s].count > 0 /\ s \notin stale)
      => (schedule[s].count - 1) * Period[s] <= schedule[s].last

Promised ==
  INSTANCE Invoices WITH
    DueDates <- DueDates \cup {t + NetTerms[s] : t \in 0..MaxTime, s \in Schedules}

\* A run only creates invoices the way a request does: with schedules around,
\* the invoices still behave as Invoices says, numbering and lifecycle included.
InvoicesSpec == Promised!Spec
=============================================================================
