------------------------------ MODULE Invoices ------------------------------
(***************************************************************************)
(* Invoices of one organisation in one calendar year: numbering, the       *)
(* lifecycle endpoints and the overdue sweep (modules/invoices).           *)
(*                                                                         *)
(* A request or a worker iteration is a process.  Its database statements  *)
(* interleave with everybody else's; between two of them it holds only     *)
(* what it has read.  invoice.service.ts checks a transition against the   *)
(* status it read and then updates by id; the sweep flips with a guard.    *)
(***************************************************************************)
EXTENDS Naturals, FiniteSets

CONSTANTS
  Procs,       \* requests and worker iterations that may be in flight
  Ids,         \* bound: the invoices that can be created
  BatchSize,   \* OVERDUE_SWEEP_BATCH_SIZE
  DueDates,    \* the due dates requests ask for, past ones included
  MaxTime      \* bound: the clock stops here

ASSUME InvoicesAssumption ==
  BatchSize \in Nat \ {0} /\ DueDates \subseteq Nat /\ MaxTime \in Nat

VARIABLES
  invoice,   \* the invoices table
  counter,   \* invoice_number_counters.value
  alerts,    \* overdue notifications raised, in batches (one per recipient)
  now,
  proc       \* where each process stands

vars == <<invoice, counter, alerts, now, proc>>

Statuses == {"DRAFT", "SENT", "OVERDUE", "PAID", "VOID"}

TRANSITIONS ==
  {<<"DRAFT", "SENT">>, <<"DRAFT", "VOID">>,
   <<"SENT", "PAID">>, <<"SENT", "OVERDUE">>, <<"SENT", "VOID">>,
   <<"OVERDUE", "PAID">>, <<"OVERDUE", "VOID">>}

NoInvoice == [status |-> "ABSENT", number |-> 0, due |-> 0, issued |-> FALSE, paid |-> FALSE]

Invoice(n, status, due) ==
  [status |-> status, number |-> n, due |-> due, issued |-> status = "SENT", paid |-> FALSE]

Existing == {i \in Ids : invoice[i].status # "ABSENT"}

EventOf(to) == CASE to = "SENT" -> "issued" [] to = "PAID" -> "paid" [] OTHER -> "voided"
Events == {"created", "issued", "paid", "voided", "overdue"}

\* Process states: a transition that has read the row and passed its checks, a
\* creation inside its transaction, a sweep, and a change to announce.
Idle == [at |-> "idle"]
Moving(i, from, to) == [at |-> "move", id |-> i, from |-> from, to |-> to]
Inserting(n, status, due) == [at |-> "insert", number |-> n, status |-> status, due |-> due]
Sweeping(todo) == [at |-> "sweep", todo |-> todo]
Announcing(i, event, todo) == [at |-> "announce", id |-> i, event |-> event, todo |-> todo]

ProcState ==
  {Idle}
    \cup [at : {"move"}, id : Ids, from : Statuses, to : {"SENT", "PAID", "VOID"}]
    \cup [at : {"insert"}, number : Nat, status : {"DRAFT", "SENT"}, due : Nat]
    \cup [at : {"sweep"}, todo : (SUBSET Ids) \ {{}}]
    \cup [at : {"announce"}, id : Ids, event : Events, todo : SUBSET Ids]

Rows ==
  [status : Statuses \cup {"ABSENT"}, number : Nat, due : Nat, issued : BOOLEAN, paid : BOOLEAN]

TypeOK ==
  /\ invoice \in [Ids -> Rows]
  /\ counter \in Nat
  /\ alerts \in [Ids -> Nat]
  /\ now \in 0..MaxTime
  /\ proc \in [Procs -> ProcState]

Init ==
  /\ invoice = [i \in Ids |-> NoInvoice]
  /\ counter = 0
  /\ alerts = [i \in Ids |-> 0]
  /\ now = 0
  /\ proc = [p \in Procs |-> Idle]

Goto(p, s) == proc' = [proc EXCEPT ![p] = s]

Resume(todo) == IF todo = {} THEN Idle ELSE Sweeping(todo)

-----------------------------------------------------------------------------
(***************************************************************************)
(* POST /invoices: insertInvoice.  The counter's row lock is taken by the  *)
(* first statement and held to the end of the transaction, so at most one  *)
(* process is inserting.  Customer and products exist.                     *)
(***************************************************************************)

\* Mutant: the counter is read without its row lock.
NoLock == TRUE
CounterUnlocked == \A p \in Procs : proc[p].at # "insert"

BeginInsert(p, status, due) ==
  /\ proc[p] = Idle
  /\ CounterUnlocked
  /\ Existing # Ids
  /\ Goto(p, Inserting(counter + 1, status, due))
  /\ UNCHANGED <<invoice, counter, alerts, now>>

CommitInsert(p, i) ==
  /\ proc[p].at = "insert"
  /\ i \notin Existing
  /\ \A k \in Existing : invoice[k].number # proc[p].number
  /\ invoice' = [invoice EXCEPT ![i] = Invoice(proc[p].number, proc[p].status, proc[p].due)]
  /\ counter' = proc[p].number
  /\ Goto(p, Announcing(i, "created", {}))
  /\ UNCHANGED <<alerts, now>>

-----------------------------------------------------------------------------
(***************************************************************************)
(* POST /invoices/:id/{issue,pay,void}: transition().                      *)
(***************************************************************************)

MayMove(from, to) == <<from, to>> \in TRANSITIONS

\* findFirst and the two checks: the current state is a no-op, an illegal one a 409.
ReadForMove(p, i, to) ==
  /\ proc[p] = Idle
  /\ i \in Existing
  /\ MayMove(invoice[i].status, to)
  /\ Goto(p, Moving(i, invoice[i].status, to))
  /\ UNCHANGED <<invoice, counter, alerts, now>>

Moved(r, to) ==
  [r EXCEPT !.status = to, !.issued = @ \/ to = "SENT", !.paid = @ \/ to = "PAID"]

\* update({ where: { id } }): whatever the row says by now.
Move(p) ==
  /\ proc[p].at = "move"
  /\ invoice' = [invoice EXCEPT ![proc[p].id] = Moved(@, proc[p].to)]
  /\ Goto(p, Announcing(proc[p].id, EventOf(proc[p].to), {}))
  /\ UNCHANGED <<counter, alerts, now>>

-----------------------------------------------------------------------------
(***************************************************************************)
(* invoice.overdue.sweep: the oldest expired invoices, one transaction     *)
(* each.  The organisation has a member to notify.                         *)
(***************************************************************************)
Expired == {i \in Existing : invoice[i].status = "SENT" /\ invoice[i].due < now}

OldestOf(S, T) == \A i \in S, j \in T \ S : invoice[i].due <= invoice[j].due

StartSweep(p, batch) ==
  /\ proc[p] = Idle
  /\ batch # {} /\ OldestOf(batch, Expired)
  /\ Cardinality(batch) <= BatchSize
  /\ batch = Expired \/ Cardinality(batch) = BatchSize
  /\ Goto(p, Sweeping(batch))
  /\ UNCHANGED <<invoice, counter, alerts, now>>

NextInSweep(p, i) ==
  proc[p].at = "sweep" /\ i \in proc[p].todo /\ OldestOf({i}, proc[p].todo)

\* Mutant: the flip does not repeat the SENT condition.
AnyStatus(i) == TRUE
StillSent(i) == invoice[i].status = "SENT"

\* Mutant: notifications are left to a later step that may not come.
Unnotified(n) == n
Notified(n) == n + 1

Flip(p, i) ==
  /\ NextInSweep(p, i)
  /\ StillSent(i)
  /\ invoice' = [invoice EXCEPT ![i].status = "OVERDUE"]
  /\ alerts' = [alerts EXCEPT ![i] = Notified(@)]
  /\ Goto(p, Announcing(i, "overdue", proc[p].todo \ {i}))
  /\ UNCHANGED <<counter, now>>

AfterLostFlip(i, todo) == Resume(todo)

\* The invoice has moved, or its transaction failed and was logged.
SkipFlip(p, i) ==
  /\ NextInSweep(p, i)
  /\ Goto(p, AfterLostFlip(i, proc[p].todo \ {i}))
  /\ UNCHANGED <<invoice, counter, alerts, now>>

-----------------------------------------------------------------------------
\* emit() and emitOverdue(), after the commit: errors are swallowed, so the
\* process goes on either way.  What becomes of the row is module Outbox's.
Emit(p) ==
  /\ proc[p].at = "announce"
  /\ Goto(p, Resume(proc[p].todo))
  /\ UNCHANGED <<invoice, counter, alerts, now>>

\* A statement outside a try rejects, a transaction is rolled back, or the
\* process dies; PostgreSQL then releases its locks.
Abort(p) ==
  /\ proc[p] # Idle
  /\ Goto(p, Idle)
  /\ UNCHANGED <<invoice, counter, alerts, now>>

Tick ==
  /\ now < MaxTime
  /\ now' = now + 1
  /\ UNCHANGED <<invoice, counter, alerts, proc>>

-----------------------------------------------------------------------------
Create(p) ==
  \/ \E status \in {"DRAFT", "SENT"}, due \in DueDates : BeginInsert(p, status, due)
  \/ \E i \in Ids : CommitInsert(p, i)

Transition(p) ==
  \/ \E i \in Ids, to \in {"SENT", "PAID", "VOID"} : ReadForMove(p, i, to)
  \/ Move(p)

Sweep(p) ==
  \/ \E batch \in SUBSET Expired : StartSweep(p, batch)
  \/ \E i \in Ids : Flip(p, i) \/ SkipFlip(p, i)

Step(p) == Create(p) \/ Transition(p) \/ Sweep(p) \/ Emit(p) \/ Abort(p)

Next == Tick \/ \E p \in Procs : Step(p)

Spec == Init /\ [][Next]_vars

-----------------------------------------------------------------------------
(***************************************************************************)
(* Properties.                                                             *)
(***************************************************************************)

\* Numbers have no gap and no duplicate, and the number held by a transaction
\* in progress is the next free one: a rolled back creation gives its number
\* back (invoice.service.ts:269-287; "concurrent creates can never collide").
NumbersGapless ==
  /\ {invoice[i].number : i \in Existing} = 1..counter
  /\ \A i, k \in Existing : invoice[i].number = invoice[k].number => i = k
  /\ \A p \in Procs : proc[p].at = "insert" => proc[p].number = counter + 1

\* Nobody pays an invoice that was never issued, however requests race: every
\* path to PAID, a stale one included, starts from a status seen after an issue.
PaidWasIssued == \A i \in Ids : invoice[i].paid => invoice[i].issued

\* An OVERDUE invoice has been notified, and only an invoice past its due date
\* ever was: status and notifications commit together, and no endpoint can
\* write a stale OVERDUE (invoice.overdue.worker.ts:105-130).
OverdueWasAlerted ==
  \A i \in Ids :
    /\ invoice[i].status = "OVERDUE" => alerts[i] >= 1
    /\ alerts[i] >= 1 => (invoice[i].issued /\ invoice[i].due < now)

\* An event handed to the outbox tells of something that did happen, whatever
\* was written meanwhile: the emits come after the commit, and a sweep that lost
\* the race for an invoice stays silent.
AnnouncedHappened ==
  \A p \in Procs :
    proc[p].at = "announce" =>
      LET i == proc[p].id IN
        /\ i \in Existing
        /\ proc[p].event = "issued" => invoice[i].issued
        /\ proc[p].event = "paid" => invoice[i].paid
        /\ proc[p].event = "overdue" => alerts[i] >= 1

Legal(from, to) == from \in {to, "ABSENT"} \/ <<from, to>> \in TRANSITIONS

\* The only way off the state machine is a request that writes over a status
\* other than the one it checked.
IllegalMoveIsStale ==
  [][\A i \in Ids :
       \/ Legal(invoice[i].status, invoice[i].status')
       \/ \E p \in Procs :
            /\ proc[p].at = "move" /\ proc[p].id = i
            /\ proc[p].from # invoice[i].status]_vars
=============================================================================
