--------------------------- MODULE InvoicesProofs ---------------------------
(***************************************************************************)
(* Theorems about Invoices, about the schedules of Recurring that bill     *)
(* with them, and about JobQueue, whose workers run the sweeps of both,    *)
(* for any number of processes, invoices, schedules, jobs and pods, any    *)
(* attempts and stalls allowed, and any bound on the faults.               *)
(***************************************************************************)
EXTENDS Recurring, JobQueue, FiniteSetTheorems, WellFoundedInduction, TLAPS

\* Whatever is SENT, OVERDUE or PAID, by a stale write or not, has been issued;
\* whatever was alerted was late.
RowsInv ==
  \A i \in Ids :
    /\ invoice[i].status \in {"SENT", "OVERDUE", "PAID"} => invoice[i].issued
    /\ invoice[i].status = "ABSENT" => ~invoice[i].issued

Late == {i \in Existing : invoice[i].issued /\ invoice[i].due < now}

\* What a process in state s may rely on although others have written since.
Held(s) ==
  /\ s.at = "move" =>
       /\ s.id \in Existing
       /\ MayMove(s.from, s.to)
       /\ s.from \in {"SENT", "OVERDUE"} => invoice[s.id].issued
  /\ s.at \in {"sweep", "announce"} => s.todo \subseteq Late
  /\ s.at = "announce" =>
       /\ s.id \in Existing
       /\ s.event = "issued" => invoice[s.id].issued
       /\ s.event = "paid" => invoice[s.id].paid
       /\ s.event = "overdue" => alerts[s.id] >= 1

HeldInv == \A p \in Procs : Held(proc[p])

OneInsert == \A p, q \in Procs : (proc[p].at = "insert" /\ proc[q].at = "insert") => p = q

IInv ==
  /\ TypeOK
  /\ NumbersGapless
  /\ RowsInv
  /\ PaidWasIssued
  /\ OverdueWasAlerted
  /\ HeldInv
  /\ OneInsert

LEMMA InitIInv == Init => IInv
  <1> SUFFICES ASSUME Init PROVE IInv
    OBVIOUS
  <1>1. TypeOK
    BY InvoicesAssumption DEF Init, TypeOK, ProcState, Idle, NoInvoice, Rows
  <1>2. Existing = {}
    BY DEF Init, Existing, NoInvoice
  <1>3. NumbersGapless
    BY <1>2 DEF Init, NumbersGapless, Idle
  <1>4. RowsInv /\ PaidWasIssued /\ OverdueWasAlerted
    BY DEF Init, RowsInv, PaidWasIssued, OverdueWasAlerted, NoInvoice
  <1>5. HeldInv /\ OneInsert
    BY DEF Init, HeldInv, Held, OneInsert, Idle
  <1> QED
    BY <1>1, <1>3, <1>4, <1>5 DEF IInv

-----------------------------------------------------------------------------
(***************************************************************************)
(* What processes rely on only grows.                                      *)
(***************************************************************************)
Grows ==
  /\ invoice' \in [Ids -> Rows] /\ alerts' \in [Ids -> Nat] /\ now' \in Nat
  /\ now <= now'
  /\ \A i \in Existing :
       /\ i \in Existing'
       /\ invoice'[i].due = invoice[i].due
       /\ invoice[i].issued => invoice'[i].issued
       /\ invoice[i].paid => invoice'[i].paid
       /\ alerts[i] <= alerts'[i]

LEMMA HeldIsStable ==
  ASSUME TypeOK, Grows, NEW s \in ProcState, Held(s)
  PROVE  Held(s)'
  <1>1. Late \subseteq Late'
    BY DEF TypeOK, Grows, Late, Existing, Rows
  <1>2. s.at = "move" => Held(s)'
    BY DEF Held, Grows, MayMove, Existing, ProcState, Idle
  <1>3. s.at = "sweep" => Held(s)'
    BY <1>1 DEF Held
  <1>4. s.at = "announce" => Held(s)'
    <2> SUFFICES ASSUME s.at = "announce" PROVE Held(s)'
      OBVIOUS
    <2>1. s.id \in Existing /\ s.todo \subseteq Late
      BY DEF Held
    <2>2. s.id \in Existing' /\ s.todo \subseteq Late'
      BY <1>1, <2>1 DEF Grows
    <2>3. s.event = "issued" => invoice'[s.id].issued
      BY <2>1 DEF Held, Grows
    <2>4. s.event = "paid" => invoice'[s.id].paid
      BY <2>1 DEF Held, Grows
    <2>5. s.event = "overdue" => alerts'[s.id] >= 1
      BY <2>1 DEF Held, Grows, TypeOK, Existing
    <2> QED
      BY <2>2, <2>3, <2>4, <2>5 DEF Held
  <1>5. s.at \in {"idle", "insert"} => Held(s)'
    BY DEF Held
  <1> QED
    BY <1>2, <1>3, <1>4, <1>5 DEF ProcState, Idle

\* One process moves to state s; the others keep theirs.
LEMMA OthersHold ==
  ASSUME TypeOK, HeldInv, Grows, NEW p \in Procs, NEW s \in ProcState,
         proc' = [proc EXCEPT ![p] = s], Held(s)'
  PROVE  HeldInv'
  <1> SUFFICES ASSUME NEW q \in Procs PROVE Held(proc[q])'
    BY DEF HeldInv
  <1>1. CASE q = p
    BY <1>1 DEF TypeOK, Held
  <1>2. CASE q # p
    <2> PICK t \in ProcState : t = proc[q] /\ t = proc'[q]
      BY <1>2 DEF TypeOK
    <2>1. Held(t)
      BY DEF HeldInv, Held
    <2>2. Held(t)'
      BY <2>1, HeldIsStable
    <2> QED
      BY <2>2 DEF Held
  <1> QED
    BY <1>1, <1>2

\* A step of one process that writes no table.
LEMMA ReadingKeepsIInv ==
  ASSUME IInv, UNCHANGED <<invoice, counter, alerts, now>>,
         NEW p \in Procs, NEW s \in ProcState, proc' = [proc EXCEPT ![p] = s],
         s.at # "insert", Held(s)
  PROVE  IInv'
  <1>1. TypeOK'
    BY DEF IInv, TypeOK
  <1>2. Existing' = Existing
    BY DEF Existing
  <1>3. NumbersGapless'
    BY <1>2 DEF IInv, TypeOK, NumbersGapless
  <1>4. RowsInv' /\ PaidWasIssued' /\ OverdueWasAlerted'
    BY DEF IInv, RowsInv, PaidWasIssued, OverdueWasAlerted
  <1>5. Grows
    BY <1>2 DEF IInv, TypeOK, Grows, Existing
  <1>6. HeldInv'
    BY <1>5, OthersHold, HeldIsStable DEF IInv
  <1>7. OneInsert'
    BY DEF IInv, TypeOK, OneInsert
  <1> QED
    BY <1>1, <1>3, <1>4, <1>6, <1>7 DEF IInv

-----------------------------------------------------------------------------
(***************************************************************************)
(* One lemma per group of actions.                                         *)
(***************************************************************************)
LEMMA ResumeHolds ==
  ASSUME NEW todo \in SUBSET Ids, todo \subseteq Late
  PROVE  Resume(todo) \in ProcState /\ Resume(todo).at # "insert" /\ Held(Resume(todo))
  BY DEF Resume, Idle, Sweeping, ProcState, Held

LEMMA ReadersKeepIInv ==
  ASSUME IInv, NEW p \in Procs,
         \/ \E i \in Ids, to \in {"SENT", "PAID", "VOID"} : ReadForMove(p, i, to)
         \/ \E batch \in SUBSET Expired : StartSweep(p, batch)
         \/ \E i \in Ids : SkipFlip(p, i)
         \/ Emit(p)
         \/ Abort(p)
  PROVE  IInv'
  <1>1. ASSUME NEW i \in Ids, NEW to \in {"SENT", "PAID", "VOID"}, ReadForMove(p, i, to)
        PROVE  IInv'
    <2> DEFINE s == Moving(i, invoice[i].status, to)
    <2>1. s \in ProcState /\ s.at # "insert"
      BY <1>1 DEF ReadForMove, Moving, ProcState, IInv, TypeOK, Rows, Existing
    <2>2. Held(s)
      BY <1>1 DEF ReadForMove, Moving, Held, IInv, RowsInv
    <2>3. proc' = [proc EXCEPT ![p] = s] /\ UNCHANGED <<invoice, counter, alerts, now>>
      BY <1>1 DEF ReadForMove, Goto
    <2> HIDE DEF s
    <2> QED
      BY <2>1, <2>2, <2>3, ReadingKeepsIInv
  <1>2. ASSUME NEW batch \in SUBSET Expired, StartSweep(p, batch)
        PROVE  IInv'
    <2> DEFINE s == Sweeping(batch)
    <2>1. batch \subseteq Late /\ batch \in SUBSET Ids /\ batch # {}
      BY <1>2 DEF StartSweep, Expired, Late, Existing, IInv, RowsInv
    <2>2. s \in ProcState /\ s.at # "insert" /\ Held(s)
      BY <2>1 DEF Sweeping, ProcState, Held
    <2>3. proc' = [proc EXCEPT ![p] = s] /\ UNCHANGED <<invoice, counter, alerts, now>>
      BY <1>2 DEF StartSweep, Goto
    <2> HIDE DEF s
    <2> QED
      BY <2>2, <2>3, ReadingKeepsIInv
  <1>3. ASSUME NEW todo \in SUBSET Ids, todo \subseteq Late, Goto(p, Resume(todo)),
               UNCHANGED <<invoice, counter, alerts, now>>
        PROVE  IInv'
    BY <1>3, ResumeHolds, ReadingKeepsIInv DEF Goto
  <1>4. ASSUME NEW i \in Ids, SkipFlip(p, i)
        PROVE  IInv'
    <2>1. proc[p].todo \in SUBSET Ids /\ proc[p].todo \subseteq Late
      BY <1>4 DEF SkipFlip, NextInSweep, IInv, HeldInv, Held, Late, Existing
    <2> QED
      BY <1>3, <1>4, <2>1 DEF SkipFlip, AfterLostFlip
  <1>5. CASE Emit(p)
    <2>1. proc[p].todo \in SUBSET Ids /\ proc[p].todo \subseteq Late
      BY <1>5 DEF Emit, IInv, HeldInv, Held, Late, Existing
    <2> QED
      BY <1>3, <1>5, <2>1 DEF Emit
  <1>6. CASE Abort(p)
    <2>1. Idle \in ProcState /\ Idle.at # "insert" /\ Held(Idle)
      BY DEF Idle, ProcState, Held
    <2>2. proc' = [proc EXCEPT ![p] = Idle] /\ UNCHANGED <<invoice, counter, alerts, now>>
      BY <1>6 DEF Abort, Goto
    <2> QED
      BY <2>1, <2>2, ReadingKeepsIInv
  <1> QED
    BY <1>1, <1>2, <1>4, <1>5, <1>6

\* The row lock: nobody else is inserting, so counter + 1 is free.
LEMMA BeginInsertKeepsIInv ==
  ASSUME IInv, NEW p \in Procs, NEW status \in {"DRAFT", "SENT"}, NEW due \in DueDates,
         BeginInsert(p, status, due)
  PROVE  IInv'
  <1>0. Inserting(counter + 1, status, due) \in ProcState
    <2>1. due \in Nat /\ counter + 1 \in Nat
      BY InvoicesAssumption DEF IInv, TypeOK
    <2> QED
      BY <2>1 DEF Inserting, ProcState
  <1> PICK s \in ProcState : s = Inserting(counter + 1, status, due)
    BY <1>0
  <1>1. s.at = "insert" /\ s.number = counter + 1
    BY DEF Inserting
  <1>2. proc' = [proc EXCEPT ![p] = s] /\ UNCHANGED <<invoice, counter, alerts, now>>
    BY DEF BeginInsert, Goto
  <1>3. \A q \in Procs : proc[q].at # "insert"
    BY DEF BeginInsert, CounterUnlocked
  <1>4. Held(s)'
    BY <1>1 DEF Held
  <1>5. TypeOK'
    BY <1>1, <1>2 DEF IInv, TypeOK
  <1>6. Existing' = Existing
    BY <1>2 DEF Existing
  <1>7. NumbersGapless'
    BY <1>1, <1>2, <1>3, <1>6 DEF IInv, TypeOK, NumbersGapless
  <1>8. RowsInv' /\ PaidWasIssued' /\ OverdueWasAlerted'
    BY <1>2 DEF IInv, RowsInv, PaidWasIssued, OverdueWasAlerted
  <1>9. HeldInv'
    <2>1. Grows
      BY <1>2, <1>6 DEF IInv, TypeOK, Grows, Existing
    <2> QED
      BY <1>1, <1>2, <1>4, <2>1, OthersHold DEF IInv
  <1>10. OneInsert'
    BY <1>2, <1>3 DEF IInv, TypeOK, OneInsert
  <1> QED
    BY <1>5, <1>7, <1>8, <1>9, <1>10 DEF IInv

\* Writing a table: one process goes on to announce the invoice it has written.
LEMMA CommitInsertKeepsIInv ==
  ASSUME IInv, NEW p \in Procs, NEW i \in Ids, CommitInsert(p, i)
  PROVE  IInv'
  <1> DEFINE n == proc[p].number
             row == Invoice(n, proc[p].status, proc[p].due)
  <1>1. /\ proc[p] \in [at : {"insert"}, number : Nat, status : {"DRAFT", "SENT"}, due : Nat]
        /\ n = counter + 1
    BY DEF CommitInsert, IInv, TypeOK, ProcState, Idle, NumbersGapless
  <1>2. row \in Rows /\ row.status # "ABSENT" /\ row.number = n /\ row.due = proc[p].due
    BY <1>1 DEF Invoice, Rows, Statuses
  <1>3. /\ invoice' = [invoice EXCEPT ![i] = row]
        /\ counter' = n /\ i \notin Existing
        /\ UNCHANGED <<alerts, now>>
    BY DEF CommitInsert
  <1>4. Existing' = Existing \cup {i}
    BY <1>2, <1>3 DEF Existing, IInv, TypeOK
  <1> PICK s \in ProcState : s = Announcing(i, "created", {})
    BY DEF Announcing, ProcState, Events
  <1>5. proc' = [proc EXCEPT ![p] = s] /\ s.at = "announce"
    BY DEF CommitInsert, Goto, Announcing
  <1>6. TypeOK'
    BY <1>1, <1>2, <1>3, <1>5 DEF IInv, TypeOK
  <1>7. NumbersGapless'
    <2>1. \A k \in Existing : invoice'[k].number = invoice[k].number
      BY <1>3 DEF Existing
    <2>2. invoice'[i].number = counter + 1 /\ counter' = counter + 1 /\ counter \in Nat
      BY <1>1, <1>2, <1>3 DEF IInv, TypeOK
    <2>3. \A k \in Existing : invoice[k].number \in 1..counter
      BY DEF IInv, NumbersGapless
    <2>4. {invoice'[k].number : k \in Existing'} = 1..counter'
      BY <1>4, <2>1, <2>2, <2>3 DEF IInv, NumbersGapless
    <2>5. \A j, k \in Existing' : invoice'[j].number = invoice'[k].number => j = k
      BY <1>4, <2>1, <2>2, <2>3 DEF IInv, NumbersGapless
    <2>6. \A q \in Procs : proc'[q].at # "insert"
      BY <1>1, <1>5 DEF IInv, TypeOK, OneInsert
    <2> QED
      BY <2>4, <2>5, <2>6 DEF NumbersGapless
  <1>8. row.status \in {"DRAFT", "SENT"} /\ ~row.paid /\ (row.status = "SENT" => row.issued)
    BY <1>1 DEF Invoice
  <1>9. alerts[i] = 0
    BY <1>3 DEF IInv, OverdueWasAlerted, RowsInv, Existing, TypeOK
  <1>10. RowsInv' /\ PaidWasIssued' /\ OverdueWasAlerted'
    BY <1>3, <1>8, <1>9 DEF IInv, TypeOK, RowsInv, PaidWasIssued, OverdueWasAlerted
  <1>11. HeldInv'
    <2>1. Grows
      BY <1>3, <1>4, <1>6 DEF IInv, TypeOK, Grows, Existing
    <2>2. Held(s)'
      BY <1>4, <1>5 DEF Held, Announcing
    <2> QED
      BY <1>5, <2>1, <2>2, OthersHold DEF IInv
  <1>12. OneInsert'
    BY <1>5 DEF IInv, TypeOK, OneInsert
  <1> QED
    BY <1>6, <1>7, <1>10, <1>11, <1>12 DEF IInv

\* The unguarded update: what the process read is enough, although the row may
\* have moved on.
LEMMA MoveKeepsIInv ==
  ASSUME IInv, NEW p \in Procs, Move(p)
  PROVE  IInv'
  <1> DEFINE i == proc[p].id
             to == proc[p].to
  <1>1. /\ i \in Existing /\ i \in Ids /\ to \in {"SENT", "PAID", "VOID"}
        /\ to = "PAID" => invoice[i].issued
    BY DEF Move, IInv, HeldInv, Held, MayMove, TRANSITIONS, TypeOK, ProcState, Idle, Existing
  <1>2. invoice' = [invoice EXCEPT ![i] = Moved(invoice[i], to)] /\ UNCHANGED <<counter, alerts, now>>
    BY DEF Move
  <1>3. /\ invoice'[i].status = to
        /\ invoice'[i].number = invoice[i].number
        /\ invoice'[i].due = invoice[i].due
        /\ invoice'[i].issued = (invoice[i].issued \/ to = "SENT")
        /\ invoice'[i].paid = (invoice[i].paid \/ to = "PAID")
        /\ invoice'[i] \in Rows
    BY <1>1, <1>2 DEF Moved, IInv, TypeOK, Rows, Statuses
  <1>4. \A k \in Ids \ {i} : invoice'[k] = invoice[k]
    BY <1>2 DEF IInv, TypeOK
  <1>5. Existing' = Existing
    BY <1>1, <1>3, <1>4 DEF Existing
  <1> PICK s \in ProcState : s = Announcing(i, EventOf(to), {})
    BY <1>1 DEF Announcing, ProcState, Events, EventOf
  <1>6. proc' = [proc EXCEPT ![p] = s] /\ s.at = "announce"
    BY DEF Move, Goto, Announcing
  <1>7. TypeOK'
    BY <1>2, <1>3, <1>4, <1>6 DEF IInv, TypeOK
  <1>8. NumbersGapless'
    BY <1>2, <1>3, <1>4, <1>5, <1>6 DEF IInv, TypeOK, NumbersGapless, Existing
  <1>9. RowsInv'
    BY <1>1, <1>3, <1>4 DEF IInv, RowsInv
  <1>10. PaidWasIssued'
    BY <1>1, <1>3, <1>4 DEF IInv, PaidWasIssued
  <1>11. OverdueWasAlerted'
    BY <1>1, <1>2, <1>3, <1>4 DEF IInv, OverdueWasAlerted
  <1>12. HeldInv'
    <2>1. Grows
      <3>1. ASSUME NEW k \in Existing
            PROVE  /\ k \in Existing'
                   /\ invoice'[k].due = invoice[k].due
                   /\ invoice[k].issued => invoice'[k].issued
                   /\ invoice[k].paid => invoice'[k].paid
        BY <1>3, <1>4, <1>5, <3>1 DEF Existing
      <3>2. /\ invoice' \in [Ids -> Rows] /\ alerts' \in [Ids -> Nat] /\ now' \in Nat
            /\ now <= now' /\ \A k \in Existing : alerts[k] <= alerts'[k]
        BY <1>2, <1>7 DEF IInv, TypeOK, Existing
      <3> QED
        BY <3>1, <3>2 DEF Grows
    <2>2. Held(s)'
      BY <1>1, <1>3, <1>5 DEF Held, Announcing, EventOf
    <2> QED
      BY <1>6, <2>1, <2>2, OthersHold DEF IInv
  <1>13. OneInsert'
    BY <1>6 DEF IInv, TypeOK, OneInsert
  <1> QED
    BY <1>7, <1>8, <1>9, <1>10, <1>11, <1>12, <1>13 DEF IInv

\* The guarded flip and its notifications, in one transaction.
LEMMA FlipKeepsIInv ==
  ASSUME IInv, NEW p \in Procs, NEW i \in Ids, Flip(p, i)
  PROVE  IInv'
  <1> DEFINE todo == proc[p].todo \ {i}
  <1>1. /\ i \in Late /\ i \in Existing /\ invoice[i].status = "SENT"
        /\ proc[p].todo \in SUBSET Ids /\ proc[p].todo \subseteq Late
    BY DEF Flip, NextInSweep, StillSent, IInv, HeldInv, Held, Late, Existing
  <1>2. /\ invoice' = [invoice EXCEPT ![i].status = "OVERDUE"]
        /\ alerts' = [alerts EXCEPT ![i] = @ + 1]
        /\ UNCHANGED <<counter, now>>
    BY DEF Flip, Notified
  <1>3. /\ invoice'[i].status = "OVERDUE"
        /\ invoice'[i].number = invoice[i].number
        /\ invoice'[i].due = invoice[i].due
        /\ invoice'[i].issued = invoice[i].issued
        /\ invoice'[i].paid = invoice[i].paid
        /\ invoice'[i] \in Rows
        /\ \A k \in Ids \ {i} : invoice'[k] = invoice[k]
    BY <1>2 DEF IInv, TypeOK, Rows, Statuses
  <1>4. /\ alerts'[i] = alerts[i] + 1
        /\ \A k \in Ids \ {i} : alerts'[k] = alerts[k]
        /\ \A k \in Ids : alerts[k] \in Nat /\ alerts'[k] \in Nat
    BY <1>2 DEF IInv, TypeOK
  <1>5. Existing' = Existing
    BY <1>1, <1>3 DEF Existing
  <1>6. Announcing(i, "overdue", todo) \in ProcState
    BY <1>1 DEF Announcing, ProcState, Events
  <1> PICK s \in ProcState : s = Announcing(i, "overdue", todo)
    BY <1>6
  <1>7. proc' = [proc EXCEPT ![p] = s] /\ s.at = "announce"
    BY DEF Flip, Goto, Announcing
  <1>8. TypeOK'
    BY <1>2, <1>3, <1>4, <1>7 DEF IInv, TypeOK
  <1>9. NumbersGapless'
    BY <1>2, <1>3, <1>5, <1>7 DEF IInv, TypeOK, NumbersGapless, Existing
  <1>10. RowsInv' /\ PaidWasIssued'
    BY <1>1, <1>3 DEF IInv, RowsInv, PaidWasIssued
  <1>11. OverdueWasAlerted'
    BY <1>1, <1>2, <1>3, <1>4 DEF IInv, OverdueWasAlerted, Late
  <1>12. HeldInv'
    <2>1. Grows
      BY <1>2, <1>3, <1>4, <1>5, <1>8 DEF IInv, TypeOK, Grows, Existing
    <2>2. Late \subseteq Late'
      BY <1>2, <1>3, <1>5 DEF Late, Existing
    <2>3. Held(s)'
      BY <1>1, <1>4, <1>5, <2>2 DEF Held, Announcing
    <2> QED
      BY <1>7, <2>1, <2>3, OthersHold DEF IInv
  <1>13. OneInsert'
    BY <1>7 DEF IInv, TypeOK, OneInsert
  <1> QED
    BY <1>8, <1>9, <1>10, <1>11, <1>12, <1>13 DEF IInv

\* Late invoices stay late.
LEMMA TickKeepsIInv ==
  ASSUME IInv, Tick
  PROVE  IInv'
  <1>1. now' = now + 1 /\ now' \in 0..MaxTime /\ UNCHANGED <<invoice, counter, alerts, proc>>
    BY InvoicesAssumption DEF Tick, IInv, TypeOK
  <1>2. TypeOK' /\ Existing' = Existing
    BY <1>1 DEF IInv, TypeOK, Existing
  <1>3. NumbersGapless' /\ OneInsert'
    BY <1>1, <1>2 DEF IInv, NumbersGapless, OneInsert
  <1>4. RowsInv' /\ PaidWasIssued' /\ OverdueWasAlerted'
    BY <1>1 DEF IInv, TypeOK, Rows, RowsInv, PaidWasIssued, OverdueWasAlerted
  <1>5. Grows
    BY <1>1, <1>2 DEF IInv, TypeOK, Grows, Existing
  <1>6. HeldInv'
    <2> SUFFICES ASSUME NEW q \in Procs PROVE Held(proc[q])'
      BY DEF HeldInv
    <2> PICK t \in ProcState : t = proc[q] /\ t = proc'[q]
      BY <1>1 DEF IInv, TypeOK
    <2>1. Held(t)
      BY DEF IInv, HeldInv, Held
    <2>2. Held(t)'
      BY <1>5, <2>1, HeldIsStable DEF IInv
    <2> QED
      BY <2>2 DEF Held
  <1> QED
    BY <1>2, <1>3, <1>4, <1>6 DEF IInv

LEMMA NextKeepsIInv == IInv /\ [Next]_vars => IInv'
  <1> SUFFICES ASSUME IInv, [Next]_vars PROVE IInv'
    OBVIOUS
  <1>1. CASE Tick
    BY <1>1, TickKeepsIInv
  <1>2. ASSUME NEW p \in Procs, Create(p) PROVE IInv'
    BY <1>2, BeginInsertKeepsIInv, CommitInsertKeepsIInv DEF Create
  <1>3. ASSUME NEW p \in Procs, Transition(p) PROVE IInv'
    BY <1>3, ReadersKeepIInv, MoveKeepsIInv DEF Transition
  <1>4. ASSUME NEW p \in Procs, Sweep(p) PROVE IInv'
    BY <1>4, ReadersKeepIInv, FlipKeepsIInv DEF Sweep
  <1>5. ASSUME NEW p \in Procs, Emit(p) \/ Abort(p) PROVE IInv'
    BY <1>5, ReadersKeepIInv
  <1>6. CASE UNCHANGED vars
    <2>1. UNCHANGED <<invoice, counter, alerts, now, proc>>
      BY <1>6 DEF vars
    <2>2. TypeOK' /\ NumbersGapless' /\ RowsInv' /\ PaidWasIssued' /\ OverdueWasAlerted'
      BY <2>1 DEF IInv, TypeOK, NumbersGapless, Existing, RowsInv, PaidWasIssued,
                  OverdueWasAlerted
    <2>3. HeldInv' /\ OneInsert'
      BY <2>1 DEF IInv, HeldInv, Held, Late, Existing, OneInsert
    <2> QED
      BY <2>2, <2>3 DEF IInv
  <1> QED
    BY <1>1, <1>2, <1>3, <1>4, <1>5, <1>6 DEF Next, Step

LEMMA SpecIInv == Spec => []IInv
  BY InitIInv, NextKeepsIInv, PTL DEF Spec

-----------------------------------------------------------------------------
\* Every reachable state of the invoices, their counter and the processes that
\* work on them is well-formed.
THEOREM InvoicesTypeCorrect == Spec => []TypeOK
  <1>1. IInv => TypeOK
    BY DEF IInv
  <1> QED
    BY <1>1, SpecIInv, PTL

\* Invoice numbers are 1, 2, 3, ... without gap or duplicate, whatever creations
\* race, fail or die (invoice.service.ts:269-287).
THEOREM NumberingIsGapless == Spec => []NumbersGapless
  <1>1. IInv => NumbersGapless
    BY DEF IInv
  <1> QED
    BY <1>1, SpecIInv, PTL

\* No race of requests pays an invoice that was never issued.
THEOREM PaymentsFollowIssue == Spec => []PaidWasIssued
  <1>1. IInv => PaidWasIssued
    BY DEF IInv
  <1> QED
    BY <1>1, SpecIInv, PTL

\* The OVERDUE flag and its notifications never come apart
\* (invoice.overdue.worker.ts:105-130).
THEOREM OverdueImpliesAlerted == Spec => []OverdueWasAlerted
  <1>1. IInv => OverdueWasAlerted
    BY DEF IInv
  <1> QED
    BY <1>1, SpecIInv, PTL

\* Only what has happened is announced.
THEOREM AnnouncementsAreTrue == Spec => []AnnouncedHappened
  <1>1. IInv => AnnouncedHappened
    BY DEF IInv, HeldInv, Held, AnnouncedHappened
  <1> QED
    BY <1>1, SpecIInv, PTL

\* A move off the state machine is always a write over a status that has changed
\* since it was checked (invoice.service.ts:225-249).
THEOREM IllegalMovesAreStale == Spec => IllegalMoveIsStale
  <1>1. ASSUME IInv, [Next]_vars, NEW i \in Ids
        PROVE  \/ Legal(invoice[i].status, invoice[i].status')
               \/ \E p \in Procs :
                    /\ proc[p].at = "move" /\ proc[p].id = i
                    /\ proc[p].from # invoice[i].status
    <2>1. CASE invoice'[i].status = invoice[i].status
      BY <2>1 DEF Legal
    <2>2. ASSUME NEW p \in Procs, NEW k \in Ids, CommitInsert(p, k)
          PROVE  invoice'[i].status = invoice[i].status \/ invoice[i].status = "ABSENT"
      BY <1>1, <2>2 DEF CommitInsert, Existing, IInv, TypeOK
    <2>3. ASSUME NEW p \in Procs, NEW k \in Ids, Flip(p, k)
          PROVE  \/ invoice'[i].status = invoice[i].status
                 \/ <<invoice[i].status, invoice'[i].status>> \in TRANSITIONS
      BY <1>1, <2>3 DEF Flip, StillSent, TRANSITIONS, IInv, TypeOK, Rows
    <2>4. ASSUME NEW p \in Procs, Move(p), invoice'[i].status # invoice[i].status
          PROVE  /\ proc[p].at = "move" /\ proc[p].id = i
                 /\ \/ proc[p].from # invoice[i].status
                    \/ <<invoice[i].status, invoice'[i].status>> \in TRANSITIONS
      <3>1. proc[p].at = "move" /\ proc[p].id = i
        BY <1>1, <2>4 DEF Move, IInv, TypeOK
      <3>2. invoice'[i].status = proc[p].to /\ <<proc[p].from, proc[p].to>> \in TRANSITIONS
        <4>1. /\ invoice[i] \in Rows
              /\ invoice' = [invoice EXCEPT ![i] = Moved(invoice[i], proc[p].to)]
          BY <1>1, <2>4, <3>1 DEF Move, IInv, TypeOK
        <4>2. invoice'[i].status = proc[p].to
          BY <1>1, <4>1 DEF Moved, Rows, IInv, TypeOK
        <4>3. Held(proc[p])
          BY <1>1 DEF IInv, HeldInv
        <4>4. MayMove(proc[p].from, proc[p].to)
          BY <3>1, <4>3 DEF Held
        <4> QED
          BY <4>2, <4>4 DEF MayMove
      <3> QED
        BY <3>1, <3>2
    <2>5. ASSUME invoice'[i].status # invoice[i].status
          PROVE  \/ \E p \in Procs, k \in Ids : CommitInsert(p, k) \/ Flip(p, k)
                 \/ \E p \in Procs : Move(p)
      <3>1. ~(Tick \/ UNCHANGED vars)
        BY <2>5 DEF Tick, vars
      <3> PICK p \in Procs : Step(p)
        BY <1>1, <3>1 DEF Next
      <3>2. ~(Emit(p) \/ Abort(p))
        BY <2>5 DEF Emit, Abort
      <3>3. CASE Create(p)
        BY <2>5, <3>3 DEF Create, BeginInsert
      <3>4. CASE Transition(p)
        BY <2>5, <3>4 DEF Transition, ReadForMove
      <3>5. CASE Sweep(p)
        BY <2>5, <3>5 DEF Sweep, StartSweep, SkipFlip
      <3> QED
        BY <3>2, <3>3, <3>4, <3>5 DEF Step
    <2> QED
      BY <2>1, <2>2, <2>3, <2>4, <2>5 DEF Legal
  <1>2. IInv /\ [Next]_vars =>
          [\A i \in Ids :
             \/ Legal(invoice[i].status, invoice[i].status')
             \/ \E p \in Procs :
                  /\ proc[p].at = "move" /\ proc[p].id = i
                  /\ proc[p].from # invoice[i].status]_vars
    BY <1>1
  <1> QED
    BY <1>2, SpecIInv, PTL DEF Spec, IllegalMoveIsStale

-----------------------------------------------------------------------------
(***************************************************************************)
(* Billing by schedule.                                                    *)
(***************************************************************************)

ScheduleRow ==
  [state : {"kept", "absent", "removed"}, active : BOOLEAN, next : Nat,
   last : Nat \cup {NEVER}, count : Nat]

\* What a run or a toggle in state r has read: the schedules of a run were due
\* when it began.
Reading(r) ==
  \/ r = NoRun
  \/ \E due \in SUBSET Due, time \in 0..MaxTime :
       /\ \A d \in due : d.next <= time
       /\ \/ r = Loop(due, time)
          \/ \E d \in Due : d.next <= time /\ r = Billing(d, due, time)
  \/ \E s \in Schedules, active \in BOOLEAN, next \in Nat : r = Toggle(s, active, next)

\* Row r was billed once for each period between its start and its next run.
\* NeverOverbilled follows; it is not inductive without the bound on next,
\* which the next bill turns into the one on last.
OnTime(r, period) ==
  r.count > 0 =>
    /\ r.last \in Nat
    /\ (r.count - 1) * period <= r.last
    /\ r.count * period <= r.next

ScheduleInv ==
  /\ now \in 0..MaxTime
  /\ schedule \in [Schedules -> ScheduleRow]
  /\ run = [p \in Procs |-> run[p]]
  /\ \A p \in Procs : Reading(run[p])
  /\ \A s \in Schedules : s \notin stale => OnTime(schedule[s], Period[s])

-----------------------------------------------------------------------------
(* advancePastNow moves by at least one period. *)

LEMMA PeriodsAddUp ==
  ASSUME NEW n \in Nat, NEW period \in Nat \ {0}
  PROVE  /\ (n + 1) * period = n * period + period
         /\ n * period \in Nat
  OBVIOUS

\* Some number of a set of numbers is the least.
LEMMA LeastExists ==
  ASSUME NEW T, T \subseteq Nat, T # {}
  PROVE  \E t \in T : \A u \in T : t <= u
<1>1. PICK t \in T : \A u \in T : ~(<<u, t>> \in OpToRel(<, Nat))
  BY NatLessThanWellFounded, WFMin
<1>2. ASSUME NEW u \in T PROVE t <= u
  <2>1. ~(u < t)
    BY <1>1 DEF OpToRel
  <2> QED
    BY <2>1
<1> QED
  BY <1>2

LEMMA AdvanceIsOnePeriodAtLeast ==
  ASSUME NEW s \in Schedules, NEW from \in Nat, NEW time \in Nat
  PROVE  /\ AdvancePastNow(s, from, time) \in Nat
         /\ AdvancePastNow(s, from, time) >= from + Period[s]
<1> DEFINE enough == {k \in 1..(CatchUp + 1) : from + k * Period[s] > time}
           dates == {from + k * Period[s] : k \in enough}
<1>1. Period[s] \in Nat \ {0} /\ CatchUp \in Nat
  BY RecurringAssumption
<1>2. ASSUME NEW k \in 1..(CatchUp + 1)
      PROVE  from + k * Period[s] \in Nat /\ from + k * Period[s] >= from + Period[s]
  <2>1. k - 1 \in Nat /\ (k - 1) + 1 = k
    BY <1>1
  <2>2. k * Period[s] = (k - 1) * Period[s] + Period[s] /\ (k - 1) * Period[s] \in Nat
    BY <1>1, <2>1, PeriodsAddUp
  <2> QED
    BY <1>1, <2>2
<1>3. CASE enough = {}
  <2>1. AdvancePastNow(s, from, time) = from + (CatchUp + 1) * Period[s]
    BY <1>3 DEF AdvancePastNow
  <2> QED
    BY <1>1, <1>2, <2>1
<1>4. CASE enough # {}
  <2>1. dates \subseteq Nat /\ dates # {}
    BY <1>2, <1>4
  <2>2. \E t \in dates : \A u \in dates : t <= u
    BY <2>1, LeastExists
  <2>3. \E t \in dates : \A k \in enough : t <= from + k * Period[s]
    BY <2>2
  <2>4. AdvancePastNow(s, from, time) =
          CHOOSE t \in dates : \A k \in enough : t <= from + k * Period[s]
    BY <1>4 DEF AdvancePastNow
  <2>5. AdvancePastNow(s, from, time) \in dates
    BY <2>3, <2>4
  <2> QED
    BY <1>2, <2>5
<1> QED
  BY <1>3, <1>4

-----------------------------------------------------------------------------
(* What the actions do to schedules and runs. *)

LEMMA RunMoves ==
  ASSUME ScheduleInv, NEW p \in Procs, NEW r, Reading(r), GotoRun(p, r)
  PROVE  run' = [q \in Procs |-> run'[q]] /\ \A q \in Procs : Reading(run'[q])
BY DEF ScheduleInv, GotoRun

LEMMA RunsStay ==
  ASSUME ScheduleInv, UNCHANGED run
  PROVE  run' = [q \in Procs |-> run'[q]] /\ \A q \in Procs : Reading(run'[q])
BY DEF ScheduleInv

LEMMA SchedulesStay ==
  ASSUME ScheduleInv, UNCHANGED <<schedule, stale>>
  PROVE  /\ schedule' \in [Schedules -> ScheduleRow]
         /\ \A s \in Schedules : s \notin stale' => OnTime(schedule'[s], Period[s])
BY DEF ScheduleInv

\* One row is written and stays on time, or is marked stale.
LEMMA ScheduleMoves ==
  ASSUME ScheduleInv, NEW s \in Schedules, NEW r \in ScheduleRow,
         schedule' = [schedule EXCEPT ![s] = r],
         stale' \in {stale, stale \cup {s}},
         s \notin stale' => OnTime(r, Period[s])
  PROVE  /\ schedule' \in [Schedules -> ScheduleRow]
         /\ \A t \in Schedules : t \notin stale' => OnTime(schedule'[t], Period[t])
<1>1. schedule' \in [Schedules -> ScheduleRow]
  BY DEF ScheduleInv
<1>2. ASSUME NEW t \in Schedules, t \notin stale'
      PROVE  OnTime(schedule'[t], Period[t])
  <2>1. CASE t = s
    BY <1>2, <2>1 DEF ScheduleInv
  <2>2. CASE t # s
    <3>1. schedule'[t] = schedule[t] /\ t \notin stale
      BY <1>2, <2>2 DEF ScheduleInv
    <3> QED
      BY <3>1 DEF ScheduleInv
  <2> QED
    BY <2>1, <2>2
<1> QED
  BY <1>1, <1>2

LEMMA RunGoesOn ==
  ASSUME NEW due \in SUBSET Due, NEW time \in 0..MaxTime, \A d \in due : d.next <= time
  PROVE  Reading(Loop(due, time)) /\ Reading(Onward(due, time))
BY DEF Reading, Onward

\* What a process holds in the middle of a run or a toggle.
LEMMA BillHolds ==
  ASSUME NEW r, Reading(r), r.at = "bill"
  PROVE  /\ r.this \in Due /\ r.due \in SUBSET Due /\ r.time \in 0..MaxTime
         /\ r.this.next <= r.time
         /\ \A d \in r.due : d.next <= r.time
<1>1. PICK due \in SUBSET Due, time \in 0..MaxTime, this \in Due :
        /\ \A d \in due : d.next <= time
        /\ this.next <= time
        /\ r = Billing(this, due, time)
  <2>1. r # NoRun
    BY DEF NoRun
  <2>2. \A due, time : r # Loop(due, time)
    BY DEF Loop
  <2>3. \A s, active, next : r # Toggle(s, active, next)
    BY DEF Toggle
  <2> QED
    BY <2>1, <2>2, <2>3 DEF Reading
<1>2. r.this = this /\ r.due = due /\ r.time = time
  BY <1>1 DEF Billing
<1> QED
  BY <1>1, <1>2

LEMMA LoopHolds ==
  ASSUME NEW r, Reading(r), r.at = "loop"
  PROVE  /\ r.due \in SUBSET Due /\ r.time \in 0..MaxTime
         /\ \A d \in r.due : d.next <= r.time
<1>1. PICK due \in SUBSET Due, time \in 0..MaxTime :
        (\A d \in due : d.next <= time) /\ r = Loop(due, time)
  <2>1. r # NoRun
    BY DEF NoRun
  <2>2. \A d, due, time : r # Billing(d, due, time)
    BY DEF Billing
  <2>3. \A s, active, next : r # Toggle(s, active, next)
    BY DEF Toggle
  <2> QED
    BY <2>1, <2>2, <2>3 DEF Reading
<1>2. r.due = due /\ r.time = time
  BY <1>1 DEF Loop
<1> QED
  BY <1>1, <1>2

LEMMA ToggleHolds ==
  ASSUME NEW r, Reading(r), r.at = "toggle"
  PROVE  r.id \in Schedules /\ r.active \in BOOLEAN /\ r.next \in Nat
<1>1. PICK s \in Schedules, active \in BOOLEAN, next \in Nat : r = Toggle(s, active, next)
  <2>1. r # NoRun
    BY DEF NoRun
  <2>2. \A d, due, time : r # Billing(d, due, time) /\ r # Loop(due, time)
    BY DEF Billing, Loop
  <2> QED
    BY <2>1, <2>2 DEF Reading
<1>2. r.id = s /\ r.active = active /\ r.next = next
  BY <1>1 DEF Toggle
<1> QED
  BY <1>1, <1>2

\* Billing an on-time schedule that is due leaves it on time: the period that
\* ended with next is the one that now has its invoice.
LEMMA BilledOnTime ==
  ASSUME NEW s \in Schedules, NEW r \in ScheduleRow, OnTime(r, Period[s]),
         NEW time \in Nat, r.next <= time
  PROVE  LET b == Row(TRUE, AdvancePastNow(s, r.next, time), time, Counted(r.count))
         IN  OnTime(b, Period[s])
<1> DEFINE next == AdvancePastNow(s, r.next, time)
           b == Row(TRUE, next, time, Counted(r.count))
<1>1. r.next \in Nat /\ r.count \in Nat /\ Period[s] \in Nat \ {0}
  BY RecurringAssumption DEF ScheduleRow
<1>2. next \in Nat /\ next >= r.next + Period[s]
  BY <1>1, AdvanceIsOnePeriodAtLeast
<1>3. b.last = time /\ b.next = next /\ b.count = r.count + 1
  BY DEF Row, Counted
<1>4. (r.count + 1) * Period[s] = r.count * Period[s] + Period[s]
  BY <1>1, PeriodsAddUp
<1>5. r.count * Period[s] <= r.next
  <2>1. CASE r.count = 0
    <3>1. r.count * Period[s] = 0
      BY <1>1, <2>1
    <3> QED
      BY <1>1, <3>1
  <2>2. CASE r.count > 0
    BY <2>2 DEF OnTime
  <2> QED
    BY <1>1, <2>1, <2>2
<1>6. (b.count - 1) * Period[s] <= b.last
  <2>1. (r.count + 1) - 1 = r.count
    BY <1>1
  <2>2. r.count * Period[s] \in Nat
    BY <1>1, PeriodsAddUp
  <2>3. r.count * Period[s] <= time
    BY <1>1, <1>5, <2>2
  <2> QED
    BY <1>3, <2>1, <2>3
<1>7. b.count * Period[s] <= b.next
  <2>1. r.count * Period[s] \in Nat
    BY <1>1, PeriodsAddUp
  <2>2. (r.count + 1) * Period[s] <= next
    BY <1>1, <1>2, <1>4, <1>5, <2>1
  <2> QED
    BY <1>3, <2>2
<1> QED
  BY <1>3, <1>6, <1>7 DEF OnTime

-----------------------------------------------------------------------------
(* Every step keeps ScheduleInv. *)

LEMMA InvoiceStepsKeepTime ==
  ASSUME NEW p \in Procs, Step(p)
  PROVE  UNCHANGED now
BY DEF Step, Create, BeginInsert, CommitInsert, Transition, ReadForMove, Move, Sweep,
       StartSweep, Flip, SkipFlip, Emit, Abort

LEMMA InitScheduleInv == RecurringInit => ScheduleInv
<1> SUFFICES ASSUME RecurringInit PROVE ScheduleInv
  OBVIOUS
<1>1. now \in 0..MaxTime
  BY InvoicesAssumption DEF RecurringInit, Init
<1>2. Gone("absent") \in ScheduleRow /\ Gone("absent").count = 0
  BY DEF Gone, ScheduleRow
<1>3. schedule \in [Schedules -> ScheduleRow]
  BY <1>2 DEF RecurringInit
<1>4. \A s \in Schedules : OnTime(schedule[s], Period[s])
  BY <1>2 DEF RecurringInit, OnTime
<1>5. run = [p \in Procs |-> run[p]] /\ \A p \in Procs : Reading(run[p])
  BY DEF RecurringInit, Reading
<1> QED
  BY <1>1, <1>3, <1>4, <1>5 DEF ScheduleInv

LEMMA CreateScheduleKeepsScheduleInv ==
  ASSUME ScheduleInv, NEW s \in Schedules, NEW start \in Starts, CreateSchedule(s, start)
  PROVE  ScheduleInv'
<1> DEFINE r == Row(TRUE, start, NEVER, 0)
<1>1. r \in ScheduleRow /\ OnTime(r, Period[s])
  BY RecurringAssumption DEF Row, ScheduleRow, OnTime
<1>2. /\ schedule' \in [Schedules -> ScheduleRow]
      /\ \A t \in Schedules : t \notin stale' => OnTime(schedule'[t], Period[t])
  BY <1>1, ScheduleMoves DEF CreateSchedule
<1>3. UNCHANGED <<now, run>>
  BY DEF CreateSchedule, vars
<1> QED
  BY <1>2, <1>3, RunsStay DEF ScheduleInv

LEMMA RemoveKeepsScheduleInv ==
  ASSUME ScheduleInv, NEW s \in Schedules, Remove(s)
  PROVE  ScheduleInv'
<1> DEFINE r == Gone("removed")
<1>1. r \in ScheduleRow /\ OnTime(r, Period[s])
  BY DEF Gone, ScheduleRow, OnTime
<1>2. /\ schedule' \in [Schedules -> ScheduleRow]
      /\ \A t \in Schedules : t \notin stale' => OnTime(schedule'[t], Period[t])
  BY <1>1, ScheduleMoves DEF Remove
<1>3. UNCHANGED <<now, run>>
  BY DEF Remove, vars
<1> QED
  BY <1>2, <1>3, RunsStay DEF ScheduleInv

LEMMA ReadForToggleKeepsScheduleInv ==
  ASSUME ScheduleInv, NEW p \in Procs, NEW s \in Schedules, NEW active \in BOOLEAN,
         ReadForToggle(p, s, active)
  PROVE  ScheduleInv'
<1> DEFINE next == IF active /\ schedule[s].next < now THEN now ELSE schedule[s].next
<1>1. next \in Nat
  BY DEF ScheduleInv, ScheduleRow
<1>2. Reading(Toggle(s, active, next))
  BY <1>1, Zenon DEF Reading
<1>3. GotoRun(p, Toggle(s, active, next)) /\ UNCHANGED <<now, schedule, stale>>
  BY DEF ReadForToggle, vars
<1>4. run' = [q \in Procs |-> run'[q]] /\ \A q \in Procs : Reading(run'[q])
  BY <1>2, <1>3, RunMoves
<1> QED
  BY <1>3, <1>4, SchedulesStay DEF ScheduleInv

\* A toggle that puts the date back marks the schedule; one that does not keeps
\* the bound on next.
LEMMA WriteToggleKeepsScheduleInv ==
  ASSUME ScheduleInv, NEW p \in Procs, WriteToggle(p)
  PROVE  ScheduleInv'
<1> DEFINE s == run[p].id
           next == run[p].next
           old == schedule[s]
           r == [old EXCEPT !.active = run[p].active, !.next = next]
<1>1. s \in Schedules /\ run[p].active \in BOOLEAN /\ next \in Nat
  <2>1. Reading(run[p]) /\ run[p].at = "toggle"
    BY DEF ScheduleInv, WriteToggle
  <2> QED
    BY <2>1, ToggleHolds
<1>2. old \in ScheduleRow
  BY <1>1 DEF ScheduleInv
<1>3. /\ schedule' \in [Schedules -> ScheduleRow]
      /\ \A t \in Schedules : t \notin stale' => OnTime(schedule'[t], Period[t])
  <2>1. CASE ~Kept(s)
    <3>1. UNCHANGED <<schedule, stale>>
      BY <2>1 DEF WriteToggle
    <3> QED
      BY <3>1, SchedulesStay
  <2>2. CASE Kept(s)
    <3>1. /\ schedule' = [schedule EXCEPT ![s].active = run[p].active, ![s].next = next]
          /\ stale' = IF next < old.next THEN stale \cup {s} ELSE stale
      BY <2>2 DEF WriteToggle
    <3>2. schedule' = [schedule EXCEPT ![s] = r]
      BY <1>1, <3>1 DEF ScheduleInv
    <3>3. /\ r \in ScheduleRow /\ r.next = next /\ r.last = old.last /\ r.count = old.count
      BY <1>1, <1>2 DEF ScheduleRow
    <3>4. ASSUME s \notin stale'
          PROVE  OnTime(r, Period[s])
      <4>1. s \notin stale /\ old.next <= next
        BY <1>1, <1>2, <3>1, <3>4 DEF ScheduleRow
      <4>2. OnTime(old, Period[s])
        BY <1>1, <4>1 DEF ScheduleInv
      <4>3. old.count * Period[s] \in Nat /\ old.next \in Nat
        BY <1>1, <1>2, PeriodsAddUp, RecurringAssumption DEF ScheduleRow
      <4>4. old.count * Period[s] <= old.next => old.count * Period[s] <= next
        BY <1>1, <4>1, <4>3
      <4> QED
        BY <3>3, <4>2, <4>4 DEF OnTime
    <3>5. stale' \in {stale, stale \cup {s}}
      BY <3>1
    <3> QED
      BY <1>1, <3>2, <3>3, <3>4, <3>5, ScheduleMoves
  <2> QED
    BY <2>1, <2>2
<1>4. GotoRun(p, NoRun) /\ UNCHANGED now
  BY DEF WriteToggle, vars
<1>5. Reading(NoRun)
  BY DEF Reading
<1>6. run' = [q \in Procs |-> run'[q]] /\ \A q \in Procs : Reading(run'[q])
  BY <1>4, <1>5, RunMoves
<1> QED
  BY <1>3, <1>4, <1>6 DEF ScheduleInv

LEMMA StartRunKeepsScheduleInv ==
  ASSUME ScheduleInv, NEW p \in Procs, NEW batch \in SUBSET DueNow, StartRun(p, batch)
  PROVE  ScheduleInv'
<1> DEFINE due == {[id |-> s, next |-> schedule[s].next] : s \in batch}
<1>1. due \in SUBSET Due /\ \A d \in due : d.next <= now
  <2>1. ASSUME NEW s \in batch
        PROVE  /\ s \in Schedules /\ schedule[s].next <= now
               /\ [id |-> s, next |-> schedule[s].next] \in Due
    BY DEF DueNow, Due, ScheduleInv, ScheduleRow
  <2> QED
    BY <2>1
<1>2. now \in 0..MaxTime
  BY DEF ScheduleInv
<1>3. GotoRun(p, Loop(due, now)) /\ UNCHANGED <<now, schedule, stale>>
  BY DEF StartRun, vars
<1>4. run' = [q \in Procs |-> run'[q]] /\ \A q \in Procs : Reading(run'[q])
  BY <1>1, <1>2, <1>3, RunGoesOn, RunMoves
<1> QED
  BY <1>3, <1>4, SchedulesStay DEF ScheduleInv

LEMMA BeginBillKeepsScheduleInv ==
  ASSUME ScheduleInv, NEW p \in Procs, NEW d, d \in run[p].due, BeginBill(p, d)
  PROVE  ScheduleInv'
<1> DEFINE due == run[p].due
           time == run[p].time
<1>1. /\ due \in SUBSET Due /\ time \in 0..MaxTime
      /\ \A e \in due : e.next <= time
  <2>1. Reading(run[p]) /\ run[p].at = "loop"
    BY DEF ScheduleInv, BeginBill
  <2> QED
    BY <2>1, LoopHolds
<1>2. Reading(Billing(d, due \ {d}, time))
  <2>1. d \in Due /\ d.next <= time
    BY <1>1
  <2>2. due \ {d} \in SUBSET Due /\ \A e \in due \ {d} : e.next <= time
    BY <1>1
  <2> QED
    BY <1>1, <2>1, <2>2, Zenon DEF Reading
<1>3. GotoRun(p, Billing(d, due \ {d}, time)) /\ UNCHANGED <<now, schedule, stale>>
  BY DEF BeginBill, BeginInsert
<1>4. run' = [q \in Procs |-> run'[q]] /\ \A q \in Procs : Reading(run'[q])
  BY <1>2, <1>3, RunMoves
<1> QED
  BY <1>3, <1>4, SchedulesStay DEF ScheduleInv

\* The guard on the date that was read makes this the first bill of its period.
LEMMA CommitBillKeepsScheduleInv ==
  ASSUME ScheduleInv, NEW p \in Procs, NEW i \in Ids, CommitBill(p, i)
  PROVE  ScheduleInv'
<1> DEFINE d == run[p].this
           s == d.id
           old == schedule[s]
           time == run[p].time
           r == Row(TRUE, AdvancePastNow(s, d.next, time), time, Counted(old.count))
<1>1. d \in Due /\ time \in 0..MaxTime /\ d.next <= time
  <2>1. Reading(run[p]) /\ run[p].at = "bill"
    BY DEF ScheduleInv, CommitBill
  <2> QED
    BY <2>1, BillHolds
<1>2. s \in Schedules /\ d.next \in Nat /\ time \in Nat
  BY <1>1, InvoicesAssumption DEF Due
<1>3. old \in ScheduleRow /\ old.next = d.next
  BY <1>2 DEF ScheduleInv, CommitBill, Unmoved
<1>4. r \in ScheduleRow
  <2>1. AdvancePastNow(s, d.next, time) \in Nat
    BY <1>2, AdvanceIsOnePeriodAtLeast
  <2>2. Counted(old.count) \in Nat
    BY <1>3 DEF ScheduleRow, Counted
  <2> QED
    BY <1>2, <2>1, <2>2 DEF Row, ScheduleRow
<1>5. ASSUME s \notin stale
      PROVE  OnTime(r, Period[s])
  <2>1. OnTime(old, Period[s])
    BY <1>2, <1>5 DEF ScheduleInv
  <2> QED
    BY <1>1, <1>2, <1>3, <2>1, BilledOnTime
<1>6. schedule' = [schedule EXCEPT ![s] = r] /\ UNCHANGED <<now, run, stale>>
  BY <1>2 DEF CommitBill, CommitInsert, ScheduleInv
<1>7. /\ schedule' \in [Schedules -> ScheduleRow]
      /\ \A t \in Schedules : t \notin stale' => OnTime(schedule'[t], Period[t])
  BY <1>2, <1>4, <1>5, <1>6, ScheduleMoves
<1> QED
  BY <1>6, <1>7, RunsStay DEF ScheduleInv

\* RollBackBill and FinishBill: the run goes on with the rest of its batch.
LEMMA NextBillKeepsScheduleInv ==
  ASSUME ScheduleInv, NEW p \in Procs, RollBackBill(p) \/ FinishBill(p)
  PROVE  ScheduleInv'
<1>1. /\ run[p].due \in SUBSET Due /\ run[p].time \in 0..MaxTime
      /\ \A d \in run[p].due : d.next <= run[p].time
  <2>1. Reading(run[p]) /\ run[p].at = "bill"
    BY DEF ScheduleInv, RollBackBill, FinishBill
  <2> QED
    BY <2>1, BillHolds
<1>2. GotoRun(p, Onward(run[p].due, run[p].time)) /\ UNCHANGED <<now, schedule, stale>>
  BY DEF RollBackBill, RolledBack, Abort, FinishBill, Emit
<1>3. run' = [q \in Procs |-> run'[q]] /\ \A q \in Procs : Reading(run'[q])
  BY <1>1, <1>2, RunGoesOn, RunMoves
<1> QED
  BY <1>2, <1>3, SchedulesStay DEF ScheduleInv

LEMMA AbandonRunKeepsScheduleInv ==
  ASSUME ScheduleInv, NEW p \in Procs, AbandonRun(p)
  PROVE  ScheduleInv'
<1>1. GotoRun(p, NoRun) /\ UNCHANGED <<now, schedule, stale>>
  BY DEF AbandonRun, Abort, vars
<1>2. Reading(NoRun)
  BY DEF Reading
<1>3. run' = [q \in Procs |-> run'[q]] /\ \A q \in Procs : Reading(run'[q])
  BY <1>1, <1>2, RunMoves
<1> QED
  BY <1>1, <1>3, SchedulesStay DEF ScheduleInv

LEMMA RecurKeepsScheduleInv ==
  ASSUME ScheduleInv, NEW p \in Procs, Recur(p)
  PROVE  ScheduleInv'
BY ReadForToggleKeepsScheduleInv, WriteToggleKeepsScheduleInv, StartRunKeepsScheduleInv, BeginBillKeepsScheduleInv,
   CommitBillKeepsScheduleInv, NextBillKeepsScheduleInv, AbandonRunKeepsScheduleInv DEF Recur

LEMMA NextKeepsScheduleInv == ScheduleInv /\ [RecurringNext]_allVars => ScheduleInv'
<1> SUFFICES ASSUME ScheduleInv, [RecurringNext]_allVars PROVE ScheduleInv'
  OBVIOUS
<1>1. CASE \E s \in Schedules : Remove(s) \/ \E start \in Starts : CreateSchedule(s, start)
  BY <1>1, RemoveKeepsScheduleInv, CreateScheduleKeepsScheduleInv
<1>2. CASE \E p \in Procs : Recur(p)
  BY <1>2, RecurKeepsScheduleInv
<1>3. CASE \E p \in Procs : run[p] = NoRun /\ Step(p) /\ UNCHANGED recurringVars
  <2>1. UNCHANGED <<now, schedule, run, stale>>
    BY <1>3, InvoiceStepsKeepTime DEF recurringVars
  <2> QED
    BY <2>1, RunsStay, SchedulesStay DEF ScheduleInv
<1>4. CASE Tick /\ UNCHANGED recurringVars
  <2>1. now' \in 0..MaxTime /\ UNCHANGED <<schedule, run, stale>>
    BY <1>4, InvoicesAssumption DEF Tick, recurringVars, ScheduleInv
  <2> QED
    BY <2>1, RunsStay, SchedulesStay DEF ScheduleInv
<1>5. CASE UNCHANGED allVars
  <2>1. UNCHANGED <<now, schedule, run, stale>>
    BY <1>5 DEF allVars, vars, recurringVars
  <2> QED
    BY <2>1, RunsStay, SchedulesStay DEF ScheduleInv
<1> QED
  BY <1>1, <1>2, <1>3, <1>4, <1>5 DEF RecurringNext

-----------------------------------------------------------------------------
\* However many runs, pauses, resumes and deletions interleave, a schedule that no
\* toggle has put back has not been billed more often than its periods allow
\* (invoice.service.ts:150-160, the guard on the nextRunAt that was read).
THEOREM PeriodsAreBilledOnce == RecurringSpec => []NeverOverbilled
<1>1. ScheduleInv => NeverOverbilled
  BY DEF ScheduleInv, OnTime, NeverOverbilled
<1> QED
  BY <1>1, InitScheduleInv, NextKeepsScheduleInv, PTL DEF RecurringSpec

-----------------------------------------------------------------------------
(* Recurring implements Invoices. *)

\* Apart from the dates that requests may ask for, both speak of the same things.
LEMMA SameInvoices ==
  /\ Promised!vars = vars /\ (Promised!Init <=> Init) /\ (Promised!Tick <=> Tick)
  /\ \A p \in Procs :
       /\ Promised!Transition(p) <=> Transition(p)
       /\ Promised!Sweep(p) <=> Sweep(p)
       /\ Promised!Emit(p) <=> Emit(p)
       /\ Promised!Abort(p) <=> Abort(p)
       /\ \A i \in Ids : Promised!CommitInsert(p, i) <=> CommitInsert(p, i)
       /\ \A status, due : Promised!BeginInsert(p, status, due) <=> BeginInsert(p, status, due)
<1>1. /\ Promised!vars = vars /\ Promised!Idle = Idle /\ Promised!NoInvoice = NoInvoice
      /\ Promised!Existing = Existing /\ Promised!TRANSITIONS = TRANSITIONS
  BY DEF vars, Promised!vars, Idle, Promised!Idle, NoInvoice, Promised!NoInvoice,
         Existing, Promised!Existing, TRANSITIONS, Promised!TRANSITIONS
<1>2. (Promised!Init <=> Init) /\ (Promised!Tick <=> Tick)
  BY <1>1 DEF Init, Promised!Init, Tick, Promised!Tick
<1>3. /\ \A i, from, to : Promised!Moving(i, from, to) = Moving(i, from, to)
      /\ \A n, status, due : Promised!Inserting(n, status, due) = Inserting(n, status, due)
      /\ \A n, status, due : Promised!Invoice(n, status, due) = Invoice(n, status, due)
      /\ \A todo : Promised!Sweeping(todo) = Sweeping(todo)
      /\ \A todo : Promised!Resume(todo) = Resume(todo)
      /\ \A i, event, todo : Promised!Announcing(i, event, todo) = Announcing(i, event, todo)
      /\ \A to : Promised!EventOf(to) = EventOf(to)
      /\ \A r, to : Promised!Moved(r, to) = Moved(r, to)
      /\ \A S, T : Promised!OldestOf(S, T) <=> OldestOf(S, T)
  BY <1>1 DEF Moving, Promised!Moving, Inserting, Promised!Inserting, Invoice, Promised!Invoice,
         Sweeping, Promised!Sweeping, Resume, Promised!Resume, Announcing, Promised!Announcing,
         EventOf, Promised!EventOf, Moved, Promised!Moved, OldestOf, Promised!OldestOf
<1>4. Promised!Expired = Expired /\ (Promised!CounterUnlocked <=> CounterUnlocked)
  BY <1>1 DEF Expired, Promised!Expired, CounterUnlocked, Promised!CounterUnlocked
<1>5. ASSUME NEW p \in Procs
      PROVE  /\ Promised!Transition(p) <=> Transition(p)
             /\ Promised!Emit(p) <=> Emit(p)
             /\ Promised!Abort(p) <=> Abort(p)
  <2>1. \A s : Promised!Goto(p, s) <=> Goto(p, s)
    BY DEF Goto, Promised!Goto
  <2>2. \A i, to : Promised!ReadForMove(p, i, to) <=> ReadForMove(p, i, to)
    <3>1. \A from, to : Promised!MayMove(from, to) <=> MayMove(from, to)
      BY <1>1 DEF MayMove, Promised!MayMove
    <3> QED
      BY <1>1, <1>3, <2>1, <3>1 DEF ReadForMove, Promised!ReadForMove
  <2>3. Promised!Move(p) <=> Move(p)
    BY <1>3, <2>1 DEF Move, Promised!Move
  <2> QED
    BY <1>1, <1>3, <2>1, <2>2, <2>3 DEF Transition, Promised!Transition, Emit, Promised!Emit,
           Abort, Promised!Abort
<1>6. ASSUME NEW p \in Procs
      PROVE  Promised!Sweep(p) <=> Sweep(p)
  <2>1. \A s : Promised!Goto(p, s) <=> Goto(p, s)
    BY DEF Goto, Promised!Goto
  <2>2. \A batch : Promised!StartSweep(p, batch) <=> StartSweep(p, batch)
    <3>1. \A S : Promised!Cardinality(S) = Cardinality(S)
      BY DEF Cardinality, Promised!Cardinality
    <3> QED
      BY <1>1, <1>3, <1>4, <2>1, <3>1
         DEF StartSweep, Promised!StartSweep, OldestOf, Promised!OldestOf
  <2>3. \A i : Promised!NextInSweep(p, i) <=> NextInSweep(p, i)
    BY <1>3 DEF NextInSweep, Promised!NextInSweep
  <2>4. \A i : Promised!Flip(p, i) <=> Flip(p, i)
    BY <1>3, <2>1, <2>3 DEF Flip, Promised!Flip, StillSent, Promised!StillSent,
           Notified, Promised!Notified
  <2>5. \A i : Promised!SkipFlip(p, i) <=> SkipFlip(p, i)
    BY <1>3, <2>1, <2>3 DEF SkipFlip, Promised!SkipFlip, AfterLostFlip, Promised!AfterLostFlip
  <2> QED
    BY <1>4, <2>2, <2>4, <2>5 DEF Sweep, Promised!Sweep
<1>7. ASSUME NEW p \in Procs
      PROVE  /\ \A i \in Ids : Promised!CommitInsert(p, i) <=> CommitInsert(p, i)
             /\ \A status, due : Promised!BeginInsert(p, status, due) <=> BeginInsert(p, status, due)
  <2>1. \A s : Promised!Goto(p, s) <=> Goto(p, s)
    BY DEF Goto, Promised!Goto
  <2>2. \A i \in Ids : Promised!CommitInsert(p, i) <=> CommitInsert(p, i)
    BY <1>1, <1>3, <2>1 DEF CommitInsert, Promised!CommitInsert
  <2>3. \A status, due : Promised!BeginInsert(p, status, due) <=> BeginInsert(p, status, due)
    BY <1>1, <1>3, <1>4, <2>1 DEF BeginInsert, Promised!BeginInsert
  <2> QED
    BY <2>2, <2>3
<1> QED
  BY <1>1, <1>2, <1>5, <1>6, <1>7

\* A step of a process of Invoices is one of Promised.
LEMMA StepIsPromised ==
  ASSUME NEW p \in Procs, Step(p)
  PROVE  Promised!Step(p)
<1>1. CASE Create(p)
  <2>1. Promised!Create(p)
    BY <1>1, SameInvoices DEF Create, Promised!Create
  <2> QED
    BY <2>1 DEF Promised!Step
<1>2. CASE ~Create(p)
  BY <1>2, SameInvoices DEF Step, Promised!Step
<1> QED
  BY <1>1, <1>2

\* Runs create invoices only, and in the way requests do.
LEMMA RecurIsPromised ==
  ASSUME ScheduleInv, NEW p \in Procs, Recur(p)
  PROVE  Promised!Step(p) \/ UNCHANGED vars
<1>1. ASSUME NEW d, d \in run[p].due, run[p].at = "loop", BeginBill(p, d)
      PROVE  Promised!Step(p)
  <2> DEFINE status == IF Issues[d.id] THEN "SENT" ELSE "DRAFT"
             due == run[p].time + NetTerms[d.id]
  <2>1. d \in Due /\ run[p].time \in 0..MaxTime
    <3>1. Reading(run[p])
      BY DEF ScheduleInv
    <3> QED
      BY <1>1, <3>1, LoopHolds
  <2>2. d.id \in Schedules
    BY <2>1 DEF Due
  <2>3. due \in DueDates \cup {t + NetTerms[s] : t \in 0..MaxTime, s \in Schedules}
    BY <2>1, <2>2
  <2>4. status \in {"DRAFT", "SENT"}
    OBVIOUS
  <2>5. Promised!BeginInsert(p, status, due)
    BY <1>1, SameInvoices DEF BeginBill
  <2>6. Promised!Create(p)
    BY <2>3, <2>4, <2>5 DEF Promised!Create
  <2> QED
    BY <2>6 DEF Promised!Step
<1>2. ASSUME NEW i \in Ids, CommitBill(p, i)
      PROVE  Promised!Step(p)
  BY <1>2, SameInvoices DEF CommitBill, Promised!Create, Promised!Step
<1>3. ASSUME RollBackBill(p) \/ FinishBill(p) \/ AbandonRun(p)
      PROVE  Promised!Step(p) \/ UNCHANGED vars
  <2>1. Abort(p) \/ Emit(p) \/ UNCHANGED vars
    BY <1>3 DEF RollBackBill, RolledBack, FinishBill, AbandonRun
  <2> QED
    BY <2>1, SameInvoices DEF Promised!Step
<1>4. ASSUME \/ \E s \in Schedules, active \in BOOLEAN : ReadForToggle(p, s, active)
             \/ WriteToggle(p)
             \/ \E batch \in SUBSET DueNow : StartRun(p, batch)
      PROVE  UNCHANGED vars
  BY <1>4 DEF ReadForToggle, WriteToggle, StartRun
<1> QED
  BY <1>1, <1>2, <1>3, <1>4 DEF Recur

LEMMA NextIsPromised == ScheduleInv /\ [RecurringNext]_allVars => [Promised!Next]_Promised!vars
<1> SUFFICES ASSUME ScheduleInv, [RecurringNext]_allVars PROVE Promised!Next \/ UNCHANGED vars
  BY DEF vars, Promised!vars
<1>1. CASE \E s \in Schedules : Remove(s) \/ \E start \in Starts : CreateSchedule(s, start)
  BY <1>1 DEF Remove, CreateSchedule
<1>2. CASE \E p \in Procs : Recur(p)
  BY <1>2, RecurIsPromised DEF Promised!Next
<1>3. CASE \E p \in Procs : run[p] = NoRun /\ Step(p) /\ UNCHANGED recurringVars
  BY <1>3, StepIsPromised DEF Promised!Next
<1>4. CASE Tick /\ UNCHANGED recurringVars
  BY <1>4, SameInvoices DEF Promised!Next
<1>5. CASE UNCHANGED allVars
  BY <1>5 DEF allVars
<1> QED
  BY <1>1, <1>2, <1>3, <1>4, <1>5 DEF RecurringNext

\* With schedules, billing runs and toggles around, the invoices still behave as
\* Invoices says: a run creates one the way a request does, and rolls it back
\* without a trace (invoice.service.ts:137-163).
THEOREM RecurringImplementsInvoices == RecurringSpec => InvoicesSpec
<1>1. RecurringInit => Promised!Init
  BY SameInvoices DEF RecurringInit
<1> QED
  BY <1>1, InitScheduleInv, NextKeepsScheduleInv, NextIsPromised, PTL
     DEF RecurringSpec, InvoicesSpec, Promised!Spec

-----------------------------------------------------------------------------
(***************************************************************************)
(* Job queues.                                                             *)
(***************************************************************************)

\* Only an active job is locked.
LockInv == \A j \in Jobs : owner[j] # NONE => state[j] = "active"

\* A job that has not failed may still be tried; one that failed has used up
\* its attempts or its stalls, and never both.
TriesInv ==
  \A j \in Jobs :
    /\ state[j] # "failed" => (attempts[j] < MaxAttempts /\ stalls[j] <= MaxStalled)
    /\ state[j] = "failed" =>
         \/ attempts[j] = MaxAttempts /\ stalls[j] <= MaxStalled
         \/ attempts[j] < MaxAttempts /\ stalls[j] = MaxStalled + 1

\* A worker runs jobs of its queue, and has done what it is about to report.
RunInv ==
  \A w \in Workers :
    running[w] # Free =>
      /\ Consumes[w] = SentTo[running[w].job]
      /\ (running[w].at = "done" /\ Mine(w)) => effects[running[w].job] >= 1

\* Workers that have a job in hand and have not done its work yet.
Called(j) == {w \in Workers : running[w].at = "called" /\ running[w].job = j}

Granted(s) == IF s \in {"active", "completed"} THEN 1 ELSE 0

\* Work done and work that may still be done is paid for by an attempt, by a
\* stall, or by the run in progress.
WorkInv ==
  \A j \in Jobs :
    effects[j] + Cardinality(Called(j)) <= attempts[j] + stalls[j] + Granted(state[j])

QueueInv ==
  /\ QueueTypes
  /\ LockInv
  /\ TriesInv
  /\ RunInv
  /\ DedicatedQueueDoesTheWork
  /\ WorkInv

LEMMA CountWorkers ==
  ASSUME NEW S \in SUBSET Workers
  PROVE  /\ IsFiniteSet(S)
         /\ Cardinality(S) \in Nat
         /\ \A T \in SUBSET S : Cardinality(T) \in Nat /\ Cardinality(T) <= Cardinality(S)
  <1>1. IsFiniteSet(S)
    BY FS_Subset, JobQueueAssumption
  <1>2. \A T \in SUBSET S : IsFiniteSet(T) /\ Cardinality(T) <= Cardinality(S)
    BY <1>1, FS_Subset
  <1> QED
    BY <1>1, <1>2, FS_CardinalityType

LEMMA QueueInitInv == QueueInit => QueueInv
  <1> SUFFICES ASSUME QueueInit PROVE QueueInv
    OBVIOUS
  <1>1. QueueTypes
    BY JobQueueAssumption DEF QueueInit, QueueTypes, Free
  <1>2. LockInv /\ RunInv /\ DedicatedQueueDoesTheWork
    BY DEF QueueInit, LockInv, RunInv, DedicatedQueueDoesTheWork
  <1>3. TriesInv
    BY JobQueueAssumption DEF QueueInit, TriesInv
  <1>4. WorkInv
    <2> SUFFICES ASSUME NEW j \in Jobs
                 PROVE effects[j] + Cardinality(Called(j))
                         <= attempts[j] + stalls[j] + Granted(state[j])
      BY DEF WorkInv
    <2>1. Called(j) = {}
      BY DEF QueueInit, Called, Free
    <2> QED
      BY <2>1, FS_EmptySet DEF QueueInit, Granted
  <1> QED
    BY <1>1, <1>2, <1>3, <1>4 DEF QueueInv

\* A step after which fewer workers have a job in hand keeps the count, if it
\* pays for what it grants.
LEMMA FewerCalled ==
  ASSUME QueueTypes, QueueTypes', WorkInv,
         \A j \in Jobs : Called(j)' \subseteq Called(j),
         UNCHANGED effects,
         \A j \in Jobs : attempts[j] + stalls[j] + Granted(state[j])
                           <= attempts'[j] + stalls'[j] + Granted(state'[j])
  PROVE  WorkInv'
  <1> SUFFICES ASSUME NEW j \in Jobs
               PROVE effects'[j] + Cardinality(Called(j)')
                       <= attempts'[j] + stalls'[j] + Granted(state'[j])
    BY DEF WorkInv
  <1>1. Called(j) \in SUBSET Workers /\ Called(j)' \in SUBSET Called(j)
    BY DEF Called
  <1>2. /\ Cardinality(Called(j)) \in Nat /\ Cardinality(Called(j)') \in Nat
        /\ Cardinality(Called(j)') <= Cardinality(Called(j))
    BY <1>1, CountWorkers
  <1>3. /\ effects[j] \in Nat /\ effects'[j] = effects[j]
        /\ attempts[j] \in Nat /\ attempts'[j] \in Nat
        /\ stalls[j] \in Nat /\ stalls'[j] \in Nat
        /\ Granted(state[j]) \in Nat /\ Granted(state'[j]) \in Nat
    BY JobQueueAssumption DEF QueueTypes, Granted
  <1>4. effects[j] + Cardinality(Called(j)) <= attempts[j] + stalls[j] + Granted(state[j])
    BY DEF WorkInv
  <1> QED
    BY <1>2, <1>3, <1>4

LEMMA AdmitKeepsIInv ==
  ASSUME QueueInv, NEW j \in Jobs, Enqueue(j) \/ Promote(j)
  PROVE  QueueInv'
  <1>1. /\ state[j] \in {"absent", "delayed"}
        /\ state' = [state EXCEPT ![j] = "waiting"]
        /\ UNCHANGED <<attempts, stalls, owner, running, effects, faults>>
    BY DEF Enqueue, Promote, New
  <1>2. QueueTypes'
    BY <1>1 DEF QueueInv, QueueTypes
  <1>3. LockInv' /\ TriesInv' /\ RunInv' /\ DedicatedQueueDoesTheWork'
    BY <1>1 DEF QueueInv, QueueTypes, LockInv, TriesInv, RunInv, Mine, Accepts,
                DedicatedQueueDoesTheWork
  <1>4. WorkInv'
    <2>1. \A k \in Jobs : Called(k)' \subseteq Called(k)
      BY <1>1 DEF Called
    <2>2. \A k \in Jobs : attempts[k] + stalls[k] + Granted(state[k])
                            <= attempts'[k] + stalls'[k] + Granted(state'[k])
      BY <1>1, JobQueueAssumption DEF QueueInv, QueueTypes, Granted
    <2> QED
      BY <1>1, <1>2, <2>1, <2>2, FewerCalled DEF QueueInv
  <1> QED
    BY <1>2, <1>3, <1>4 DEF QueueInv

LEMMA UnlockKeepsIInv ==
  ASSUME QueueInv, NEW j \in Jobs, Reclaim(j) \/ LoseLock(j)
  PROVE  QueueInv'
  <1>1. Unlock(j)
    BY DEF Reclaim, LoseLock
  <1>2. faults' \in Nat
    BY DEF Reclaim, LoseLock, Fault, QueueInv, QueueTypes
  <1>3. attempts[j] < MaxAttempts /\ stalls[j] <= MaxStalled /\ stalls[j] \in Nat
    BY <1>1, JobQueueAssumption DEF Unlock, QueueInv, TriesInv, QueueTypes
  <1>4. stalls' = [stalls EXCEPT ![j] = stalls[j] + 1] /\ stalls[j] + 1 \in 0..(MaxStalled + 1)
    BY <1>1, <1>3, JobQueueAssumption DEF Unlock
  <1>5. /\ state' = [state EXCEPT ![j] = AfterStall(stalls[j] + 1)]
        /\ AfterStall(stalls[j] + 1) \in {"waiting", "failed"}
        /\ AfterStall(stalls[j] + 1) = "failed" <=> stalls[j] = MaxStalled
    BY <1>1, <1>3, JobQueueAssumption DEF Unlock, AfterStall
  <1>6. QueueTypes'
    BY <1>1, <1>2, <1>4, <1>5 DEF Unlock, QueueInv, QueueTypes
  <1>7. LockInv' /\ RunInv' /\ DedicatedQueueDoesTheWork'
    BY <1>1, <1>5 DEF Unlock, QueueInv, QueueTypes, LockInv, RunInv, Mine, Accepts,
                      DedicatedQueueDoesTheWork
  <1>8. TriesInv'
    BY <1>1, <1>3, <1>4, <1>5, JobQueueAssumption DEF Unlock, QueueInv, QueueTypes, TriesInv
  <1>9. WorkInv'
    <2>1. \A k \in Jobs : Called(k)' \subseteq Called(k)
      BY <1>1 DEF Unlock, Called
    <2>2. \A k \in Jobs : attempts[k] + stalls[k] + Granted(state[k])
                            <= attempts'[k] + stalls'[k] + Granted(state'[k])
      BY <1>1, <1>3, <1>4, <1>5, JobQueueAssumption DEF Unlock, QueueInv, QueueTypes, Granted
    <2> QED
      BY <1>1, <1>6, <2>1, <2>2, FewerCalled DEF Unlock, QueueInv
  <1> QED
    BY <1>6, <1>7, <1>8, <1>9 DEF QueueInv

LEMMA TakeKeepsIInv ==
  ASSUME QueueInv, NEW w \in Workers, NEW j \in Jobs, Take(w, j)
  PROVE  QueueInv'
  <1>1. QueueTypes'
    BY DEF Take, Running, QueueInv, QueueTypes
  <1>2. LockInv' /\ TriesInv' /\ DedicatedQueueDoesTheWork'
    BY DEF Take, QueueInv, QueueTypes, LockInv, TriesInv, DedicatedQueueDoesTheWork, Accepts
  <1>3. RunInv'
    <2> SUFFICES ASSUME NEW v \in Workers, running'[v] # Free
                 PROVE /\ Consumes[v] = SentTo[running'[v].job]
                       /\ (running'[v].at = "done" /\ Mine(v)') => effects'[running'[v].job] >= 1
      BY DEF RunInv
    <2>1. CASE v = w
      BY <2>1 DEF Take, Running, QueueInv, QueueTypes
    <2>2. CASE v # w
      BY <2>2 DEF Take, QueueInv, QueueTypes, RunInv, Mine, Accepts
    <2> QED
      BY <2>1, <2>2
  <1>4. WorkInv'
    <2> SUFFICES ASSUME NEW k \in Jobs
                 PROVE effects'[k] + Cardinality(Called(k)')
                         <= attempts'[k] + stalls'[k] + Granted(state'[k])
      BY DEF WorkInv
    <2>1. Called(k) \in SUBSET Workers
      BY DEF Called
    <2>2. IsFiniteSet(Called(k)) /\ Cardinality(Called(k)) \in Nat
      BY <2>1, CountWorkers
    <2>3. /\ effects[k] \in Nat /\ attempts[k] \in Nat /\ stalls[k] \in Nat
          /\ Granted(state[k]) \in Nat
          /\ effects[k] + Cardinality(Called(k)) <= attempts[k] + stalls[k] + Granted(state[k])
      BY JobQueueAssumption DEF QueueInv, QueueTypes, WorkInv, Granted
    <2>4. CASE k = j
      <3>1. w \notin Called(k)
        BY DEF Take, Called, Free
      <3>2. Called(k)' = Called(k) \cup {w}
        BY <2>4 DEF Take, Called, Running, QueueInv, QueueTypes
      <3>3. Cardinality(Called(k)') = Cardinality(Called(k)) + 1
        BY <2>2, <3>1, <3>2, FS_AddElement
      <3>4. Granted(state[k]) = 0 /\ Granted(state'[k]) = 1
        BY <2>4 DEF Take, QueueInv, QueueTypes, Granted
      <3> QED
        BY <2>2, <2>3, <3>3, <3>4 DEF Take
    <2>5. CASE k # j
      <3>1. Called(k)' = Called(k)
        BY <2>5 DEF Take, Called, Running, Free, QueueInv, QueueTypes
      <3>2. state'[k] = state[k]
        BY <2>5 DEF Take, QueueInv, QueueTypes
      <3> QED
        BY <2>3, <3>1, <3>2 DEF Take
    <2> QED
      BY <2>4, <2>5
  <1> QED
    BY <1>1, <1>2, <1>3, <1>4 DEF QueueInv

LEMMA SkipKeepsIInv ==
  ASSUME QueueInv, NEW w \in Workers, SkipOther(w)
  PROVE  QueueInv'
  <1>1. /\ running[w] # Free /\ running[w].job \in Jobs /\ Consumes[w] = SentTo[running[w].job]
        /\ running'[w] = [at |-> "done", job |-> running[w].job]
        /\ \A v \in Workers \ {w} : running'[v] = running[v]
    BY DEF SkipOther, Free, QueueInv, QueueTypes, RunInv
  <1>2. QueueTypes'
    BY <1>1 DEF SkipOther, QueueInv, QueueTypes
  <1>3. LockInv' /\ TriesInv' /\ DedicatedQueueDoesTheWork'
    BY DEF SkipOther, QueueInv, LockInv, TriesInv, DedicatedQueueDoesTheWork, Accepts
  <1>4. RunInv'
    BY <1>1 DEF SkipOther, QueueInv, RunInv, Mine, Accepts
  <1>5. WorkInv'
    <2>1. \A k \in Jobs : Called(k)' \subseteq Called(k)
      BY <1>1 DEF Called
    <2>2. \A k \in Jobs : attempts[k] + stalls[k] + Granted(state[k])
                            <= attempts'[k] + stalls'[k] + Granted(state'[k])
      BY JobQueueAssumption DEF SkipOther, QueueInv, QueueTypes, Granted
    <2> QED
      BY <1>2, <2>1, <2>2, FewerCalled DEF SkipOther, QueueInv
  <1> QED
    BY <1>2, <1>3, <1>4, <1>5 DEF QueueInv

LEMMA ProcessKeepsIInv ==
  ASSUME QueueInv, NEW w \in Workers, Process(w)
  PROVE  QueueInv'
  <1> DEFINE j == running[w].job
  <1>1. /\ running[w] # Free /\ running[w].at = "called" /\ j \in Jobs /\ Consumes[w] = SentTo[j]
        /\ running'[w] = [at |-> "done", job |-> j]
        /\ \A v \in Workers \ {w} : running'[v] = running[v]
    BY DEF Process, Free, QueueInv, QueueTypes, RunInv
  <1>2. /\ \A k \in Jobs : effects[k] \in Nat /\ effects'[k] \in Nat
        /\ effects'[j] = effects[j] + 1
        /\ \A k \in Jobs \ {j} : effects'[k] = effects[k]
    BY <1>1 DEF Process, QueueInv, QueueTypes
  <1>3. QueueTypes'
    BY <1>1, <1>2 DEF Process, QueueInv, QueueTypes
  <1>4. LockInv' /\ TriesInv'
    BY DEF Process, QueueInv, LockInv, TriesInv
  <1>5. DedicatedQueueDoesTheWork'
    BY <1>2 DEF Process, QueueInv, DedicatedQueueDoesTheWork, Accepts
  <1>6. RunInv'
    <2> SUFFICES ASSUME NEW v \in Workers, running'[v] # Free
                 PROVE /\ Consumes[v] = SentTo[running'[v].job]
                       /\ (running'[v].at = "done" /\ Mine(v)') => effects'[running'[v].job] >= 1
      BY DEF RunInv
    <2>1. CASE v = w
      BY <1>1, <1>2, <2>1
    <2>2. CASE v # w
      <3>1. running'[v] = running[v] /\ running[v].job \in Jobs
        BY <1>1, <2>2 DEF QueueInv, QueueTypes, Free
      <3> QED
        BY <1>2, <3>1 DEF QueueInv, RunInv, Mine, Accepts
    <2> QED
      BY <2>1, <2>2
  <1>7. WorkInv'
    <2> SUFFICES ASSUME NEW k \in Jobs
                 PROVE effects'[k] + Cardinality(Called(k)')
                         <= attempts'[k] + stalls'[k] + Granted(state'[k])
      BY DEF WorkInv
    <2>1. Called(k) \in SUBSET Workers
      BY DEF Called
    <2>2. IsFiniteSet(Called(k)) /\ Cardinality(Called(k)) \in Nat
      BY <2>1, CountWorkers
    <2>3. /\ attempts[k] \in Nat /\ stalls[k] \in Nat /\ Granted(state[k]) \in Nat
          /\ effects[k] + Cardinality(Called(k)) <= attempts[k] + stalls[k] + Granted(state[k])
          /\ UNCHANGED <<attempts, stalls, state>>
      BY JobQueueAssumption DEF Process, QueueInv, QueueTypes, WorkInv, Granted
    <2>4. CASE k = j
      <3>1. w \in Called(k) /\ Called(k)' = Called(k) \ {w}
        BY <1>1, <2>4 DEF Called
      <3>2. Cardinality(Called(k)') = Cardinality(Called(k)) - 1
        BY <2>2, <3>1, FS_RemoveElement
      <3> QED
        BY <1>2, <2>2, <2>3, <2>4, <3>2
    <2>5. CASE k # j
      <3>1. Called(k)' = Called(k)
        BY <1>1, <2>5 DEF Called
      <3> QED
        BY <1>2, <2>3, <2>5, <3>1
    <2> QED
      BY <2>4, <2>5
  <1> QED
    BY <1>3, <1>4, <1>5, <1>6, <1>7 DEF QueueInv

\* Losing the job in hand, whatever else happens to it, keeps what is known of
\* the other workers.
LEMMA FewerRuns ==
  ASSUME QueueInv, UNCHANGED effects,
         \A v \in Workers : running'[v] \in {Free, running[v]}
  PROVE  RunInv' /\ \A k \in Jobs : Called(k)' \subseteq Called(k)
  BY DEF QueueInv, RunInv, Called, Mine, Accepts, Free

LEMMA CrashKeepsIInv ==
  ASSUME QueueInv, NEW p \in Pods, Crash(p)
  PROVE  QueueInv'
  <1>1. \A v \in Workers : running'[v] \in {Free, running[v]}
    BY DEF Crash
  <1>2. faults' \in Nat
    BY DEF Crash, Fault, QueueInv, QueueTypes
  <1>3. QueueTypes'
    BY <1>2 DEF Crash, QueueInv, QueueTypes
  <1>4. LockInv' /\ TriesInv' /\ DedicatedQueueDoesTheWork'
    BY DEF Crash, QueueInv, LockInv, TriesInv, DedicatedQueueDoesTheWork, Accepts
  <1>5. RunInv' /\ \A k \in Jobs : Called(k)' \subseteq Called(k)
    BY <1>1, FewerRuns DEF Crash
  <1>6. \A k \in Jobs : attempts[k] + stalls[k] + Granted(state[k])
                          <= attempts'[k] + stalls'[k] + Granted(state'[k])
    BY JobQueueAssumption DEF Crash, QueueInv, QueueTypes, Granted
  <1>7. WorkInv'
    BY <1>3, <1>5, <1>6, FewerCalled DEF Crash, QueueInv
  <1> QED
    BY <1>3, <1>4, <1>5, <1>7 DEF QueueInv

LEMMA CompleteKeepsIInv ==
  ASSUME QueueInv, NEW w \in Workers, Complete(w)
  PROVE  QueueInv'
  <1> DEFINE j == running[w].job
  <1>1. /\ running[w] # Free /\ j \in Jobs /\ Consumes[w] = SentTo[j]
        /\ Mine(w) => effects[j] >= 1
    BY DEF Complete, Free, QueueInv, QueueTypes, RunInv
  <1>2. \A v \in Workers : running'[v] \in {Free, running[v]}
    BY DEF Complete, QueueInv, QueueTypes
  <1>3. RunInv' /\ \A k \in Jobs : Called(k)' \subseteq Called(k)
    BY <1>2, FewerRuns DEF Complete
  <1>4. CASE ~HoldsLock(w)
    <2>1. UNCHANGED <<state, owner, attempts, stalls, effects, faults>>
      BY <1>4 DEF Complete
    <2>2. QueueTypes'
      BY <2>1 DEF Complete, QueueInv, QueueTypes
    <2>3. LockInv' /\ TriesInv' /\ DedicatedQueueDoesTheWork'
      BY <2>1 DEF QueueInv, LockInv, TriesInv, DedicatedQueueDoesTheWork, Accepts
    <2>4. \A k \in Jobs : attempts[k] + stalls[k] + Granted(state[k])
                            <= attempts'[k] + stalls'[k] + Granted(state'[k])
      BY <2>1, JobQueueAssumption DEF QueueInv, QueueTypes, Granted
    <2>5. WorkInv'
      BY <1>3, <2>1, <2>2, <2>4, FewerCalled DEF QueueInv
    <2> QED
      BY <1>3, <2>2, <2>3, <2>5 DEF QueueInv
  <1>5. CASE HoldsLock(w)
    <2>1. /\ state' = [state EXCEPT ![j] = "completed"]
          /\ owner' = [owner EXCEPT ![j] = NONE]
          /\ UNCHANGED <<attempts, stalls, effects, faults>>
      BY <1>5 DEF Complete, AfterReturn
    <2>2. state[j] = "active"
      BY <1>1, <1>5, JobQueueAssumption DEF HoldsLock, QueueInv, LockInv
    <2>3. QueueTypes'
      BY <2>1 DEF Complete, QueueInv, QueueTypes
    <2>4. LockInv' /\ TriesInv'
      BY <2>1, <2>2 DEF QueueInv, QueueTypes, LockInv, TriesInv
    <2>5. DedicatedQueueDoesTheWork'
      BY <1>1, <2>1 DEF QueueInv, QueueTypes, DedicatedQueueDoesTheWork, Accepts, Mine
    <2>6. \A k \in Jobs : attempts[k] + stalls[k] + Granted(state[k])
                            <= attempts'[k] + stalls'[k] + Granted(state'[k])
      BY <2>1, <2>2, JobQueueAssumption DEF QueueInv, QueueTypes, Granted
    <2>7. WorkInv'
      BY <1>3, <2>1, <2>3, <2>6, FewerCalled DEF QueueInv
    <2> QED
      BY <1>3, <2>3, <2>4, <2>5, <2>7 DEF QueueInv
  <1> QED
    BY <1>4, <1>5

LEMMA ThrowKeepsIInv ==
  ASSUME QueueInv, NEW w \in Workers, Throw(w)
  PROVE  QueueInv'
  <1> DEFINE j == running[w].job
  <1>1. running[w] # Free /\ j \in Jobs
    BY DEF Throw, Free, QueueInv, QueueTypes
  <1>2. \A v \in Workers : running'[v] \in {Free, running[v]}
    BY DEF Throw, QueueInv, QueueTypes
  <1>3. RunInv' /\ \A k \in Jobs : Called(k)' \subseteq Called(k)
    BY <1>2, FewerRuns DEF Throw
  <1>4. CASE ~HoldsLock(w)
    <2>1. UNCHANGED <<state, owner, attempts, stalls, effects, faults>>
      BY <1>4 DEF Throw
    <2>2. QueueTypes'
      BY <2>1 DEF Throw, QueueInv, QueueTypes
    <2>3. LockInv' /\ TriesInv' /\ DedicatedQueueDoesTheWork'
      BY <2>1 DEF QueueInv, LockInv, TriesInv, DedicatedQueueDoesTheWork, Accepts
    <2>4. \A k \in Jobs : attempts[k] + stalls[k] + Granted(state[k])
                            <= attempts'[k] + stalls'[k] + Granted(state'[k])
      BY <2>1, JobQueueAssumption DEF QueueInv, QueueTypes, Granted
    <2>5. WorkInv'
      BY <1>3, <2>1, <2>2, <2>4, FewerCalled DEF QueueInv
    <2> QED
      BY <1>3, <2>2, <2>3, <2>5 DEF QueueInv
  <1>5. CASE HoldsLock(w)
    <2>1. /\ state' = [state EXCEPT ![j] = AfterThrow(attempts[j] + 1)]
          /\ attempts' = [attempts EXCEPT ![j] = attempts[j] + 1]
          /\ owner' = [owner EXCEPT ![j] = NONE]
          /\ UNCHANGED <<stalls, effects, faults>>
      BY <1>5 DEF Throw
    <2>2. state[j] = "active"
      BY <1>1, <1>5, JobQueueAssumption DEF HoldsLock, QueueInv, LockInv
    <2>3. /\ attempts[j] \in Nat /\ attempts[j] < MaxAttempts /\ stalls[j] <= MaxStalled
          /\ attempts[j] + 1 \in 0..MaxAttempts
      BY <1>1, <2>2, JobQueueAssumption DEF QueueInv, QueueTypes, TriesInv
    <2>4. /\ AfterThrow(attempts[j] + 1) \in {"delayed", "failed"}
          /\ AfterThrow(attempts[j] + 1) = "failed" <=> attempts[j] + 1 = MaxAttempts
      BY <2>3, JobQueueAssumption DEF AfterThrow
    <2>5. QueueTypes'
      BY <2>1, <2>3, <2>4 DEF Throw, QueueInv, QueueTypes
    <2>6. LockInv' /\ DedicatedQueueDoesTheWork'
      BY <2>1, <2>4 DEF QueueInv, QueueTypes, LockInv, DedicatedQueueDoesTheWork, Accepts
    <2>7. TriesInv'
      BY <2>1, <2>3, <2>4, JobQueueAssumption DEF QueueInv, QueueTypes, TriesInv
    <2>8. \A k \in Jobs : attempts[k] + stalls[k] + Granted(state[k])
                            <= attempts'[k] + stalls'[k] + Granted(state'[k])
      BY <1>1, <2>1, <2>2, <2>3, <2>4, JobQueueAssumption DEF QueueInv, QueueTypes, Granted
    <2>9. WorkInv'
      BY <1>3, <2>1, <2>5, <2>8, FewerCalled DEF QueueInv
    <2> QED
      BY <1>3, <2>5, <2>6, <2>7, <2>9 DEF QueueInv
  <1> QED
    BY <1>4, <1>5

LEMMA StutterKeepsIInv ==
  ASSUME QueueInv, UNCHANGED queueVars
  PROVE  QueueInv'
  BY DEF queueVars, QueueInv, QueueTypes, LockInv, TriesInv, RunInv,
         DedicatedQueueDoesTheWork, WorkInv,
         Called, Mine, Accepts

LEMMA QueueNextKeepsInv == QueueInv /\ [QueueNext]_queueVars => QueueInv'
  <1> SUFFICES ASSUME QueueInv, [QueueNext]_queueVars PROVE QueueInv'
    OBVIOUS
  <1>1. ASSUME NEW j \in Jobs, Enqueue(j) \/ Promote(j) \/ Reclaim(j) \/ LoseLock(j)
        PROVE  QueueInv'
    BY <1>1, AdmitKeepsIInv, UnlockKeepsIInv
  <1>2. ASSUME NEW w \in Workers, Work(w) PROVE QueueInv'
    BY <1>2, TakeKeepsIInv, SkipKeepsIInv, ProcessKeepsIInv, CompleteKeepsIInv, ThrowKeepsIInv
    DEF Work
  <1>3. ASSUME NEW p \in Pods, Crash(p) PROVE QueueInv'
    BY <1>3, CrashKeepsIInv
  <1>4. ASSUME UNCHANGED queueVars PROVE QueueInv'
    BY <1>4, StutterKeepsIInv
  <1> QED
    BY <1>1, <1>2, <1>3, <1>4 DEF QueueNext

\* The strengthened invariant holds for any number of jobs, workers and pods.
THEOREM JobQueueInvariant == QueueSpec => []QueueInv
  BY QueueInitInv, QueueNextKeepsInv, PTL DEF QueueSpec

\* Every variable of the job queues keeps its type; in particular the attempts
\* and stalls BullMQ counts never pass the limits set in DEFAULT_JOB_OPTIONS.
THEOREM JobQueueTypeCorrect == QueueSpec => []QueueTypes
  <1>1. QueueInv => QueueTypes
    BY DEF QueueInv
  <1> QED
    BY <1>1, JobQueueInvariant, PTL

\* A job completed on a queue whose processors all handle its name had its work
\* done, however many pods crash and locks are lost.
THEOREM DedicatedQueuesWork == QueueSpec => []DedicatedQueueDoesTheWork
  <1>1. QueueInv => DedicatedQueueDoesTheWork
    BY DEF QueueInv
  <1> QED
    BY <1>1, JobQueueInvariant, PTL

\* A job is given up only when its attempts or its stalls are used up.
THEOREM FailuresAreEarned == QueueSpec => []FailedUsedItsTries
  <1>1. QueueInv => FailedUsedItsTries
    BY JobQueueAssumption DEF QueueInv, QueueTypes, TriesInv, FailedUsedItsTries
  <1> QED
    BY <1>1, JobQueueInvariant, PTL

\* A processor's work on one job is done at most once for each attempt and
\* stall, never more than MaxAttempts + MaxStalled times: the repetition an
\* idempotent processor must tolerate is bounded by the queue's options, not by
\* the number of faults.
THEOREM RerunsAreBounded == QueueSpec => []RerunsAreAccountedFor
  <1>1. QueueInv => RerunsAreAccountedFor
    <2> SUFFICES ASSUME QueueInv, NEW j \in Jobs
                 PROVE /\ effects[j] <= attempts[j] + stalls[j] + 1
                       /\ effects[j] <= MaxAttempts + MaxStalled
      BY DEF RerunsAreAccountedFor
    <2>1. Called(j) \in SUBSET Workers
      BY DEF Called
    <2>2. Cardinality(Called(j)) \in Nat
      BY <2>1, CountWorkers
    <2>3. /\ effects[j] \in Nat /\ attempts[j] \in Nat /\ stalls[j] \in Nat
          /\ effects[j] + Cardinality(Called(j)) <= attempts[j] + stalls[j] + Granted(state[j])
      BY JobQueueAssumption DEF QueueInv, QueueTypes, WorkInv
    <2>4. CASE state[j] = "failed"
      BY <2>2, <2>3, <2>4, JobQueueAssumption DEF Granted, QueueInv, TriesInv
    <2>5. CASE state[j] # "failed"
      BY <2>2, <2>3, <2>5, JobQueueAssumption DEF Granted, QueueInv, TriesInv
    <2> QED
      BY <2>4, <2>5
  <1> QED
    BY <1>1, JobQueueInvariant, PTL

\* The verdict on a job is final: only a worker whose lock is on the job can
\* settle it, and a settled job has no lock.
THEOREM VerdictsAreFinal == QueueSpec => VerdictIsFinal
  <1>1. QueueInv /\ [QueueNext]_queueVars =>
          [\A j \in Jobs : Settled(j) => state'[j] = state[j]]_queueVars
    <2> SUFFICES ASSUME QueueInv, QueueNext, NEW k \in Jobs, Settled(k)
                 PROVE  state'[k] = state[k]
      OBVIOUS
    <2>1. state[k] \in {"completed", "failed"} /\ owner[k] = NONE
      BY DEF Settled, QueueInv, LockInv
    <2>2. ASSUME NEW j \in Jobs, Enqueue(j) \/ Promote(j) \/ Reclaim(j) \/ LoseLock(j)
          PROVE  state'[k] = state[k]
      BY <2>1, <2>2 DEF Enqueue, New, Promote, Reclaim, LoseLock, Unlock, QueueInv, QueueTypes
    <2>3. ASSUME NEW w \in Workers, Work(w)
          PROVE  state'[k] = state[k]
      <3>1. HoldsLock(w) => running[w].job # k
        BY <2>1, JobQueueAssumption DEF HoldsLock
      <3>2. CASE \E j \in Jobs : Take(w, j)
        BY <2>1, <3>2 DEF Take, QueueInv, QueueTypes
      <3>3. CASE SkipOther(w) \/ Process(w)
        BY <3>3 DEF SkipOther, Process
      <3>4. CASE Complete(w) \/ Throw(w)
        BY <3>1, <3>4 DEF Complete, Throw, QueueInv, QueueTypes
      <3> QED
        BY <2>3, <3>2, <3>3, <3>4 DEF Work
    <2>4. ASSUME NEW p \in Pods, Crash(p)
          PROVE  state'[k] = state[k]
      BY <2>4 DEF Crash
    <2>5. CASE UNCHANGED queueVars
      BY <2>5 DEF queueVars
    <2> QED
      BY <2>2, <2>3, <2>4, <2>5 DEF QueueNext
  <1> QED
    BY <1>1, JobQueueInvariant, PTL DEF QueueSpec, VerdictIsFinal
=============================================================================
