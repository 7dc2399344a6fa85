------------------------------ MODULE Delivery ------------------------------
(***************************************************************************)
(* The sweep that e-mails notifications (modules/notifications).  Every    *)
(* service writes its rows PENDING; a sweep reads the oldest rows that are *)
(* not SENT, sends each e-mail and only then records the outcome with an   *)
(* updateMany guarded on the status it read.                               *)
(***************************************************************************)
EXTENDS Integers, FiniteSets

CONSTANTS
  Notes,       \* notifications, numbered in the order of createdAt
  Bad,         \* those whose recipient has no e-mail on file
  Sweepers,    \* workers that run notification.delivery.sweep
  BatchSize,   \* NOTIFICATION_DELIVERY_BATCH_SIZE
  MaxFaults    \* bound: calls that throw and sweeps that die

ASSUME DeliveryAssumption ==
  /\ Notes \subseteq Nat /\ IsFiniteSet(Notes) /\ Bad \subseteq Notes
  /\ IsFiniteSet(Sweepers) /\ Sweepers # {}
  /\ BatchSize \in Nat \ {0} /\ MaxFaults \in Nat

VARIABLES
  note,     \* deliveryStatus of a row
  sweep,    \* the row a sweep is at, the status it read, and the rows after it
  mails,    \* e-mails the recipient got for a row
  faults

vars == <<note, sweep, mails, faults>>

Statuses == {"ABSENT", "PENDING", "FAILED", "SENT"}

\* Mutant: a failed row is not taken up again.
OnlyPending == {"PENDING"}
Retryable == {"PENDING", "FAILED"}

Idle == [at |-> "idle"]
Working == [at : {"send", "mark", "fail"}, of : Notes, from : {"PENDING", "FAILED"},
            rest : UNION {[N -> {"PENDING", "FAILED"}] : N \in SUBSET Notes}]
Busy(s) == sweep[s] # Idle

TypeOK ==
  /\ note \in [Notes -> Statuses]
  /\ sweep \in [Sweepers -> {Idle} \cup {w \in Working : w.of \notin DOMAIN w.rest}]
  /\ mails \in [Notes -> Nat]
  /\ faults \in 0..MaxFaults

Init ==
  /\ note = [n \in Notes |-> "ABSENT"]
  /\ sweep = [s \in Sweepers |-> Idle]
  /\ mails = [n \in Notes |-> 0]
  /\ faults = 0

Fault == faults < MaxFaults /\ faults' = faults + 1

-----------------------------------------------------------------------------
\* Some service writes the next notification.
Create(n) ==
  /\ note[n] = "ABSENT"
  /\ \A m \in Notes : note[m] = "ABSENT" => n <= m
  /\ note' = [note EXCEPT ![n] = "PENDING"]
  /\ UNCHANGED <<sweep, mails, faults>>

Due == {n \in Notes : note[n] \in Retryable}
Batch == {n \in Due : Cardinality({m \in Due : m < n}) < BatchSize}

Without(rows, n) == [m \in DOMAIN rows \ {n} |-> rows[m]]

\* What follows when rows are left: the oldest of them is next.
GoOn(rows) ==
  IF DOMAIN rows = {} THEN {Idle}
  ELSE {[at |-> "send", of |-> n, from |-> rows[n], rest |-> Without(rows, n)] :
          n \in {m \in DOMAIN rows : \A k \in DOMAIN rows : m <= k}}

Finish(s) == \E next \in GoOn(sweep[s].rest) : sweep' = [sweep EXCEPT ![s] = next]

Start(s) ==
  /\ ~Busy(s)
  /\ Due # {}
  /\ \E next \in GoOn([n \in Batch |-> note[n]]) : sweep' = [sweep EXCEPT ![s] = next]
  /\ UNCHANGED <<note, mails, faults>>

Send(s) ==
  /\ sweep[s].at = "send"
  /\ \/ /\ sweep[s].of \notin Bad
        /\ mails' = [mails EXCEPT ![sweep[s].of] = @ + 1]
        /\ sweep' = [sweep EXCEPT ![s].at = "mark"]
     \/ /\ sweep[s].of \in Bad
        /\ sweep' = [sweep EXCEPT ![s].at = "fail"]
        /\ UNCHANGED mails
  /\ UNCHANGED <<note, faults>>

\* The mail server throws, with or without having taken the e-mail.
SendThrows(s) ==
  /\ sweep[s].at = "send" /\ sweep[s].of \notin Bad
  /\ Fault
  /\ sweep' = [sweep EXCEPT ![s].at = "fail"]
  /\ mails' \in {mails, [mails EXCEPT ![sweep[s].of] = @ + 1]}
  /\ UNCHANGED note

\* claim: updateMany where deliveryStatus is still the one read.
\* Mutant: updateMany by id alone.
Regardless(s, status) == [note EXCEPT ![sweep[s].of] = status]
Claimed(s, status) ==
  [note EXCEPT ![sweep[s].of] = IF @ = sweep[s].from THEN status ELSE @]

Record(s) ==
  /\ sweep[s].at \in {"mark", "fail"}
  /\ note' = Claimed(s, IF sweep[s].at = "mark" THEN "SENT" ELSE "FAILED")
  /\ Finish(s)
  /\ UNCHANGED <<mails, faults>>

\* The claim of SENT throws, applied or not, and the catch block claims FAILED.
MarkThrows(s) ==
  /\ sweep[s].at = "mark"
  /\ Fault
  /\ sweep' = [sweep EXCEPT ![s].at = "fail"]
  /\ note' \in {note, Claimed(s, "SENT")}
  /\ UNCHANGED mails

\* The process dies, or a query outside the try throws (the claim of FAILED is
\* one): the rest of the batch is not reached.
Crash(s) ==
  /\ Busy(s)
  /\ Fault
  /\ sweep' = [sweep EXCEPT ![s] = Idle]
  /\ UNCHANGED <<note, mails>>

Deliver(s) == Send(s) \/ Record(s)

Next ==
  \/ \E n \in Notes : Create(n)
  \/ \E s \in Sweepers :
       Start(s) \/ Deliver(s) \/ SendThrows(s) \/ MarkThrows(s) \/ Crash(s)

Spec == Init /\ [][Next]_vars

\* Awaits settle.  Nothing in the repository starts sweeps by itself.
FairSpec == Spec /\ \A s \in Sweepers : WF_vars(Deliver(s))

-----------------------------------------------------------------------------
\* A row that says SENT was e-mailed, whoever wrote it after whatever failed.
SentWasMailed == \A n \in Notes : note[n] = "SENT" => mails[n] > 0

\* The guard does not keep sweeps that overlap from sending twice, but it bounds
\* what they send: each at most once if nothing fails, and then one more per
\* fault and one more for each other sweep whose claim a FAILED made void.
RepeatsAreBounded ==
  LET n == Cardinality(Sweepers) IN
  \A m \in Notes :
    mails[m] <= IF faults = 0 THEN n ELSE 2 * n - 1 + faults

\* API_SPEC:696: only SENT is terminal, and a late failure does not undo it.
SentIsFinal == [][\A n \in Notes : note[n] = "SENT" => note'[n] = "SENT"]_vars

\* notification.delivery.worker.ts:13-18: failures heal by themselves.  If sweeps are
\* started again and again, and the rows that cannot be delivered do not fill a
\* batch, every other row arrives.
GoodOnesArrive ==
  (SF_vars(\E s \in Sweepers : Start(s)) /\ Cardinality(Bad) < BatchSize)
    => \A n \in Notes \ Bad : note[n] # "ABSENT" ~> note[n] = "SENT"
=============================================================================
