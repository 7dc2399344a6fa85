--------------------------- MODULE DeliveryProofs ---------------------------
(***************************************************************************)
(* Theorems about Delivery, for any finite sets of notifications and       *)
(* sweeps, any batch size and any bound on the faults.                     *)
(***************************************************************************)
EXTENDS Delivery, FiniteSetTheorems, TLAPS

\* What a sweep has in hand: the rows, the status it read of one of them, and
\* whether it has yet to send the e-mail or to record that it has.
Held(w) == IF w = Idle THEN {} ELSE {w.of} \cup DOMAIN w.rest
FromOf(w, n) == IF w.of = n THEN w.from ELSE w.rest[n]
Unsent(w, n) == n \in Held(w) /\ (w.of = n => w.at = "send")
Marking(w, n) == n \in Held(w) /\ w.of = n /\ w.at = "mark"

\* The sweeps that will still send n, those of them whose claim is void once the
\* row has left PENDING, and the sweeps that have sent n.
ToSend(n) == {s \in Sweepers : Unsent(sweep[s], n)}
ToSendInVain(n) == {s \in ToSend(n) : FromOf(sweep[s], n) = "PENDING"}
ToMark(n) == {s \in Sweepers : Marking(sweep[s], n)}
ToMarkAgain(n) == {s \in ToMark(n) : FromOf(sweep[s], n) = "FAILED"}

HandsInv ==
  \A s \in Sweepers : \A n \in Held(sweep[s]) :
    /\ note[n] # "ABSENT"
    /\ note[n] = "PENDING" => FromOf(sweep[s], n) = "PENDING"
    /\ Marking(sweep[s], n) => n \notin Bad /\ mails[n] > 0
    /\ (sweep[s].of = n /\ sweep[s].at = "fail" /\ n \notin Bad) => faults > 0

N == Cardinality(Sweepers)
Allowance == IF faults = 0 THEN N ELSE 2 * N - 1 + faults

\* What may have been sent of a row, given what the sweeps have in hand.
BudgetOf(n) ==
  /\ n \in Bad => mails[n] = 0
  /\ note[n] = "ABSENT" => mails[n] = 0
  /\ note[n] = "PENDING" => mails[n] <= Cardinality(ToMark(n)) + faults
  /\ note[n] = "FAILED" =>
       /\ n \notin Bad => faults > 0
       /\ mails[n] + Cardinality(ToSendInVain(n))
            <= Cardinality(ToMarkAgain(n)) + faults + N - 1
  /\ note[n] = "SENT" =>
       /\ mails[n] > 0
       /\ mails[n] + Cardinality(ToSend(n)) <= Allowance

IInv == TypeOK /\ HandsInv /\ \A n \in Notes : BudgetOf(n)

Process == {Idle} \cup {w \in Working : w.of \notin DOMAIN w.rest}
Read == {"PENDING", "FAILED"}

LEMMA CountSweepers ==
  /\ N \in Nat \ {0}
  /\ \A S \in SUBSET Sweepers : IsFiniteSet(S) /\ Cardinality(S) \in Nat /\ Cardinality(S) <= N
  <1>1. N \in Nat /\ N # 0
    BY DeliveryAssumption, FS_CardinalityType, FS_EmptySet DEF N
  <1>2. \A S \in SUBSET Sweepers : IsFiniteSet(S) /\ Cardinality(S) <= N
    BY DeliveryAssumption, FS_Subset DEF N
  <1> QED
    BY <1>1, <1>2, FS_CardinalityType

\* A sweep that leaves a set, or joins it.
LEMMA CountWithout ==
  ASSUME NEW S \in SUBSET Sweepers, NEW s
  PROVE  /\ s \in S => Cardinality(S \ {s}) = Cardinality(S) - 1
         /\ s \notin S => S \ {s} = S
         /\ Cardinality(S \ {s}) <= Cardinality(S)
         /\ Cardinality(S \ {s}) >= Cardinality(S) - 1
  <1>1. IsFiniteSet(S) /\ Cardinality(S) \in Nat
    BY CountSweepers
  <1>2. Cardinality(S \ {s}) = IF s \in S THEN Cardinality(S) - 1 ELSE Cardinality(S)
    BY <1>1, FS_RemoveElement
  <1>3. s \notin S => S \ {s} = S
    OBVIOUS
  <1> QED
    BY <1>1, <1>2, <1>3

LEMMA CountWith ==
  ASSUME NEW S \in SUBSET Sweepers, NEW s, s \notin S
  PROVE  Cardinality(S \cup {s}) = Cardinality(S) + 1
  <1>1. IsFiniteSet(S)
    BY CountSweepers
  <1> QED
    BY <1>1, FS_AddElement

LEMMA CountApart ==
  ASSUME NEW S \in SUBSET Sweepers, NEW T \in SUBSET Sweepers, S \cap T = {}
  PROVE  /\ Cardinality(S) + Cardinality(T) <= N
         /\ \A s \in Sweepers : (s \notin S /\ s \notin T)
              => Cardinality(S) + Cardinality(T) <= N - 1
  <1>1. IsFiniteSet(S) /\ IsFiniteSet(T) /\ N \in Nat
    BY CountSweepers
  <1>2. Cardinality(S \cup T) = Cardinality(S) + Cardinality(T)
    <2>1. Cardinality(S \cup T) = Cardinality(S) + Cardinality(T) - Cardinality(S \cap T)
      BY <1>1, FS_Union
    <2>2. Cardinality(S \cap T) = 0 /\ Cardinality(S) \in Nat /\ Cardinality(T) \in Nat
      BY <1>1, FS_EmptySet, FS_CardinalityType
    <2> QED
      BY <2>1, <2>2
  <1>3. S \cup T \in SUBSET Sweepers
    OBVIOUS
  <1>4. Cardinality(S \cup T) <= N
    BY <1>3, CountSweepers
  <1>5. ASSUME NEW s \in Sweepers, s \notin S, s \notin T
        PROVE  Cardinality(S \cup T) <= N - 1
    <2>1. (S \cup T) \cup {s} \in SUBSET Sweepers
      BY <1>5
    <2>2. Cardinality((S \cup T) \cup {s}) <= N
      BY <2>1, CountSweepers
    <2>3. Cardinality((S \cup T) \cup {s}) = Cardinality(S \cup T) + 1
      BY <1>3, <1>5, CountWith
    <2>4. Cardinality(S \cup T) \in Nat
      BY <1>3, CountSweepers
    <2> QED
      BY <1>1, <2>2, <2>3, <2>4
  <1> QED
    BY <1>2, <1>4, <1>5

\* A sweep that goes on has the rows that are left in hand, all of them unsent.
LEMMA GoOnHands ==
  ASSUME NEW D \in SUBSET Notes, NEW rows \in [D -> Read], NEW w \in GoOn(rows)
  PROVE  /\ w \in Process
         /\ Held(w) = D
         /\ \A n \in D : FromOf(w, n) = rows[n] /\ Unsent(w, n)
         /\ \A n \in Notes : ~Marking(w, n)
         /\ w # Idle => w.at = "send"
  <1>1. CASE D = {}
    <2>1. w = Idle
      BY <1>1 DEF GoOn
    <2> QED
      BY <1>1, <2>1 DEF Process, Held, Marking
  <1>2. CASE D # {}
    <2>1. PICK n \in D : w = [at |-> "send", of |-> n, from |-> rows[n], rest |-> Without(rows, n)]
      BY <1>2 DEF GoOn
    <2>2. Without(rows, n) \in [D \ {n} -> Read]
      BY <2>1 DEF Without
    <2>3. w # Idle
      BY <2>1 DEF Idle
    <2>4. w.rest \in [D \ {n} -> Read] /\ w.of = n /\ w.from = rows[n] /\ w.at = "send"
      BY <2>1, <2>2
    <2>5. DOMAIN w.rest = D \ {n} /\ D \ {n} \in SUBSET Notes
      BY <2>4
    <2>6. w \in Process
      <3>1. w.rest \in UNION {[M -> {"PENDING", "FAILED"}] : M \in SUBSET Notes}
        BY <2>4, <2>5 DEF Read
      <3>2. w \in Working
        BY <2>1, <2>2, <3>1 DEF Working, Read
      <3> QED
        BY <3>2, <2>4, <2>5 DEF Process
    <2>7. Held(w) = D
      BY <2>3, <2>4, <2>5 DEF Held
    <2>8. \A m \in D : FromOf(w, m) = rows[m]
      BY <2>1, <2>4 DEF FromOf, Without
    <2> QED
      BY <2>4, <2>6, <2>7, <2>8 DEF Unsent, Marking
  <1> QED
    BY <1>1, <1>2

LEMMA Subsets ==
  ASSUME NEW n \in Notes
  PROVE  /\ ToSend(n) \in SUBSET Sweepers /\ ToMark(n) \in SUBSET Sweepers
         /\ ToSendInVain(n) \in SUBSET ToSend(n) /\ ToMarkAgain(n) \in SUBSET ToMark(n)
         /\ ToSend(n) \cap ToMark(n) = {}
  BY DEF ToSend, ToMark, ToSendInVain, ToMarkAgain, Unsent, Marking

LEMMA Types ==
  ASSUME TypeOK, NEW s \in Sweepers
  PROVE  /\ sweep[s] \in Process
         /\ faults \in Nat
         /\ \A n \in Notes : mails[n] \in Nat /\ note[n] \in Statuses
         /\ Busy(s) =>
              /\ sweep[s].of \in Notes /\ sweep[s].from \in Read
              /\ sweep[s].at \in {"send", "mark", "fail"}
              /\ DOMAIN sweep[s].rest \in SUBSET Notes
              /\ sweep[s].rest \in [DOMAIN sweep[s].rest -> Read]
              /\ sweep[s].of \notin DOMAIN sweep[s].rest
              /\ Held(sweep[s]) = {sweep[s].of} \cup DOMAIN sweep[s].rest
              /\ FromOf(sweep[s], sweep[s].of) = sweep[s].from
  <1>1. sweep[s] \in Process
    BY DEF TypeOK, Process
  <1>2. faults \in Nat /\ \A n \in Notes : mails[n] \in Nat /\ note[n] \in Statuses
    BY DeliveryAssumption DEF TypeOK
  <1>3. ASSUME Busy(s)
        PROVE  /\ sweep[s].of \in Notes /\ sweep[s].from \in Read
               /\ sweep[s].at \in {"send", "mark", "fail"}
               /\ DOMAIN sweep[s].rest \in SUBSET Notes
               /\ sweep[s].rest \in [DOMAIN sweep[s].rest -> Read]
               /\ sweep[s].of \notin DOMAIN sweep[s].rest
    <2>1. sweep[s] \in Working /\ sweep[s].of \notin DOMAIN sweep[s].rest
      BY <1>1, <1>3 DEF Process, Busy
    <2>2. sweep[s].rest \in UNION {[M -> {"PENDING", "FAILED"}] : M \in SUBSET Notes}
      BY <2>1 DEF Working
    <2>3. PICK M \in SUBSET Notes : sweep[s].rest \in [M -> Read]
      BY <2>2 DEF Read
    <2> QED
      BY <2>1, <2>3 DEF Working, Read
  <1> QED
    BY <1>1, <1>2, <1>3 DEF Held, FromOf, Busy

\* The four sets after s has w in its hands.
LEMMA SameHands ==
  ASSUME TypeOK, NEW s \in Sweepers, NEW w, sweep' = [sweep EXCEPT ![s] = w],
         NEW n \in Notes,
         Unsent(w, n) <=> Unsent(sweep[s], n),
         Marking(w, n) <=> Marking(sweep[s], n),
         Unsent(w, n) \/ Marking(w, n) => FromOf(w, n) = FromOf(sweep[s], n)
  PROVE  /\ ToSend(n)' = ToSend(n) /\ ToSendInVain(n)' = ToSendInVain(n)
         /\ ToMark(n)' = ToMark(n) /\ ToMarkAgain(n)' = ToMarkAgain(n)
  <1>1. sweep'[s] = w /\ \A t \in Sweepers \ {s} : sweep'[t] = sweep[t]
    BY DEF TypeOK
  <1>2. \A t \in Sweepers : Unsent(sweep[t], n)' <=> Unsent(sweep[t], n)
    BY <1>1
  <1>3. \A t \in Sweepers : Marking(sweep[t], n)' <=> Marking(sweep[t], n)
    BY <1>1
  <1>4. \A t \in Sweepers : Unsent(sweep[t], n) \/ Marking(sweep[t], n)
                              => FromOf(sweep[t], n)' = FromOf(sweep[t], n)
    BY <1>1
  <1>5. ToSend(n)' = ToSend(n) /\ ToMark(n)' = ToMark(n)
    BY <1>2, <1>3 DEF ToSend, ToMark
  <1>6. \A t \in ToSend(n) \cup ToMark(n) : FromOf(sweep[t], n)' = FromOf(sweep[t], n)
    BY <1>4 DEF ToSend, ToMark
  <1> QED
    BY <1>5, <1>6 DEF ToSendInVain, ToMarkAgain

LEMMA FewerHands ==
  ASSUME TypeOK, NEW s \in Sweepers, NEW w, sweep' = [sweep EXCEPT ![s] = w],
         NEW n \in Notes, ~Unsent(w, n), ~Marking(w, n)
  PROVE  /\ ToSend(n)' = ToSend(n) \ {s} /\ ToSendInVain(n)' = ToSendInVain(n) \ {s}
         /\ ToMark(n)' = ToMark(n) \ {s} /\ ToMarkAgain(n)' = ToMarkAgain(n) \ {s}
  <1>1. sweep'[s] = w /\ \A t \in Sweepers \ {s} : sweep'[t] = sweep[t]
    BY DEF TypeOK
  <1>2. \A t \in Sweepers \ {s} :
          /\ Unsent(sweep[t], n)' <=> Unsent(sweep[t], n)
          /\ Marking(sweep[t], n)' <=> Marking(sweep[t], n)
          /\ FromOf(sweep[t], n)' = FromOf(sweep[t], n)
    BY <1>1
  <1>3. ~Unsent(sweep[s], n)' /\ ~Marking(sweep[s], n)'
    BY <1>1
  <1>4. ToSend(n)' = ToSend(n) \ {s} /\ ToMark(n)' = ToMark(n) \ {s}
    BY <1>2, <1>3 DEF ToSend, ToMark
  <1> QED
    BY <1>2, <1>4 DEF ToSendInVain, ToMarkAgain, ToSend, ToMark

\* Rows move on and mails add up.
Onward ==
  /\ faults' >= faults /\ faults' \in Nat
  /\ \A n \in Notes :
       /\ mails'[n] \in Nat /\ mails'[n] >= mails[n]
       /\ note[n] # "ABSENT" => note'[n] # "ABSENT"
       /\ note'[n] = "PENDING" => note[n] = "PENDING"

\* What s takes in hand is right, where it is not what s had in hand before.
Taken(s, w) ==
  \A n \in Held(w) :
    /\ n \in Held(sweep[s]) \/ (note'[n] # "ABSENT" /\ FromOf(w, n) = note'[n])
    /\ n \in Held(sweep[s]) => FromOf(w, n) = FromOf(sweep[s], n)
    /\ Marking(w, n) => Marking(sweep[s], n) \/ (n \notin Bad /\ mails'[n] > 0)
    /\ (w.of = n /\ w.at = "fail" /\ n \notin Bad) =>
         (sweep[s].of = n /\ sweep[s].at = "fail") \/ faults' > 0

\* What the others have in hand stays right if rows only move on.
LEMMA HandsStay ==
  ASSUME TypeOK, HandsInv, NEW s \in Sweepers, NEW w, sweep' = [sweep EXCEPT ![s] = w],
         Onward, Taken(s, w)
  PROVE  HandsInv'
  <1>1. sweep'[s] = w /\ \A t \in Sweepers \ {s} : sweep'[t] = sweep[t]
    BY DEF TypeOK
  <1>2. \A t \in Sweepers : Held(sweep[t]) \subseteq Notes
    BY Types DEF Held, Busy
  <1>3. faults \in Nat /\ \A n \in Notes : mails[n] \in Nat
    BY Types
  <1> USE DEF Onward, Taken
  <1> SUFFICES ASSUME NEW t \in Sweepers, NEW n \in Held(sweep'[t])
               PROVE  /\ note'[n] # "ABSENT"
                      /\ note'[n] = "PENDING" => FromOf(sweep'[t], n) = "PENDING"
                      /\ Marking(sweep'[t], n) => n \notin Bad /\ mails'[n] > 0
                      /\ (sweep'[t].of = n /\ sweep'[t].at = "fail" /\ n \notin Bad) => faults' > 0
    BY DEF HandsInv
  <1>4. CASE n \in Held(sweep[t])
    <2>1. /\ note[n] # "ABSENT"
          /\ note[n] = "PENDING" => FromOf(sweep[t], n) = "PENDING"
          /\ Marking(sweep[t], n) => n \notin Bad /\ mails[n] > 0
          /\ (sweep[t].of = n /\ sweep[t].at = "fail" /\ n \notin Bad) => faults > 0
      BY <1>4 DEF HandsInv
    <2>2. n \in Notes
      BY <1>2, <1>4
    <2>3. mails[n] > 0 => mails'[n] > 0
      BY <1>3, <2>2
    <2>4. faults > 0 => faults' > 0
      BY <1>3
    <2>5. CASE t # s
      <3>1. sweep'[t] = sweep[t]
        BY <1>1, <2>5
      <3> QED
        BY <2>1, <2>2, <2>3, <2>4, <3>1
    <2>6. CASE t = s
      <3>1. sweep'[t] = w /\ n \in Held(w)
        BY <1>1, <2>6
      <3>2. FromOf(w, n) = FromOf(sweep[t], n)
        BY <1>4, <2>6, <3>1
      <3>3. Marking(w, n) => n \notin Bad /\ mails'[n] > 0
        BY <2>1, <2>3, <2>6, <3>1
      <3>4. (w.of = n /\ w.at = "fail" /\ n \notin Bad) => faults' > 0
        BY <2>1, <2>4, <2>6, <3>1
      <3> QED
        BY <2>1, <2>2, <3>1, <3>2, <3>3, <3>4
    <2> QED
      BY <2>5, <2>6
  <1>5. CASE n \notin Held(sweep[t])
    <2>1. t = s
      BY <1>1, <1>5
    <2>2. sweep'[t] = w /\ n \in Held(w)
      BY <1>1, <2>1
    <2>3. note'[n] # "ABSENT" /\ FromOf(w, n) = note'[n]
      BY <1>5, <2>1, <2>2
    <2>4. ~Marking(sweep[s], n)
      BY <1>5, <2>1 DEF Marking
    <2>5. Marking(w, n) => n \notin Bad /\ mails'[n] > 0
      BY <2>2, <2>4
    <2>6. (w.of = n /\ w.at = "fail" /\ n \notin Bad) => faults' > 0
      <3>1. ~(sweep[s].of = n /\ sweep[s].at = "fail")
        <4>1. CASE sweep[s] = Idle
          BY <4>1 DEF Idle
        <4>2. CASE sweep[s] # Idle
          BY <4>2, <1>5, <2>1 DEF Held
        <4> QED
          BY <4>1, <4>2
      <3> QED
        BY <2>2, <3>1
    <2> QED
      BY <2>2, <2>3, <2>5, <2>6
  <1> QED
    BY <1>4, <1>5

Spent == faults' \in {faults, faults + 1}

LEMMA AllowanceGrows ==
  ASSUME TypeOK, Spent
  PROVE  /\ Allowance \in Nat /\ Allowance' \in Nat
         /\ Allowance' >= Allowance + (faults' - faults)
         /\ Allowance <= 2 * N - 1 + faults
         /\ faults > 0 => Allowance = 2 * N - 1 + faults
         /\ Allowance >= N + faults
  <1>1. faults \in Nat
    BY DeliveryAssumption DEF TypeOK
  <1>2. N \in Nat \ {0}
    BY CountSweepers
  <1> QED
    BY <1>1, <1>2 DEF Allowance, Spent, N

LEMMA Counts ==
  ASSUME NEW n \in Notes
  PROVE  /\ Cardinality(ToSend(n)) \in Nat /\ Cardinality(ToSendInVain(n)) \in Nat
         /\ Cardinality(ToMark(n)) \in Nat /\ Cardinality(ToMarkAgain(n)) \in Nat
         /\ Cardinality(ToSendInVain(n)) <= Cardinality(ToSend(n))
  <1>1. /\ ToSend(n) \in SUBSET Sweepers /\ ToSendInVain(n) \in SUBSET Sweepers
        /\ ToMark(n) \in SUBSET Sweepers /\ ToMarkAgain(n) \in SUBSET Sweepers
    BY Subsets
  <1>2. ToSendInVain(n) \in SUBSET ToSend(n) /\ IsFiniteSet(ToSend(n))
    BY <1>1, Subsets, CountSweepers
  <1>3. Cardinality(ToSendInVain(n)) <= Cardinality(ToSend(n))
    BY <1>2, FS_Subset
  <1> QED
    BY <1>1, <1>3, CountSweepers

\* A step that sends nothing of n, with the same hands on it or fewer.
LEMMA BudgetStays ==
  ASSUME TypeOK, NEW n \in Notes, BudgetOf(n), Spent,
         note'[n] = note[n], mails'[n] = mails[n],
         ToSend(n)' = ToSend(n), ToSendInVain(n)' = ToSendInVain(n),
         ToMark(n)' = ToMark(n), ToMarkAgain(n)' = ToMarkAgain(n)
  PROVE  BudgetOf(n)'
  <1>1. faults \in Nat /\ mails[n] \in Nat
    BY DeliveryAssumption DEF TypeOK
  <1>2. /\ Cardinality(ToSend(n)) \in Nat /\ Cardinality(ToSendInVain(n)) \in Nat
        /\ Cardinality(ToMark(n)) \in Nat /\ Cardinality(ToMarkAgain(n)) \in Nat
    BY Counts
  <1>3. Allowance \in Nat /\ Allowance' \in Nat /\ Allowance' >= Allowance
    BY <1>1, AllowanceGrows DEF Spent
  <1>4. N \in Nat /\ N' = N
    BY CountSweepers DEF N
  <1>5. faults' >= faults /\ faults' \in Nat
    BY <1>1 DEF Spent
  <1>6. CASE note[n] = "FAILED"
    <2>1. /\ n \notin Bad => faults > 0
          /\ mails[n] + Cardinality(ToSendInVain(n))
               <= Cardinality(ToMarkAgain(n)) + faults + N - 1
          /\ n \in Bad => mails[n] = 0
      BY <1>6 DEF BudgetOf
    <2> QED
      BY <1>1, <1>2, <1>4, <1>5, <1>6, <2>1 DEF BudgetOf
  <1>7. CASE note[n] # "FAILED"
    BY <1>1, <1>2, <1>3, <1>5, <1>7 DEF BudgetOf
  <1> QED
    BY <1>6, <1>7

LEMMA BudgetWithout ==
  ASSUME TypeOK, NEW n \in Notes, BudgetOf(n), NEW s, faults' = faults + 1,
         note'[n] = note[n], mails'[n] = mails[n],
         ToSend(n)' = ToSend(n) \ {s}, ToSendInVain(n)' = ToSendInVain(n) \ {s},
         ToMark(n)' = ToMark(n) \ {s}, ToMarkAgain(n)' = ToMarkAgain(n) \ {s}
  PROVE  BudgetOf(n)'
  <1>1. faults \in Nat /\ mails[n] \in Nat
    BY DeliveryAssumption DEF TypeOK
  <1>2. /\ Cardinality(ToSend(n)) \in Nat /\ Cardinality(ToSendInVain(n)) \in Nat
        /\ Cardinality(ToMark(n)) \in Nat /\ Cardinality(ToMarkAgain(n)) \in Nat
    BY Counts
  <1>3. /\ ToSend(n) \in SUBSET Sweepers /\ ToSendInVain(n) \in SUBSET Sweepers
        /\ ToMark(n) \in SUBSET Sweepers /\ ToMarkAgain(n) \in SUBSET Sweepers
    BY Subsets
  <1>4. /\ Cardinality(ToSend(n)') <= Cardinality(ToSend(n))
        /\ Cardinality(ToSendInVain(n)') <= Cardinality(ToSendInVain(n))
        /\ Cardinality(ToMark(n)') >= Cardinality(ToMark(n)) - 1
        /\ Cardinality(ToMarkAgain(n)') >= Cardinality(ToMarkAgain(n)) - 1
    BY <1>3, CountWithout
  <1>5. /\ Cardinality(ToSend(n)') \in Nat /\ Cardinality(ToSendInVain(n)') \in Nat
        /\ Cardinality(ToMark(n)') \in Nat /\ Cardinality(ToMarkAgain(n)') \in Nat
    <2>1. /\ ToSend(n) \ {s} \in SUBSET Sweepers /\ ToSendInVain(n) \ {s} \in SUBSET Sweepers
          /\ ToMark(n) \ {s} \in SUBSET Sweepers /\ ToMarkAgain(n) \ {s} \in SUBSET Sweepers
      BY <1>3
    <2> QED
      BY <2>1, CountSweepers
  <1>6. Allowance \in Nat /\ Allowance' \in Nat /\ Allowance' >= Allowance
    BY <1>1, AllowanceGrows DEF Spent
  <1>7. N \in Nat /\ N' = N
    BY CountSweepers DEF N
  <1>8. CASE note[n] = "FAILED"
    <2>1. /\ n \notin Bad => faults > 0
          /\ mails[n] + Cardinality(ToSendInVain(n))
               <= Cardinality(ToMarkAgain(n)) + faults + N - 1
          /\ n \in Bad => mails[n] = 0
      BY <1>8 DEF BudgetOf
    <2> QED
      BY <1>1, <1>2, <1>4, <1>5, <1>7, <1>8, <2>1 DEF BudgetOf
  <1>9. CASE note[n] # "FAILED"
    BY <1>1, <1>2, <1>4, <1>5, <1>6, <1>9 DEF BudgetOf
  <1> QED
    BY <1>8, <1>9

LEMMA InitIInv == Init => IInv
  <1> SUFFICES ASSUME Init PROVE IInv
    OBVIOUS
  <1>1. TypeOK
    BY DeliveryAssumption DEF Init, TypeOK, Statuses
  <1>2. HandsInv
    BY DEF Init, HandsInv, Held
  <1>3. \A n \in Notes : BudgetOf(n)
    BY DEF Init, BudgetOf
  <1> QED
    BY <1>1, <1>2, <1>3 DEF IInv

LEMMA CreateKeepsIInv ==
  ASSUME IInv, NEW n \in Notes, Create(n)
  PROVE  IInv'
  <1>1. TypeOK /\ HandsInv /\ note[n] = "ABSENT"
    BY DEF IInv, Create
  <1>2. /\ note' = [note EXCEPT ![n] = "PENDING"]
        /\ sweep' = sweep /\ mails' = mails /\ faults' = faults
    BY DEF Create
  <1>3. /\ note'[n] = "PENDING" /\ \A m \in Notes \ {n} : note'[m] = note[m]
    BY <1>1, <1>2 DEF TypeOK
  <1>4. TypeOK'
    BY <1>1, <1>2 DEF TypeOK, Statuses
  <1>5. \A s \in Sweepers : Held(sweep[s]) \subseteq Notes
    BY <1>1, Types DEF Held, Busy
  <1>6. \A s \in Sweepers : n \notin Held(sweep[s])
    BY <1>1 DEF HandsInv
  <1>7. HandsInv'
    <2> SUFFICES ASSUME NEW s \in Sweepers, NEW m \in Held(sweep'[s])
                 PROVE  /\ note'[m] # "ABSENT"
                        /\ note'[m] = "PENDING" => FromOf(sweep'[s], m) = "PENDING"
                        /\ Marking(sweep'[s], m) => m \notin Bad /\ mails'[m] > 0
                        /\ (sweep'[s].of = m /\ sweep'[s].at = "fail" /\ m \notin Bad)
                             => faults' > 0
      BY DEF HandsInv
    <2>1. m \in Held(sweep[s]) /\ m # n /\ m \in Notes
      BY <1>2, <1>5, <1>6
    <2> QED
      BY <1>1, <1>2, <1>3, <2>1 DEF HandsInv
  <1>8. ASSUME NEW m \in Notes PROVE BudgetOf(m)'
    <2>1. /\ ToSend(m)' = ToSend(m) /\ ToSendInVain(m)' = ToSendInVain(m)
          /\ ToMark(m)' = ToMark(m) /\ ToMarkAgain(m)' = ToMarkAgain(m)
      BY <1>2 DEF ToSend, ToSendInVain, ToMark, ToMarkAgain
    <2>2. CASE m # n
      BY <1>1, <1>2, <1>3, <2>1, <2>2, BudgetStays DEF IInv, Spent
    <2>3. CASE m = n
      <3>1. mails[n] = 0
        BY <1>1 DEF IInv, BudgetOf
      <3>2. Cardinality(ToMark(m)) \in Nat /\ faults \in Nat
        BY <1>1, Counts, DeliveryAssumption DEF TypeOK
      <3> QED
        BY <1>2, <1>3, <2>1, <2>3, <3>1, <3>2 DEF BudgetOf
    <2> QED
      BY <2>2, <2>3
  <1> QED
    BY <1>4, <1>7, <1>8 DEF IInv

\* A sweep that turns from one await to the next, at the same row.
LEMMA TurnHands ==
  ASSUME TypeOK, NEW s \in Sweepers, Busy(s), NEW x \in {"send", "mark", "fail"},
         NEW w, w = [sweep[s] EXCEPT !.at = x]
  PROVE  /\ w \in Process
         /\ Held(w) = Held(sweep[s])
         /\ w.of = sweep[s].of /\ w.at = x
         /\ \A n : FromOf(w, n) = FromOf(sweep[s], n)
         /\ \A n : n # sweep[s].of =>
              /\ Unsent(w, n) <=> Unsent(sweep[s], n)
              /\ Marking(w, n) <=> Marking(sweep[s], n)
         /\ Unsent(w, w.of) <=> x = "send"
         /\ Marking(w, w.of) <=> x = "mark"
  <1>1. sweep[s] \in Working /\ sweep[s].of \notin DOMAIN sweep[s].rest
    BY DEF TypeOK, Busy
  <1>2. w \in Working /\ w.of = sweep[s].of /\ w.at = x /\ w.from = sweep[s].from
        /\ w.rest = sweep[s].rest
    BY <1>1 DEF Working
  <1>3. w # Idle /\ sweep[s] # Idle
    BY <1>2 DEF Idle, Busy
  <1>4. w \in Process
    BY <1>1, <1>2 DEF Process
  <1>5. Held(w) = Held(sweep[s]) /\ w.of \in Held(w)
    BY <1>2, <1>3 DEF Held
  <1>6. \A n : FromOf(w, n) = FromOf(sweep[s], n)
    BY <1>2 DEF FromOf
  <1> QED
    BY <1>2, <1>4, <1>5, <1>6 DEF Unsent, Marking

LEMMA TurnOthers ==
  ASSUME TypeOK, NEW s \in Sweepers, Busy(s), NEW x \in {"send", "mark", "fail"},
         NEW w, w = [sweep[s] EXCEPT !.at = x], sweep' = [sweep EXCEPT ![s] = w],
         NEW n \in Notes, n # sweep[s].of
  PROVE  /\ ToSend(n)' = ToSend(n) /\ ToSendInVain(n)' = ToSendInVain(n)
         /\ ToMark(n)' = ToMark(n) /\ ToMarkAgain(n)' = ToMarkAgain(n)
  <1>1. /\ Unsent(w, n) <=> Unsent(sweep[s], n)
        /\ Marking(w, n) <=> Marking(sweep[s], n)
        /\ FromOf(w, n) = FromOf(sweep[s], n)
    BY TurnHands
  <1>2. Unsent(w, n) <=> Unsent(sweep[s], n)
    BY <1>1
  <1>3. Marking(w, n) <=> Marking(sweep[s], n)
    BY <1>1
  <1>4. Unsent(w, n) \/ Marking(w, n) => FromOf(w, n) = FromOf(sweep[s], n)
    BY <1>1
  <1> QED
    BY <1>2, <1>3, <1>4, SameHands

\* A sweep that is done with its row and goes on.
LEMMA FinishHands ==
  ASSUME TypeOK, NEW s \in Sweepers, Busy(s), NEW w \in GoOn(sweep[s].rest)
  PROVE  /\ w \in Process
         /\ Held(w) = Held(sweep[s]) \ {sweep[s].of}
         /\ w # Idle => w.at = "send"
         /\ \A n \in Notes : n # sweep[s].of =>
              /\ Unsent(w, n) <=> Unsent(sweep[s], n)
              /\ Unsent(w, n) => FromOf(w, n) = FromOf(sweep[s], n)
              /\ ~Marking(sweep[s], n)
         /\ \A n \in Notes : ~Marking(w, n)
         /\ ~Unsent(w, sweep[s].of)
  <1>1. /\ DOMAIN sweep[s].rest \in SUBSET Notes
        /\ sweep[s].rest \in [DOMAIN sweep[s].rest -> Read]
        /\ sweep[s].of \notin DOMAIN sweep[s].rest
        /\ Held(sweep[s]) = {sweep[s].of} \cup DOMAIN sweep[s].rest
    BY Types
  <1> DEFINE D == DOMAIN sweep[s].rest
             rows == sweep[s].rest
  <1>2. D \in SUBSET Notes /\ rows \in [D -> Read] /\ w \in GoOn(rows)
    BY <1>1
  <1>3. /\ w \in Process
        /\ Held(w) = D
        /\ \A n \in D : FromOf(w, n) = rows[n] /\ Unsent(w, n)
        /\ \A n \in Notes : ~Marking(w, n)
        /\ w # Idle => w.at = "send"
    <2> HIDE DEF D, rows
    <2> QED
      BY <1>2, GoOnHands
  <1>4. ASSUME NEW n \in Notes, n # sweep[s].of
        PROVE  /\ Unsent(w, n) <=> Unsent(sweep[s], n)
               /\ Unsent(w, n) => FromOf(w, n) = FromOf(sweep[s], n)
               /\ ~Marking(sweep[s], n)
    <2>1. Unsent(w, n) <=> n \in D
      BY <1>3 DEF Unsent
    <2>2. Unsent(sweep[s], n) <=> n \in D
      BY <1>1, <1>4 DEF Unsent
    <2>3. n \in D => FromOf(w, n) = FromOf(sweep[s], n)
      BY <1>3, <1>4 DEF FromOf
    <2> QED
      BY <2>1, <2>2, <2>3, <1>4 DEF Marking
  <1>5. ~Unsent(w, sweep[s].of)
    BY <1>1, <1>3 DEF Unsent
  <1> QED
    BY <1>1, <1>3, <1>4, <1>5

LEMMA NowSent ==
  ASSUME TypeOK, NEW n \in Notes, BudgetOf(n), Spent, NEW s \in ToMark(n),
         note[n] \in Read, n \notin Bad, mails[n] > 0,
         note[n] = "FAILED" => s \in ToMarkAgain(n),
         note'[n] = "SENT", mails'[n] = mails[n], ToSend(n)' = ToSend(n)
  PROVE  BudgetOf(n)'
  <1>1. faults \in Nat /\ mails[n] \in Nat
    BY DeliveryAssumption DEF TypeOK
  <1>2. /\ Cardinality(ToSend(n)) \in Nat /\ Cardinality(ToSendInVain(n)) \in Nat
        /\ Cardinality(ToMark(n)) \in Nat /\ Cardinality(ToMarkAgain(n)) \in Nat
    BY Counts
  <1>3. N \in Nat \ {0}
    BY CountSweepers
  <1>4. /\ Allowance' >= Allowance /\ Allowance >= N + faults
        /\ Allowance \in Nat /\ Allowance' \in Nat
        /\ faults > 0 => Allowance = 2 * N - 1 + faults
    BY <1>1, AllowanceGrows DEF Spent
  <1>5. mails[n] + Cardinality(ToSend(n)) <= Allowance
    <2>1. CASE note[n] = "PENDING"
      <3>1. mails[n] <= Cardinality(ToMark(n)) + faults
        BY <2>1 DEF BudgetOf
      <3>2. Cardinality(ToMark(n)) + Cardinality(ToSend(n)) <= N
        BY Subsets, CountApart
      <3> QED
        BY <1>1, <1>2, <1>3, <1>4, <3>1, <3>2
    <2>2. CASE note[n] = "FAILED"
      <3> DEFINE rest == ToSend(n) \ ToSendInVain(n)
      <3>1. /\ faults > 0
            /\ mails[n] + Cardinality(ToSendInVain(n))
                 <= Cardinality(ToMarkAgain(n)) + faults + N - 1
        BY <2>2 DEF BudgetOf
      <3>2. rest \in SUBSET Sweepers /\ ToMarkAgain(n) \in SUBSET Sweepers
            /\ rest \cap ToMarkAgain(n) = {}
        BY Subsets
      <3>3. Cardinality(rest) + Cardinality(ToMarkAgain(n)) <= N
        <4> HIDE DEF rest
        <4> QED
          BY <3>2, CountApart
      <3>4. Cardinality(ToSend(n)) = Cardinality(rest) + Cardinality(ToSendInVain(n))
        <4>1. /\ ToSend(n) \cap ToSendInVain(n) = ToSendInVain(n)
              /\ IsFiniteSet(ToSend(n))
          BY Subsets, CountSweepers
        <4>2. Cardinality(rest) = Cardinality(ToSend(n)) - Cardinality(ToSend(n) \cap ToSendInVain(n))
          BY <4>1, FS_Difference
        <4>3. Cardinality(ToSend(n) \cap ToSendInVain(n)) = Cardinality(ToSendInVain(n))
          BY <4>1, Zenon
        <4> HIDE DEF rest
        <4> QED
          BY <1>2, <4>2, <4>3
      <3>5. Cardinality(rest) \in Nat
        BY <3>2, CountSweepers
      <3> HIDE DEF rest
      <3> QED
        BY <1>1, <1>2, <1>3, <1>4, <3>1, <3>3, <3>4, <3>5
    <2> QED
      BY <2>1, <2>2 DEF Read
  <1> QED
    BY <1>1, <1>2, <1>4, <1>5 DEF BudgetOf

LEMMA NowFailed ==
  ASSUME TypeOK, NEW n \in Notes, BudgetOf(n), faults' = faults, NEW s \in Sweepers,
         s \notin ToSend(n), s \notin ToMark(n), note[n] = "PENDING",
         n \notin Bad => faults > 0,
         note'[n] = "FAILED", mails'[n] = mails[n],
         ToSendInVain(n)' = ToSendInVain(n), ToMarkAgain(n)' = ToMarkAgain(n)
  PROVE  BudgetOf(n)'
  <1>1. faults \in Nat /\ mails[n] \in Nat
    BY DeliveryAssumption DEF TypeOK
  <1>2. /\ Cardinality(ToSend(n)) \in Nat /\ Cardinality(ToSendInVain(n)) \in Nat
        /\ Cardinality(ToMark(n)) \in Nat /\ Cardinality(ToMarkAgain(n)) \in Nat
        /\ Cardinality(ToSendInVain(n)) <= Cardinality(ToSend(n))
    BY Counts
  <1>3. N \in Nat \ {0} /\ N' = N
    BY CountSweepers DEF N
  <1>4. mails[n] <= Cardinality(ToMark(n)) + faults /\ (n \in Bad => mails[n] = 0)
    BY DEF BudgetOf
  <1>5. Cardinality(ToSend(n)) + Cardinality(ToMark(n)) <= N - 1
    BY Subsets, CountApart
  <1>6. mails[n] + Cardinality(ToSendInVain(n)) <= Cardinality(ToMarkAgain(n)) + faults + N - 1
    BY <1>1, <1>2, <1>3, <1>4, <1>5
  <1> QED
    BY <1>3, <1>4, <1>6 DEF BudgetOf

LEMMA StartKeepsIInv ==
  ASSUME IInv, NEW s \in Sweepers, Start(s)
  PROVE  IInv'
  <1>1. TypeOK /\ HandsInv /\ sweep[s] = Idle
    BY DEF IInv, Start, Busy
  <1>2. note' = note /\ mails' = mails /\ faults' = faults
    BY DEF Start
  <1>3. PICK w \in GoOn([n \in Batch |-> note[n]]) : sweep' = [sweep EXCEPT ![s] = w]
    BY DEF Start
  <1> DEFINE rows == [n \in Batch |-> note[n]]
  <1>4. Batch \in SUBSET Notes /\ \A n \in Batch : note[n] \in Read
    BY DEF Batch, Due, Retryable, Read
  <1>5. rows \in [Batch -> Read] /\ w \in GoOn(rows)
    BY <1>3, <1>4
  <1>6. /\ w \in Process
        /\ Held(w) = Batch
        /\ \A n \in Batch : FromOf(w, n) = rows[n] /\ Unsent(w, n)
        /\ \A n \in Notes : ~Marking(w, n)
        /\ w # Idle => w.at = "send"
    <2> HIDE DEF rows
    <2> QED
      BY <1>4, <1>5, GoOnHands
  <1>7. \A n \in Batch : FromOf(w, n) = note[n]
    BY <1>6
  <1>8. TypeOK'
    BY <1>1, <1>2, <1>3, <1>6 DEF TypeOK, Process
  <1>9. Held(sweep[s]) = {}
    BY <1>1 DEF Held
  <1>10. HandsInv'
    <2>1. \A n \in Held(w) :
            /\ note'[n] # "ABSENT" /\ FromOf(w, n) = note'[n]
            /\ ~Marking(w, n) /\ w.at # "fail"
      BY <1>2, <1>4, <1>6, <1>7 DEF Read, Held
    <2>2. faults \in Nat /\ \A n \in Notes : mails[n] \in Nat
      BY <1>1, Types
    <2>3. Onward
      BY <1>2, <2>2 DEF Onward
    <2>4. Taken(s, w)
      BY <1>9, <2>1 DEF Taken
    <2> QED
      BY <1>1, <1>3, <2>3, <2>4, HandsStay
  <1>11. ASSUME NEW n \in Notes PROVE BudgetOf(n)'
    <2>1. BudgetOf(n) /\ Spent
      BY <1>2 DEF IInv, Spent
    <2>2. ~Unsent(sweep[s], n) /\ ~Marking(sweep[s], n) /\ ~Marking(w, n)
      BY <1>6, <1>9 DEF Unsent, Marking
    <2>3. CASE n \notin Batch
      <3>1. ~Unsent(w, n)
        BY <1>6, <2>3 DEF Unsent
      <3>2. /\ ToSend(n)' = ToSend(n) /\ ToSendInVain(n)' = ToSendInVain(n)
            /\ ToMark(n)' = ToMark(n) /\ ToMarkAgain(n)' = ToMarkAgain(n)
        BY <1>1, <1>3, <2>2, <3>1, SameHands
      <3> QED
        BY <1>1, <1>2, <2>1, <3>2, BudgetStays
    <2>4. CASE n \in Batch
      <3>1. sweep'[s] = w /\ \A t \in Sweepers \ {s} : sweep'[t] = sweep[t]
        BY <1>1, <1>3 DEF TypeOK
      <3>2. /\ ToMark(n)' = ToMark(n) /\ ToMarkAgain(n)' = ToMarkAgain(n)
        BY <2>2, <3>1 DEF ToMark, ToMarkAgain
      <3>3. note[n] = "FAILED" => ToSendInVain(n)' = ToSendInVain(n)
        <4> SUFFICES ASSUME note[n] = "FAILED" PROVE ToSendInVain(n)' = ToSendInVain(n)
          OBVIOUS
        <4>1. FromOf(w, n) = "FAILED"
          BY <1>7, <2>4
        <4> QED
          BY <2>2, <3>1, <4>1 DEF ToSendInVain, ToSend
      <3>4. note[n] \in Read
        BY <1>4, <2>4
      <3>5. N' = N
        BY DEF N
      <3> QED
        BY <1>2, <2>1, <3>2, <3>3, <3>4, <3>5 DEF BudgetOf, Read
    <2> QED
      BY <2>3, <2>4
  <1> QED
    BY <1>8, <1>10, <1>11 DEF IInv

\* The parts of the invariant that a turn to the next await of s disturbs.
LEMMA TurnKeeps ==
  ASSUME IInv, NEW s \in Sweepers, Busy(s), NEW x \in {"mark", "fail"}, Spent,
         NEW row, row = sweep[s].of,
         sweep' = [sweep EXCEPT ![s].at = x], faults' \in 0..MaxFaults,
         mails' \in [Notes -> Nat], note' \in [Notes -> Statuses],
         \A n \in Notes : n # row => note'[n] = note[n] /\ mails'[n] = mails[n],
         mails'[row] >= mails[row],
         note[row] # "ABSENT" => note'[row] # "ABSENT",
         note'[row] = "PENDING" => note[row] = "PENDING",
         x = "mark" => row \notin Bad /\ mails'[row] > 0,
         x = "fail" => row \in Bad \/ faults' > 0,
         BudgetOf(row)'
  PROVE  IInv'
  <1>1. TypeOK /\ HandsInv
    BY DEF IInv
  <1> PICK w : w = [sweep[s] EXCEPT !.at = x]
    OBVIOUS
  <1>2. sweep' = [sweep EXCEPT ![s] = w]
    OBVIOUS
  <1>3. /\ w \in Process
        /\ Held(w) = Held(sweep[s])
        /\ w.of = row /\ w.at = x
        /\ \A n : FromOf(w, n) = FromOf(sweep[s], n)
        /\ \A n : n # row =>
             /\ Unsent(w, n) <=> Unsent(sweep[s], n)
             /\ Marking(w, n) <=> Marking(sweep[s], n)
    BY <1>1, TurnHands
  <1>4. row \in Notes /\ faults \in Nat /\ \A n \in Notes : mails[n] \in Nat
    BY <1>1, Types
  <1>5. TypeOK'
    BY <1>1, <1>2, <1>3 DEF TypeOK, Process
  <1>6. faults' >= faults /\ faults' \in Nat
    BY <1>4 DEF Spent
  <1>7. HandsInv'
    <2>1. \A n \in Notes :
            /\ mails'[n] \in Nat /\ mails'[n] >= mails[n]
            /\ note[n] # "ABSENT" => note'[n] # "ABSENT"
            /\ note'[n] = "PENDING" => note[n] = "PENDING"
      BY <1>4
    <2>2. \A n \in Held(w) :
            /\ n \in Held(sweep[s]) /\ FromOf(w, n) = FromOf(sweep[s], n)
            /\ Marking(w, n) => n \notin Bad /\ mails'[n] > 0
            /\ (w.of = n /\ w.at = "fail" /\ n \notin Bad) => faults' > 0
      BY <1>3 DEF Marking
    <2>3. Onward
      BY <1>6, <2>1 DEF Onward
    <2>4. Taken(s, w)
      BY <2>2 DEF Taken
    <2> QED
      BY <1>1, <1>2, <2>3, <2>4, HandsStay
  <1>8. ASSUME NEW n \in Notes PROVE BudgetOf(n)'
    <2>1. CASE n = row
      BY <2>1
    <2>2. CASE n # row
      <3>1. /\ ToSend(n)' = ToSend(n) /\ ToSendInVain(n)' = ToSendInVain(n)
            /\ ToMark(n)' = ToMark(n) /\ ToMarkAgain(n)' = ToMarkAgain(n)
        BY <1>1, <1>2, <2>2, TurnOthers
      <3>2. BudgetOf(n) /\ note'[n] = note[n] /\ mails'[n] = mails[n]
        BY <2>2 DEF IInv
      <3> QED
        BY <1>1, <3>1, <3>2, BudgetStays
    <2> QED
      BY <2>1, <2>2
  <1> QED
    BY <1>5, <1>7, <1>8 DEF IInv

LEMMA CrashKeepsIInv ==
  ASSUME IInv, NEW s \in Sweepers, Crash(s)
  PROVE  IInv'
  <1>1. TypeOK /\ HandsInv
    BY DEF IInv
  <1>2. /\ note' = note /\ mails' = mails /\ faults' = faults + 1 /\ faults < MaxFaults
        /\ sweep' = [sweep EXCEPT ![s] = Idle]
    BY DEF Crash, Fault
  <1>3. faults \in Nat /\ \A n \in Notes : mails[n] \in Nat
    BY <1>1, Types
  <1>4. TypeOK'
    <2>1. faults' \in 0..MaxFaults
      BY <1>2, <1>3, DeliveryAssumption
    <2> QED
      BY <1>1, <1>2, <2>1 DEF TypeOK
  <1>5. Held(Idle) = {}
    BY DEF Held
  <1>6. HandsInv'
    <2>1. Onward /\ Taken(s, Idle)
      BY <1>2, <1>3, <1>5 DEF Onward, Taken
    <2> QED
      BY <1>1, <1>2, <2>1, HandsStay
  <1>7. ASSUME NEW n \in Notes PROVE BudgetOf(n)'
    <2>1. ~Unsent(Idle, n) /\ ~Marking(Idle, n)
      BY <1>5 DEF Unsent, Marking
    <2>2. /\ ToSend(n)' = ToSend(n) \ {s} /\ ToSendInVain(n)' = ToSendInVain(n) \ {s}
          /\ ToMark(n)' = ToMark(n) \ {s} /\ ToMarkAgain(n)' = ToMarkAgain(n) \ {s}
      BY <1>1, <1>2, <2>1, FewerHands
    <2>3. BudgetOf(n)
      BY DEF IInv
    <2> QED
      BY <1>1, <1>2, <2>2, <2>3, BudgetWithout
  <1> QED
    BY <1>4, <1>6, <1>7 DEF IInv

\* The sets of s's own row when s turns from "send".
LEMMA SendHands ==
  ASSUME IInv, NEW s \in Sweepers, sweep[s].at = "send", NEW x \in {"mark", "fail"},
         sweep' = [sweep EXCEPT ![s].at = x], NEW n, n = sweep[s].of
  PROVE  /\ n \in Notes /\ s \in ToSend(n) /\ s \notin ToMark(n)
         /\ ToSend(n)' = ToSend(n) \ {s} /\ ToSendInVain(n)' = ToSendInVain(n) \ {s}
         /\ x = "fail" => ToMark(n)' = ToMark(n) /\ ToMarkAgain(n)' = ToMarkAgain(n)
         /\ x = "mark" =>
              /\ ToMark(n)' = ToMark(n) \cup {s}
              /\ IF sweep[s].from = "PENDING"
                 THEN /\ s \in ToSendInVain(n)
                      /\ ToMarkAgain(n)' = ToMarkAgain(n)
                 ELSE /\ s \notin ToSendInVain(n)
                      /\ s \notin ToMarkAgain(n)
                      /\ ToMarkAgain(n)' = ToMarkAgain(n) \cup {s}
         /\ note[n] = "PENDING" => sweep[s].from = "PENDING"
         /\ note[n] # "ABSENT"
  <1>1. TypeOK /\ HandsInv
    BY DEF IInv
  <1>2. Busy(s)
    BY DEF Busy, Idle
  <1> PICK w : w = [sweep[s] EXCEPT !.at = x]
    OBVIOUS
  <1>3. sweep'[s] = w /\ \A t \in Sweepers \ {s} : sweep'[t] = sweep[t]
    BY <1>1 DEF TypeOK
  <1>4. /\ Held(w) = Held(sweep[s]) /\ w.of = n
        /\ FromOf(w, n) = FromOf(sweep[s], n)
        /\ ~Unsent(w, n)
        /\ Marking(w, n) <=> x = "mark"
    BY <1>1, <1>2, TurnHands
  <1>5. /\ n \in Notes /\ n \in Held(sweep[s]) /\ sweep[s].from \in Read
        /\ FromOf(sweep[s], n) = sweep[s].from
    BY <1>1, <1>2, Types
  <1>6. Unsent(sweep[s], n) /\ ~Marking(sweep[s], n)
    BY <1>5 DEF Unsent, Marking
  <1>7. \A t \in Sweepers \ {s} :
          /\ Unsent(sweep[t], n)' <=> Unsent(sweep[t], n)
          /\ Marking(sweep[t], n)' <=> Marking(sweep[t], n)
          /\ FromOf(sweep[t], n)' = FromOf(sweep[t], n)
    BY <1>3
  <1>8. /\ ~Unsent(sweep[s], n)' /\ (Marking(sweep[s], n)' <=> x = "mark")
        /\ FromOf(sweep[s], n)' = sweep[s].from
    BY <1>3, <1>4, <1>5
  <1>9. s \in ToSend(n) /\ s \notin ToMark(n) /\ s \notin ToMarkAgain(n)
        /\ (s \in ToSendInVain(n) <=> sweep[s].from = "PENDING")
    BY <1>5, <1>6 DEF ToSend, ToMark, ToSendInVain, ToMarkAgain
  <1>10. ToSend(n)' = ToSend(n) \ {s} /\ ToSendInVain(n)' = ToSendInVain(n) \ {s}
    BY <1>7, <1>8 DEF ToSend, ToSendInVain
  <1>11. x = "fail" => ToMark(n)' = ToMark(n) /\ ToMarkAgain(n)' = ToMarkAgain(n)
    BY <1>6, <1>7, <1>8 DEF ToMark, ToMarkAgain
  <1>12. x = "mark" => ToMark(n)' = ToMark(n) \cup {s}
    BY <1>6, <1>7, <1>8 DEF ToMark
  <1>13. x = "mark" => ToMarkAgain(n)' = IF sweep[s].from = "PENDING" THEN ToMarkAgain(n)
                                        ELSE ToMarkAgain(n) \cup {s}
    BY <1>5, <1>6, <1>7, <1>8 DEF ToMark, ToMarkAgain, Read
  <1>14. note[n] # "ABSENT" /\ (note[n] = "PENDING" => sweep[s].from = "PENDING")
    BY <1>1, <1>5 DEF HandsInv
  <1> QED
    BY <1>5, <1>9, <1>10, <1>11, <1>12, <1>13, <1>14

LEMMA SendKeepsIInv ==
  ASSUME IInv, NEW s \in Sweepers, Send(s)
  PROVE  IInv'
  <1>1. TypeOK /\ sweep[s].at = "send" /\ note' = note /\ faults' = faults
    BY DEF IInv, Send
  <1>2. Busy(s)
    BY <1>1 DEF Busy, Idle
  <1> PICK n : n = sweep[s].of
    OBVIOUS
  <1>3. n \in Notes /\ faults \in Nat /\ mails[n] \in Nat /\ faults \in 0..MaxFaults
    BY <1>1, <1>2, Types DEF TypeOK
  <1>4. BudgetOf(n)
    BY <1>3 DEF IInv
  <1>5. /\ Cardinality(ToSend(n)) \in Nat /\ Cardinality(ToSendInVain(n)) \in Nat
        /\ Cardinality(ToMark(n)) \in Nat /\ Cardinality(ToMarkAgain(n)) \in Nat
    BY <1>3, Counts
  <1>6. /\ ToSend(n) \in SUBSET Sweepers /\ ToSendInVain(n) \in SUBSET Sweepers
        /\ ToMark(n) \in SUBSET Sweepers /\ ToMarkAgain(n) \in SUBSET Sweepers
    BY <1>3, Subsets
  <1>7. N \in Nat /\ N' = N /\ Allowance \in Nat /\ Allowance' = Allowance
    BY <1>1, CountSweepers, AllowanceGrows DEF N, Spent, Allowance
  <1>8. CASE n \notin Bad
    <2>1. /\ sweep' = [sweep EXCEPT ![s].at = "mark"]
          /\ mails' = [mails EXCEPT ![n] = @ + 1]
      BY <1>8 DEF Send
    <2>2. /\ mails'[n] = mails[n] + 1 /\ mails' \in [Notes -> Nat]
          /\ \A m \in Notes \ {n} : mails'[m] = mails[m]
      BY <1>1, <1>3, <2>1 DEF TypeOK
    <2>3. /\ s \in ToSend(n) /\ s \notin ToMark(n)
          /\ ToSend(n)' = ToSend(n) \ {s} /\ ToSendInVain(n)' = ToSendInVain(n) \ {s}
          /\ ToMark(n)' = ToMark(n) \cup {s}
          /\ IF sweep[s].from = "PENDING"
             THEN s \in ToSendInVain(n) /\ ToMarkAgain(n)' = ToMarkAgain(n)
             ELSE /\ s \notin ToSendInVain(n)
                  /\ s \notin ToMarkAgain(n)
                  /\ ToMarkAgain(n)' = ToMarkAgain(n) \cup {s}
          /\ note[n] = "PENDING" => sweep[s].from = "PENDING"
          /\ note[n] # "ABSENT"
      BY <1>1, <2>1, SendHands
    <2>4. /\ Cardinality(ToSend(n)') = Cardinality(ToSend(n)) - 1
          /\ Cardinality(ToMark(n)') = Cardinality(ToMark(n)) + 1
      BY <1>6, <2>3, CountWithout, CountWith
    <2>5. Cardinality(ToSendInVain(n)') - Cardinality(ToMarkAgain(n)')
            = Cardinality(ToSendInVain(n)) - Cardinality(ToMarkAgain(n)) - 1
      <3>1. CASE sweep[s].from = "PENDING"
        <4>1. Cardinality(ToSendInVain(n)') = Cardinality(ToSendInVain(n)) - 1
          BY <1>6, <2>3, <3>1, CountWithout
        <4>2. ToMarkAgain(n)' = ToMarkAgain(n)
          BY <2>3, <3>1
        <4> QED
          BY <1>5, <4>1, <4>2
      <3>2. CASE sweep[s].from # "PENDING"
        <4>1. ToSendInVain(n)' = ToSendInVain(n)
          BY <1>6, <2>3, <3>2, CountWithout
        <4>2. Cardinality(ToMarkAgain(n)') = Cardinality(ToMarkAgain(n)) + 1
          BY <1>6, <2>3, <3>2, CountWith
        <4> QED
          BY <1>5, <4>1, <4>2
      <3> QED
        BY <3>1, <3>2
    <2>6. Cardinality(ToSendInVain(n)') \in Int /\ Cardinality(ToMarkAgain(n)') \in Int
      <3>1. ToSendInVain(n)' \in SUBSET Sweepers /\ ToMarkAgain(n)' \in SUBSET Sweepers
        BY <1>6, <2>3
      <3> QED
        BY <3>1, CountSweepers
    <2>7. BudgetOf(n)'
      <3>1. CASE note[n] = "FAILED"
        <4>1. /\ n \notin Bad => faults > 0
              /\ mails[n] + Cardinality(ToSendInVain(n))
                   <= Cardinality(ToMarkAgain(n)) + faults + N - 1
          BY <1>4, <3>1 DEF BudgetOf
        <4>2. mails'[n] + Cardinality(ToSendInVain(n)')
                <= Cardinality(ToMarkAgain(n)') + faults + N - 1
          BY <1>3, <1>5, <1>7, <2>2, <2>5, <2>6, <4>1
        <4> QED
          BY <1>1, <1>7, <1>8, <3>1, <4>1, <4>2 DEF BudgetOf
      <3>2. CASE note[n] # "FAILED"
        BY <1>1, <1>3, <1>4, <1>5, <1>7, <1>8, <2>2, <2>3, <2>4, <3>2 DEF BudgetOf
      <3> QED
        BY <3>1, <3>2
    <2> QED
      <3>1. /\ Spent /\ faults' \in 0..MaxFaults
            /\ note' \in [Notes -> Statuses] /\ mails' \in [Notes -> Nat]
            /\ \A m \in Notes : m # n => note'[m] = note[m] /\ mails'[m] = mails[m]
            /\ mails'[n] >= mails[n] /\ mails'[n] > 0
        BY <1>1, <1>3, <2>2 DEF TypeOK, Spent
      <3> QED
        BY <1>1, <1>2, <1>8, <2>1, <2>7, <3>1, TurnKeeps
  <1>9. CASE n \in Bad
    <2>1. sweep' = [sweep EXCEPT ![s].at = "fail"] /\ mails' = mails
      BY <1>9 DEF Send
    <2>2. /\ ToSend(n)' = ToSend(n) \ {s} /\ ToSendInVain(n)' = ToSendInVain(n) \ {s}
          /\ ToMark(n)' = ToMark(n) /\ ToMarkAgain(n)' = ToMarkAgain(n)
      BY <1>1, <2>1, SendHands
    <2>3. /\ Cardinality(ToSend(n)') <= Cardinality(ToSend(n))
          /\ Cardinality(ToSendInVain(n)') <= Cardinality(ToSendInVain(n))
      BY <1>6, <2>2, CountWithout
    <2>4. Cardinality(ToSend(n)') \in Nat /\ Cardinality(ToSendInVain(n)') \in Nat
      <3>1. ToSend(n)' \in SUBSET Sweepers /\ ToSendInVain(n)' \in SUBSET Sweepers
        BY <1>6, <2>2
      <3> QED
        BY <3>1, CountSweepers
    <2>5. BudgetOf(n)'
      BY <1>1, <1>3, <1>4, <1>5, <1>7, <1>9, <2>1, <2>2, <2>3, <2>4 DEF BudgetOf
    <2> QED
      <3>1. /\ Spent /\ faults' \in 0..MaxFaults
            /\ note' \in [Notes -> Statuses] /\ mails' \in [Notes -> Nat]
            /\ \A m \in Notes : m # n => note'[m] = note[m] /\ mails'[m] = mails[m]
            /\ mails'[n] >= mails[n]
        BY <1>1, <1>3, <2>1 DEF TypeOK, Spent
      <3> QED
        BY <1>1, <1>2, <1>9, <2>1, <2>5, <3>1, TurnKeeps
  <1> QED
    BY <1>8, <1>9

LEMMA SendThrowsKeepsIInv ==
  ASSUME IInv, NEW s \in Sweepers, SendThrows(s)
  PROVE  IInv'
  <1>1. /\ TypeOK /\ sweep[s].at = "send" /\ note' = note
        /\ faults' = faults + 1 /\ faults < MaxFaults
        /\ sweep' = [sweep EXCEPT ![s].at = "fail"]
    BY DEF IInv, SendThrows, Fault
  <1>2. Busy(s)
    BY <1>1 DEF Busy, Idle
  <1> PICK n : n = sweep[s].of
    OBVIOUS
  <1>3. n \in Notes /\ n \notin Bad /\ faults \in Nat /\ mails[n] \in Nat
    BY <1>1, <1>2, Types DEF SendThrows
  <1>4. /\ mails' \in [Notes -> Nat] /\ mails'[n] \in {mails[n], mails[n] + 1}
        /\ \A m \in Notes \ {n} : mails'[m] = mails[m]
    BY <1>1, <1>3 DEF SendThrows, TypeOK
  <1>5. BudgetOf(n)
    BY <1>3 DEF IInv
  <1>6. /\ s \in ToSend(n)
        /\ ToSend(n)' = ToSend(n) \ {s} /\ ToSendInVain(n)' = ToSendInVain(n) \ {s}
        /\ ToMark(n)' = ToMark(n) /\ ToMarkAgain(n)' = ToMarkAgain(n)
        /\ note[n] # "ABSENT"
    BY <1>1, SendHands
  <1>7. /\ Cardinality(ToSend(n)) \in Nat /\ Cardinality(ToSendInVain(n)) \in Nat
        /\ Cardinality(ToMark(n)) \in Nat /\ Cardinality(ToMarkAgain(n)) \in Nat
    BY <1>3, Counts
  <1>8. /\ ToSend(n) \in SUBSET Sweepers /\ ToSendInVain(n) \in SUBSET Sweepers
        /\ ToSend(n)' \in SUBSET Sweepers /\ ToSendInVain(n)' \in SUBSET Sweepers
    BY <1>3, <1>6, Subsets
  <1>9. /\ Cardinality(ToSend(n)') = Cardinality(ToSend(n)) - 1
        /\ Cardinality(ToSendInVain(n)') <= Cardinality(ToSendInVain(n))
        /\ Cardinality(ToSendInVain(n)') \in Nat
    BY <1>6, <1>8, CountWithout, CountSweepers
  <1>10. /\ N \in Nat /\ N' = N /\ Spent
         /\ Allowance \in Nat /\ Allowance' \in Nat /\ Allowance' >= Allowance
    <2>1. Spent
      BY <1>1 DEF Spent
    <2> QED
      BY <1>1, <1>3, <2>1, CountSweepers, AllowanceGrows DEF N
  <1>11. BudgetOf(n)'
    <2>1. CASE note[n] = "FAILED"
      <3>1. mails[n] + Cardinality(ToSendInVain(n))
              <= Cardinality(ToMarkAgain(n)) + faults + N - 1
        BY <1>5, <2>1 DEF BudgetOf
      <3>2. mails'[n] + Cardinality(ToSendInVain(n)')
              <= Cardinality(ToMarkAgain(n)') + faults' + N - 1
        BY <1>1, <1>3, <1>4, <1>6, <1>7, <1>9, <1>10, <3>1
      <3>3. faults' > 0
        BY <1>1, <1>3
      <3> QED
        BY <1>1, <1>3, <1>10, <2>1, <3>2, <3>3 DEF BudgetOf
    <2>2. CASE note[n] # "FAILED"
      BY <1>1, <1>3, <1>4, <1>5, <1>6, <1>7, <1>9, <1>10, <2>2 DEF BudgetOf
    <2> QED
      BY <2>1, <2>2
  <1>12. /\ faults' \in 0..MaxFaults /\ faults' > 0
         /\ note' \in [Notes -> Statuses]
         /\ \A m \in Notes : m # n => note'[m] = note[m] /\ mails'[m] = mails[m]
         /\ mails'[n] >= mails[n]
    BY <1>1, <1>3, <1>4, DeliveryAssumption DEF TypeOK
  <1> QED
    BY <1>1, <1>2, <1>4, <1>10, <1>11, <1>12, TurnKeeps

LEMMA MarkThrowsKeepsIInv ==
  ASSUME IInv, NEW s \in Sweepers, MarkThrows(s)
  PROVE  IInv'
  <1>1. /\ TypeOK /\ HandsInv /\ sweep[s].at = "mark" /\ mails' = mails
        /\ faults' = faults + 1 /\ faults < MaxFaults
        /\ sweep' = [sweep EXCEPT ![s].at = "fail"]
    BY DEF IInv, MarkThrows, Fault
  <1>2. Busy(s)
    BY <1>1 DEF Busy, Idle
  <1> PICK n : n = sweep[s].of
    OBVIOUS
  <1>3. /\ n \in Notes /\ faults \in Nat /\ mails[n] \in Nat /\ n \in Held(sweep[s])
        /\ sweep[s].from \in Read /\ FromOf(sweep[s], n) = sweep[s].from
    BY <1>1, <1>2, Types
  <1>4. /\ note' \in [Notes -> Statuses]
        /\ \A m \in Notes \ {n} : note'[m] = note[m]
        /\ \/ note'[n] = note[n]
           \/ note[n] = sweep[s].from /\ note'[n] = "SENT"
    BY <1>1, <1>3 DEF MarkThrows, Claimed, TypeOK, Statuses
  <1>5. Marking(sweep[s], n) /\ ~Unsent(sweep[s], n)
    BY <1>1, <1>3 DEF Marking, Unsent
  <1>6. note[n] # "ABSENT" /\ n \notin Bad /\ mails[n] > 0
    BY <1>1, <1>3, <1>5 DEF HandsInv
  <1>7. PICK w : w = [sweep[s] EXCEPT !.at = "fail"] /\ sweep' = [sweep EXCEPT ![s] = w]
    BY <1>1
  <1>8. ~Unsent(w, n) /\ ~Marking(w, n)
    BY <1>1, <1>2, <1>7, TurnHands
  <1>9. /\ ToSend(n)' = ToSend(n) \ {s} /\ ToSendInVain(n)' = ToSendInVain(n) \ {s}
        /\ ToMark(n)' = ToMark(n) \ {s} /\ ToMarkAgain(n)' = ToMarkAgain(n) \ {s}
    BY <1>1, <1>3, <1>7, <1>8, FewerHands
  <1>10. s \in ToMark(n) /\ s \notin ToSend(n)
    BY <1>5 DEF ToMark, ToSend
  <1>11. BudgetOf(n) /\ Spent
    BY <1>1, <1>3 DEF IInv, Spent
  <1>12. BudgetOf(n)'
    <2>1. CASE note'[n] = note[n]
      BY <1>1, <1>3, <1>9, <1>11, <2>1, BudgetWithout
    <2>2. CASE note[n] = sweep[s].from /\ note'[n] = "SENT"
      <3>1. note[n] = "FAILED" => s \in ToMarkAgain(n)
        BY <1>3, <1>10, <2>2 DEF ToMarkAgain
      <3>2. ToSend(n)' = ToSend(n) /\ note[n] \in Read
        BY <1>3, <1>9, <1>10, <2>2
      <3> QED
        BY <1>1, <1>3, <1>6, <1>10, <1>11, <2>2, <3>1, <3>2, NowSent
    <2> QED
      BY <1>4, <2>1, <2>2
  <1>13. /\ faults' \in 0..MaxFaults /\ faults' > 0 /\ mails' \in [Notes -> Nat]
         /\ \A m \in Notes : m # n => note'[m] = note[m] /\ mails'[m] = mails[m]
         /\ mails'[n] >= mails[n]
         /\ note'[n] # "ABSENT"
         /\ note'[n] = "PENDING" => note[n] = "PENDING"
    BY <1>1, <1>3, <1>4, <1>6, DeliveryAssumption DEF TypeOK
  <1> QED
    BY <1>1, <1>2, <1>4, <1>11, <1>12, <1>13, TurnKeeps

LEMMA RecordKeepsIInv ==
  ASSUME IInv, NEW s \in Sweepers, Record(s)
  PROVE  IInv'
  <1>1. /\ TypeOK /\ HandsInv /\ sweep[s].at \in {"mark", "fail"}
        /\ mails' = mails /\ faults' = faults
    BY DEF IInv, Record
  <1>2. Busy(s)
    BY <1>1 DEF Busy, Idle
  <1> PICK n : n = sweep[s].of
    OBVIOUS
  <1>3. /\ n \in Notes /\ faults \in Nat /\ mails[n] \in Nat /\ n \in Held(sweep[s])
        /\ sweep[s].from \in Read /\ FromOf(sweep[s], n) = sweep[s].from
    BY <1>1, <1>2, Types
  <1>4. PICK w \in GoOn(sweep[s].rest) : sweep' = [sweep EXCEPT ![s] = w]
    BY DEF Record, Finish
  <1>5. /\ w \in Process
        /\ Held(w) = Held(sweep[s]) \ {n}
        /\ w # Idle => w.at = "send"
        /\ \A m \in Notes : m # n =>
             /\ Unsent(w, m) <=> Unsent(sweep[s], m)
             /\ Unsent(w, m) => FromOf(w, m) = FromOf(sweep[s], m)
             /\ ~Marking(sweep[s], m)
        /\ \A m \in Notes : ~Marking(w, m)
        /\ ~Unsent(w, n)
    BY <1>1, <1>2, FinishHands
  <1>6. /\ note' \in [Notes -> Statuses]
        /\ \A m \in Notes \ {n} : note'[m] = note[m]
        /\ \/ note'[n] = note[n] /\ note[n] # sweep[s].from
           \/ /\ note[n] = sweep[s].from
              /\ note'[n] = IF sweep[s].at = "mark" THEN "SENT" ELSE "FAILED"
    BY <1>1, <1>3 DEF Record, Claimed, TypeOK, Statuses
  <1>7. /\ note[n] # "ABSENT" /\ (note[n] = "PENDING" => sweep[s].from = "PENDING")
        /\ sweep[s].at = "mark" => n \notin Bad /\ mails[n] > 0
        /\ (sweep[s].at = "fail" /\ n \notin Bad) => faults > 0
    <2>1. sweep[s].at = "mark" => Marking(sweep[s], n)
      BY <1>3 DEF Marking
    <2> QED
      BY <1>1, <1>3, <2>1 DEF HandsInv
  <1>8. TypeOK'
    BY <1>1, <1>4, <1>5, <1>6 DEF TypeOK, Process
  <1>9. Held(sweep[s]) \subseteq Notes
    BY <1>1, <1>2, Types
  <1>10. HandsInv'
    <2>1. Onward
      BY <1>1, <1>3, <1>6, <1>7, Types DEF Onward
    <2>2. \A m \in Held(w) :
            /\ m \in Notes /\ m \in Held(sweep[s]) /\ m # n /\ ~Marking(w, m) /\ w.at # "fail"
      BY <1>5, <1>9 DEF Held
    <2>3. \A m \in Held(w) : FromOf(w, m) = FromOf(sweep[s], m)
      <3>1. \A m \in Held(w) : Unsent(w, m)
        BY <1>5 DEF Unsent, Held
      <3> QED
        BY <1>5, <2>2, <3>1
    <2>4. Taken(s, w)
      BY <2>2, <2>3 DEF Taken
    <2> QED
      BY <1>1, <1>4, <2>1, <2>4, HandsStay
  <1>11. ASSUME NEW m \in Notes, m # n PROVE BudgetOf(m)'
    <2>1. Unsent(w, m) <=> Unsent(sweep[s], m)
      BY <1>5, <1>11
    <2>2. Marking(w, m) <=> Marking(sweep[s], m)
      BY <1>5, <1>11
    <2>3. Unsent(w, m) \/ Marking(w, m) => FromOf(w, m) = FromOf(sweep[s], m)
      BY <1>5, <1>11
    <2>4. /\ ToSend(m)' = ToSend(m) /\ ToSendInVain(m)' = ToSendInVain(m)
          /\ ToMark(m)' = ToMark(m) /\ ToMarkAgain(m)' = ToMarkAgain(m)
      BY <1>1, <1>4, <2>1, <2>2, <2>3, SameHands
    <2>5. BudgetOf(m) /\ Spent
      BY <1>1 DEF IInv, Spent
    <2> QED
      BY <1>1, <1>6, <1>11, <2>4, <2>5, BudgetStays
  <1>12. BudgetOf(n)'
    <2>1. /\ ToSend(n)' = ToSend(n) \ {s} /\ ToSendInVain(n)' = ToSendInVain(n) \ {s}
          /\ ToMark(n)' = ToMark(n) \ {s} /\ ToMarkAgain(n)' = ToMarkAgain(n) \ {s}
      <3>1. ~Unsent(w, n) /\ ~Marking(w, n)
        BY <1>3, <1>5
      <3> QED
        BY <1>1, <1>3, <1>4, <3>1, FewerHands
    <2>2. ~Unsent(sweep[s], n)
      BY <1>1 DEF Unsent
    <2>3. s \notin ToSend(n)
      BY <2>2 DEF ToSend
    <2>4. ToSend(n)' = ToSend(n) /\ ToSendInVain(n)' = ToSendInVain(n)
      BY <1>3, <2>1, <2>3, Subsets
    <2>5. BudgetOf(n) /\ Spent
      BY <1>1, <1>3 DEF IInv, Spent
    <2>6. sweep[s].at = "mark" => s \in ToMark(n)
      BY <1>3 DEF ToMark, Marking
    <2>7. sweep[s].at = "fail" => s \notin ToMark(n)
      BY DEF ToMark, Marking
    <2>8. s \in ToMarkAgain(n) <=> s \in ToMark(n) /\ sweep[s].from = "FAILED"
      BY <1>3 DEF ToMarkAgain
    <2>9. CASE sweep[s].at = "mark"
      <3>1. CASE note[n] = sweep[s].from
        <4>1. note'[n] = "SENT"
          BY <1>6, <2>9, <3>1
        <4>2. note[n] \in Read /\ s \in ToMark(n) /\ (note[n] = "FAILED" => s \in ToMarkAgain(n))
          BY <1>3, <2>6, <2>8, <2>9, <3>1
        <4> QED
          BY <1>1, <1>3, <1>7, <2>4, <2>5, <2>9, <4>1, <4>2, NowSent
      <3>2. CASE note[n] # sweep[s].from
        <4>1. note'[n] = note[n] /\ note[n] # "PENDING" /\ note[n] # "ABSENT"
          BY <1>6, <1>7, <3>2
        <4>2. note[n] = "FAILED" => ToMarkAgain(n)' = ToMarkAgain(n)
          BY <2>1, <2>8, <3>2
        <4>3. N' = N /\ Allowance' = Allowance
          BY <1>1 DEF N, Allowance
        <4> QED
          BY <1>1, <1>3, <2>4, <2>5, <4>1, <4>2, <4>3 DEF BudgetOf
      <3> QED
        BY <3>1, <3>2
    <2>10. CASE sweep[s].at = "fail"
      <3>1. ToMark(n)' = ToMark(n) /\ ToMarkAgain(n)' = ToMarkAgain(n)
        BY <1>3, <2>1, <2>7, <2>10, Subsets
      <3>2. CASE note[n] = "PENDING"
        <4>1. note'[n] = "FAILED"
          BY <1>6, <1>7, <2>10, <3>2
        <4> QED
          BY <1>1, <1>3, <1>7, <2>3, <2>4, <2>5, <2>7, <2>10, <3>1, <3>2, <4>1, NowFailed
      <3>3. CASE note[n] # "PENDING"
        <4>1. note'[n] = note[n]
          BY <1>3, <1>6, <2>10, <3>3 DEF Read
        <4> QED
          BY <1>1, <1>3, <2>4, <2>5, <3>1, <4>1, BudgetStays
      <3> QED
        BY <3>2, <3>3
    <2> QED
      BY <1>1, <2>9, <2>10
  <1> QED
    BY <1>8, <1>10, <1>11, <1>12 DEF IInv

LEMMA StutterKeepsIInv ==
  ASSUME IInv, UNCHANGED vars
  PROVE  IInv'
  BY DEF vars, IInv, TypeOK, HandsInv, BudgetOf, ToSend, ToSendInVain, ToMark, ToMarkAgain,
         Allowance, N

LEMMA NextKeepsIInv == IInv /\ [Next]_vars => IInv'
  <1> SUFFICES ASSUME IInv, [Next]_vars PROVE IInv'
    OBVIOUS
  <1>1. ASSUME NEW n \in Notes, Create(n) PROVE IInv'
    BY <1>1, CreateKeepsIInv
  <1>2. ASSUME NEW s \in Sweepers, Start(s) PROVE IInv'
    BY <1>2, StartKeepsIInv
  <1>3. ASSUME NEW s \in Sweepers, Deliver(s) PROVE IInv'
    BY <1>3, SendKeepsIInv, RecordKeepsIInv DEF Deliver
  <1>4. ASSUME NEW s \in Sweepers, SendThrows(s) PROVE IInv'
    BY <1>4, SendThrowsKeepsIInv
  <1>5. ASSUME NEW s \in Sweepers, MarkThrows(s) PROVE IInv'
    BY <1>5, MarkThrowsKeepsIInv
  <1>6. ASSUME NEW s \in Sweepers, Crash(s) PROVE IInv'
    BY <1>6, CrashKeepsIInv
  <1>7. CASE UNCHANGED vars
    BY <1>7, StutterKeepsIInv
  <1> QED
    BY <1>1, <1>2, <1>3, <1>4, <1>5, <1>6, <1>7 DEF Next

\* Every budget is within what RepeatsAreBounded allows.
LEMMA BudgetSuffices ==
  ASSUME TypeOK, NEW n \in Notes, BudgetOf(n)
  PROVE  mails[n] <= Allowance
  <1>1. /\ N \in Nat \ {0} /\ faults \in Nat /\ mails[n] \in Nat
        /\ note[n] \in Statuses
    BY CountSweepers, DeliveryAssumption DEF TypeOK
  <1>2. /\ Cardinality(ToMark(n)) \in Nat /\ Cardinality(ToMark(n)) <= N
        /\ Cardinality(ToMarkAgain(n)) \in Nat /\ Cardinality(ToMarkAgain(n)) <= N
        /\ Cardinality(ToSend(n)) \in Nat /\ Cardinality(ToSendInVain(n)) \in Nat
    <2>1. /\ ToMark(n) \in SUBSET Sweepers /\ ToMarkAgain(n) \in SUBSET Sweepers
          /\ ToSend(n) \in SUBSET Sweepers /\ ToSendInVain(n) \in SUBSET Sweepers
      BY DEF ToMark, ToMarkAgain, ToSend, ToSendInVain
    <2> QED
      BY <2>1, CountSweepers
  <1>3. CASE n \in Bad
    BY <1>1, <1>3 DEF BudgetOf, Allowance
  <1>4. CASE note[n] = "ABSENT"
    BY <1>1, <1>4 DEF BudgetOf, Allowance
  <1>5. CASE note[n] = "PENDING"
    BY <1>1, <1>2, <1>5 DEF BudgetOf, Allowance
  <1>6. CASE note[n] = "FAILED" /\ n \notin Bad
    BY <1>1, <1>2, <1>6 DEF BudgetOf, Allowance
  <1>7. CASE note[n] = "SENT"
    BY <1>1, <1>2, <1>7 DEF BudgetOf, Allowance
  <1> QED
    BY <1>1, <1>3, <1>4, <1>5, <1>6, <1>7 DEF Statuses

\* The strengthened invariant, for any notifications and sweeps.
THEOREM DeliveryInvariant == Spec => []IInv
  BY InitIInv, NextKeepsIInv, PTL DEF Spec

\* The rows, what the sweeps hold and the counters keep their types; no sweep
\* holds a row twice.
THEOREM DeliveryTypeCorrect == Spec => []TypeOK
  <1>1. IInv => TypeOK
    BY DEF IInv
  <1> QED
    BY <1>1, DeliveryInvariant, PTL

\* A row that says SENT was e-mailed, whoever wrote it after whatever failed.
THEOREM SentMeansMailed == Spec => []SentWasMailed
  <1>1. IInv => SentWasMailed
    BY DEF IInv, BudgetOf, SentWasMailed
  <1> QED
    BY <1>1, DeliveryInvariant, PTL

\* However many sweeps overlap, they e-mail one row at most once each if nothing
\* fails, and at most once more for each fault and each other sweep if it does.
THEOREM RepeatsAreFew == Spec => []RepeatsAreBounded
  <1>1. IInv => RepeatsAreBounded
    BY BudgetSuffices DEF IInv, RepeatsAreBounded, Allowance, N
  <1> QED
    BY <1>1, DeliveryInvariant, PTL

\* No late outcome of another sweep undoes SENT: a claim changes a row only if it
\* still has the status that was read, which is PENDING or FAILED.
THEOREM SentStays == Spec => SentIsFinal
  <1>1. ASSUME TypeOK, [Next]_vars, NEW n \in Notes, note[n] = "SENT"
        PROVE  note'[n] = "SENT"
    <2>1. note \in [Notes -> Statuses]
      BY <1>1 DEF TypeOK
    <2>2. ASSUME NEW s \in Sweepers, sweep[s].at \in {"mark", "fail"}, NEW status
          PROVE  Claimed(s, status)[n] = "SENT"
      <3>1. sweep[s] \in Process
        BY <1>1 DEF TypeOK, Process
      <3>2. sweep[s].from \in Read
        BY <2>2, <3>1 DEF Process, Working, Idle, Read
      <3> QED
        BY <1>1, <2>1, <3>2 DEF Claimed, Read
    <2>3. ASSUME NEW m \in Notes, Create(m) PROVE note'[n] = "SENT"
      BY <1>1, <2>1, <2>3 DEF Create
    <2>4. ASSUME NEW s \in Sweepers, Start(s) \/ Send(s) \/ SendThrows(s) \/ Crash(s)
          PROVE  note'[n] = "SENT"
      BY <1>1, <2>4 DEF Start, Send, SendThrows, Crash
    <2>5. ASSUME NEW s \in Sweepers, Record(s) PROVE note'[n] = "SENT"
      BY <2>2, <2>5 DEF Record
    <2>6. ASSUME NEW s \in Sweepers, MarkThrows(s) PROVE note'[n] = "SENT"
      BY <1>1, <2>2, <2>6 DEF MarkThrows
    <2>7. CASE UNCHANGED vars
      BY <1>1, <2>7 DEF vars
    <2> QED
      BY <1>1, <2>3, <2>4, <2>5, <2>6, <2>7 DEF Next, Deliver
  <1>2. TypeOK /\ [Next]_vars
          => [\A n \in Notes : note[n] = "SENT" => note'[n] = "SENT"]_vars
    BY <1>1
  <1> QED
    BY <1>2, DeliveryTypeCorrect, PTL DEF Spec, SentIsFinal
=============================================================================
