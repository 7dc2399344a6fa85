-------------------------- MODULE InventoryProofs --------------------------
(***************************************************************************)
(* Theorems about Inventory, for any finite sets of products, requests and *)
(* sweeps, any batch size, and any bounds on changes and faults.           *)
(***************************************************************************)
EXTENDS Inventory, FiniteSetTheorems, TLAPS

\* The products a process holds, the row it has read of one of them, and how
\* far it is with it.
Held(w) == IF w = Idle THEN {} ELSE {w.of} \cup DOMAIN w.rest
RowOf(w, p) == IF w.of = p THEN w.row ELSE w.rest[p]
PhaseOf(w, p) == IF w.of = p THEN w.at ELSE "sum"

\* Equal in all that an evaluation looks at.
Same(row1, row2) ==
  row1.point = row2.point /\ row1.active = row2.active /\ row1.below = row2.below

\* What an undisturbed evaluation of p knows at each of its awaits.
Knows(w, p) ==
  /\ PhaseOf(w, p) \in {"record", "sum"} => Same(RowOf(w, p), product[p])
  /\ PhaseOf(w, p) = "claim" => ~product[p].below /\ Low(p)
  /\ PhaseOf(w, p) = "clear" => product[p].below /\ ~Low(p)
  /\ PhaseOf(w, p) = "notify" => product[p].below /\ Low(p)

AloneInv ==
  \A p \in Products :
    trace[p] = "alone" =>
      /\ \A s \in Procs : p \in Held(proc[s]) => Knows(proc[s], p)
      /\ \A s, t \in Procs : p \in Held(proc[s]) /\ p \in Held(proc[t]) => s = t
      /\ (\A s \in Procs : p \notin Held(proc[s])) => product[p].below = Low(p)

IInv == TypeOK /\ AlertsAccountedFor /\ AloneInv

Process == {Idle} \cup {w \in Working : w.of \notin DOMAIN w.rest}

LEMMA WrittenRows ==
  ASSUME TypeOK, NEW p \in Products, NEW row \in Row
  PROVE  /\ Written(p, row) \in [Products -> Row]
         /\ Same(Written(p, row)[p], row)
         /\ \A q \in Products \ {p} : Same(Written(p, row)[q], product[q])
  <1>1. Cardinality(Products) \in Nat
    BY InventoryAssumption, FS_CardinalityType
  <1>2. \A q \in Products : product[q].recency \in 1..Cardinality(Products)
    BY DEF TypeOK, Row, Ranks
  <1>3. Cardinality(Products) \in Ranks
    BY <1>1, <1>2 DEF Ranks
  <1>4. \A q \in Products :
          product[q].recency > product[p].recency => product[q].recency - 1 \in Ranks
    BY <1>1, <1>2 DEF Ranks
  <1>5. [row EXCEPT !.recency = Cardinality(Products)] \in Row
    BY <1>3 DEF Row
  <1>6. \A q \in Products :
          product[q].recency > product[p].recency
            => [product[q] EXCEPT !.recency = product[q].recency - 1] \in Row
    BY <1>4 DEF TypeOK, Row
  <1>7. Written(p, row) \in [Products -> Row]
    BY <1>5, <1>6 DEF Written, TypeOK
  <1>8. Same(Written(p, row)[p], row)
    BY DEF Written, Same, Row
  <1>9. \A q \in Products \ {p} : Same(Written(p, row)[q], product[q])
    BY DEF Written, Same, Row, TypeOK
  <1> QED
    BY <1>7, <1>8, <1>9

\* What comes after a row: the rest of the batch is still held, unread since.
LEMMA GoesOn ==
  ASSUME NEW rows \in Batch, NEW next \in GoOn(rows)
  PROVE  /\ next \in Process
         /\ next # Idle => next.at = "sum"
         /\ Held(next) = DOMAIN rows
         /\ \A p \in DOMAIN rows : RowOf(next, p) = rows[p] /\ PhaseOf(next, p) = "sum"
  <1>1. PICK S \in SUBSET Products : rows \in [S -> Row]
    BY DEF Batch
  <1>2. CASE DOMAIN rows = {}
    BY <1>2 DEF GoOn, Held, Process
  <1>3. CASE DOMAIN rows # {}
    <2>1. PICK p \in DOMAIN rows :
            next = [at |-> "sum", of |-> p, row |-> rows[p], rest |-> Without(rows, p)]
      BY <1>3 DEF GoOn, Oldest
    <2>2. Without(rows, p) \in [S \ {p} -> Row] /\ DOMAIN Without(rows, p) = DOMAIN rows \ {p}
      BY <1>1 DEF Without
    <2>3. Without(rows, p) \in Batch
      BY <2>2 DEF Batch
    <2>4. next # Idle
      BY <2>1 DEF Idle
    <2>5. next \in Process
      BY <1>1, <2>1, <2>2, <2>3 DEF Process, Working
    <2>6. Held(next) = DOMAIN rows
      BY <2>1, <2>2, <2>4 DEF Held
    <2>7. \A q \in DOMAIN rows : RowOf(next, q) = rows[q] /\ PhaseOf(next, q) = "sum"
      BY <2>1, <2>2 DEF RowOf, PhaseOf, Without
    <2> QED
      BY <2>1, <2>5, <2>6, <2>7
  <1> QED
    BY <1>2, <1>3

LEMMA CountProcs ==
  ASSUME NEW S \in SUBSET Procs
  PROVE  /\ IsFiniteSet(S)
         /\ Cardinality(S) \in Nat
         /\ \A T \in SUBSET S : Cardinality(T) \in Nat /\ Cardinality(T) <= Cardinality(S)
  <1>1. IsFiniteSet(Procs)
    BY InventoryAssumption, FS_Union DEF Procs
  <1>2. IsFiniteSet(S)
    BY <1>1, FS_Subset
  <1>3. \A T \in SUBSET S : IsFiniteSet(T) /\ Cardinality(T) <= Cardinality(S)
    BY <1>2, FS_Subset
  <1> QED
    BY <1>2, <1>3, FS_CardinalityType

LEMMA HoldersHold ==
  ASSUME NEW p \in Products
  PROVE  Holders(p) = {s \in Procs : p \in Held(proc[s])}
  BY DEF Holders, Busy, Held

LEMMA InitIInv == Init => IInv
  <1> SUFFICES ASSUME Init PROVE IInv
    OBVIOUS
  <1>1. TypeOK
    BY InventoryAssumption DEF Init, TypeOK
  <1>2. AlertsAccountedFor
    <2>1. \A p \in Products : Notifying(p) = {}
      BY DEF Init, Notifying, Idle
    <2>2. \A p \in Products : Flagged(p) = 0
      BY DEF Init, Flagged
    <2>3. \A p \in Products : Cardinality(Notifying(p)) = 0
      BY <2>1, FS_EmptySet
    <2> QED
      BY <2>2, <2>3 DEF Init, AlertsAccountedFor
  <1>3. AloneInv
    BY DEF Init, AloneInv
  <1> QED
    BY <1>1, <1>2, <1>3 DEF IInv

\* A process goes on, without touching anything another one relies on.
LEMMA AloneGoesOn ==
  ASSUME TypeOK, AloneInv, NEW s \in Procs, NEW w \in Process,
         proc' = [proc EXCEPT ![s] = w],
         Held(w) \subseteq Held(proc[s]),
         \A p \in Products : trace'[p] = "alone" =>
           /\ trace[p] = "alone"
           /\ p \notin Held(proc[s]) => Same(product'[p], product[p]) /\ onHand'[p] = onHand[p]
           /\ p \in Held(w) => Knows(w, p)'
           /\ p \in Held(proc[s]) \ Held(w) => product'[p].below = Low(p)'
  PROVE  AloneInv'
  <1> SUFFICES ASSUME NEW p \in Products, trace'[p] = "alone"
               PROVE /\ \A t \in Procs : p \in Held(proc'[t]) => Knows(proc[t], p)'
                     /\ \A t, u \in Procs :
                          p \in Held(proc'[t]) /\ p \in Held(proc'[u]) => t = u
                     /\ (\A t \in Procs : p \notin Held(proc'[t]))
                          => product'[p].below = Low(p)'
    BY DEF AloneInv, Held, Idle
  <1>1. proc'[s] = w /\ \A t \in Procs \ {s} : proc'[t] = proc[t]
    BY DEF TypeOK
  <1>2. /\ \A t \in Procs : p \in Held(proc[t]) => Knows(proc[t], p)
        /\ \A t, u \in Procs : p \in Held(proc[t]) /\ p \in Held(proc[u]) => t = u
        /\ (\A t \in Procs : p \notin Held(proc[t])) => product[p].below = Low(p)
    BY DEF AloneInv
  <1>3. \A t, u \in Procs : p \in Held(proc'[t]) /\ p \in Held(proc'[u]) => t = u
    BY <1>1, <1>2
  <1>4. CASE p \in Held(proc[s])
    <2>1. \A t \in Procs \ {s} : p \notin Held(proc[t])
      BY <1>2, <1>4
    <2>2. \A t \in Procs : p \in Held(proc'[t]) => Knows(proc[t], p)'
      BY <1>1, <2>1
    <2>3. (\A t \in Procs : p \notin Held(proc'[t])) => product'[p].below = Low(p)'
      BY <1>1, <1>4
    <2> QED
      BY <1>3, <2>2, <2>3
  <1>5. CASE p \notin Held(proc[s])
    <2>1. Same(product'[p], product[p]) /\ onHand'[p] = onHand[p] /\ p \notin Held(w)
      BY <1>5
    <2>2. \A t \in Procs : p \in Held(proc'[t]) => Knows(proc[t], p)'
      BY <1>1, <1>2, <2>1 DEF Knows, Same, Low, IsLow, RowOf, PhaseOf
    <2>3. (\A t \in Procs : p \notin Held(proc'[t])) => product'[p].below = Low(p)'
      BY <1>1, <1>2, <1>5, <2>1 DEF Same, Low, IsLow
    <2> QED
      BY <1>3, <2>2, <2>3
  <1> QED
    BY <1>4, <1>5

\* A process starts on rows it has just read.
LEMMA AloneStarts ==
  ASSUME TypeOK, AloneInv, NEW s \in Procs, NEW w \in Process,
         proc[s] = Idle, proc' = [proc EXCEPT ![s] = w],
         Held(w) \subseteq Products, trace' = Begun(Held(w)), UNCHANGED onHand,
         \A p \in Products \ Held(w) : Same(product'[p], product[p]),
         \A p \in Held(w) : Same(RowOf(w, p), product'[p]) /\ PhaseOf(w, p) \in {"record", "sum"}
  PROVE  AloneInv'
  <1> SUFFICES ASSUME NEW p \in Products, trace'[p] = "alone"
               PROVE /\ \A t \in Procs : p \in Held(proc'[t]) => Knows(proc[t], p)'
                     /\ \A t, u \in Procs :
                          p \in Held(proc'[t]) /\ p \in Held(proc'[u]) => t = u
                     /\ (\A t \in Procs : p \notin Held(proc'[t]))
                          => product'[p].below = Low(p)'
    BY DEF AloneInv, Held, Idle
  <1>1. /\ proc'[s] = w /\ \A t \in Procs \ {s} : proc'[t] = proc[t]
        /\ Held(proc[s]) = {}
    BY DEF TypeOK, Held
  <1>2. CASE p \in Held(w)
    <2>1. \A t \in Procs : p \notin Held(proc[t])
      BY <1>2, HoldersHold DEF Begun
    <2>2. Knows(w, p)'
      BY <1>2 DEF Knows, RowOf, PhaseOf
    <2> QED
      BY <1>1, <1>2, <2>1, <2>2
  <1>3. CASE p \notin Held(w)
    <2>1. trace[p] = "alone" /\ Same(product'[p], product[p]) /\ onHand'[p] = onHand[p]
      BY <1>3 DEF Begun
    <2>2. /\ \A t \in Procs : p \in Held(proc[t]) => Knows(proc[t], p)
          /\ \A t, u \in Procs : p \in Held(proc[t]) /\ p \in Held(proc[u]) => t = u
          /\ (\A t \in Procs : p \notin Held(proc[t])) => product[p].below = Low(p)
      BY <2>1 DEF AloneInv
    <2>3. \A t \in Procs : p \in Held(proc'[t]) => Knows(proc[t], p)'
      BY <1>1, <1>3, <2>1, <2>2 DEF Knows, Same, Low, IsLow, RowOf, PhaseOf
    <2>4. (\A t \in Procs : p \notin Held(proc'[t])) => product'[p].below = Low(p)'
      BY <1>1, <1>3, <2>1, <2>2 DEF Same, Low, IsLow
    <2> QED
      BY <1>1, <1>3, <2>2, <2>3, <2>4
  <1> QED
    BY <1>2, <1>3

\* Steps that neither move a flag nor announce anything.
LEMMA SameAlerts ==
  ASSUME TypeOK, AlertsAccountedFor, UNCHANGED <<alerts, clears>>,
         \A p \in Products : product'[p].below = product[p].below,
         \/ UNCHANGED faults /\ \A p \in Products : Notifying(p)' = Notifying(p)
         \/ faults' # 0 /\ \A p \in Products : Notifying(p)' \subseteq Notifying(p)
  PROVE  AlertsAccountedFor'
  <1> SUFFICES ASSUME NEW p \in Products
               PROVE LET sent == alerts'[p] + Cardinality(Notifying(p)') IN
                       /\ sent <= clears'[p] + Flagged(p)'
                       /\ faults' = 0 => sent = clears'[p] + Flagged(p)'
    BY DEF AlertsAccountedFor
  <1>1. Notifying(p) \in SUBSET Procs
    BY DEF Notifying
  <1>2. /\ Cardinality(Notifying(p)) \in Nat
        /\ \A T \in SUBSET Notifying(p) :
             Cardinality(T) \in Nat /\ Cardinality(T) <= Cardinality(Notifying(p))
    BY <1>1, CountProcs
  <1>3. /\ alerts[p] \in Nat /\ clears[p] \in Nat /\ Flagged(p) \in Nat
        /\ alerts'[p] = alerts[p] /\ clears'[p] = clears[p] /\ Flagged(p)' = Flagged(p)
    BY DEF TypeOK, Flagged
  <1>4. LET sent == alerts[p] + Cardinality(Notifying(p)) IN
          /\ sent <= clears[p] + Flagged(p)
          /\ faults = 0 => sent = clears[p] + Flagged(p)
    BY DEF AlertsAccountedFor
  <1> QED
    BY <1>2, <1>3, <1>4

LEMMA SameNotifying ==
  ASSUME TypeOK, NEW s \in Procs, NEW w, proc' = [proc EXCEPT ![s] = w],
         proc[s].at # "notify", w.at # "notify"
  PROVE  \A p \in Products : Notifying(p)' = Notifying(p)
  BY DEF Notifying, TypeOK

LEMMA BoundsHold ==
  ASSUME TypeOK
  PROVE  /\ Change => changes' \in 0..MaxChanges
         /\ Fault => faults' \in 0..MaxFaults /\ faults' # 0
  BY InventoryAssumption DEF TypeOK, Change, Fault

LEMMA OneRow ==
  ASSUME NEW at \in {"record", "sum"}, NEW p \in Products, NEW row \in Row
  PROVE  /\ One(at, p, row) \in Process
         /\ Held(One(at, p, row)) = {p}
         /\ RowOf(One(at, p, row), p) = row
         /\ PhaseOf(One(at, p, row), p) = at
         /\ One(at, p, row).at = at
  <1>1. <<>> \in [{} -> Row] /\ DOMAIN <<>> = {}
    OBVIOUS
  <1>2. <<>> \in Batch
    BY <1>1 DEF Batch
  <1> QED
    BY <1>1, <1>2 DEF One, Process, Working, Held, RowOf, PhaseOf, Idle

LEMMA ReadKeepsIInv ==
  ASSUME IInv, NEW r \in Requests, NEW p \in Products, ReadForMovement(r, p)
  PROVE  IInv'
  <1> DEFINE w == One("record", p, product[p])
  <1>1. r \in Procs /\ product[p] \in Row /\ TypeOK
    BY DEF Procs, IInv, TypeOK
  <1>2. /\ w \in Process /\ Held(w) = {p} /\ w.at = "record"
        /\ RowOf(w, p) = product[p] /\ PhaseOf(w, p) = "record"
    BY <1>1, OneRow
  <1>3. proc[r] = Idle /\ proc' = [proc EXCEPT ![r] = w]
    BY DEF ReadForMovement
  <1>4. trace' \in [Products -> {"new", "alone", "mixed"}]
    BY <1>1 DEF ReadForMovement, Begun, TypeOK
  <1>5. TypeOK'
    BY <1>1, <1>2, <1>3, <1>4, BoundsHold DEF ReadForMovement, TypeOK, Process
  <1>6. AlertsAccountedFor'
    <2>1. proc[r].at # "notify" /\ w.at # "notify"
      BY <1>2, <1>3 DEF Idle
    <2>2. \A q \in Products : Notifying(q)' = Notifying(q)
      BY <1>1, <1>3, <2>1, SameNotifying
    <2> QED
      BY <1>1, <2>2, SameAlerts DEF ReadForMovement, IInv
  <1>7. AloneInv'
    BY <1>1, <1>2, <1>3, AloneStarts DEF ReadForMovement, IInv, Same
  <1> QED
    BY <1>5, <1>6, <1>7 DEF IInv

LEMMA UpdateKeepsIInv ==
  ASSUME IInv, NEW r \in Requests, NEW p \in Products,
         NEW point \in Points, NEW active \in BOOLEAN, UpdateProduct(r, p, point, active)
  PROVE  IInv'
  <1> DEFINE row == [product[p] EXCEPT !.point = point, !.active = active]
  <1>1. r \in Procs /\ product[p] \in Row /\ TypeOK
    BY DEF Procs, IInv, TypeOK
  <1>2. row \in Row /\ row.below = product[p].below
    BY <1>1 DEF Row
  <1>3. /\ product' \in [Products -> Row]
        /\ Same(product'[p], row)
        /\ \A q \in Products \ {p} : Same(product'[q], product[q])
    BY <1>1, <1>2, WrittenRows DEF UpdateProduct
  <1>4. PICK w : w = One("sum", p, product'[p])
    OBVIOUS
  <1>5. /\ w \in Process /\ Held(w) = {p} /\ w.at = "sum"
        /\ RowOf(w, p) = product'[p] /\ PhaseOf(w, p) = "sum"
    BY <1>3, <1>4, OneRow
  <1>6. proc[r] = Idle /\ proc' = [proc EXCEPT ![r] = w]
    BY <1>4 DEF UpdateProduct
  <1>7. trace' \in [Products -> {"new", "alone", "mixed"}]
    BY <1>1 DEF UpdateProduct, Begun, TypeOK
  <1>8. TypeOK'
    BY <1>1, <1>3, <1>5, <1>6, <1>7, BoundsHold DEF UpdateProduct, TypeOK, Process
  <1>9. AlertsAccountedFor'
    <2>1. proc[r].at # "notify" /\ w.at # "notify"
      BY <1>5, <1>6 DEF Idle
    <2>2. \A q \in Products : Notifying(q)' = Notifying(q)
      BY <1>1, <1>6, <2>1, SameNotifying
    <2>3. \A q \in Products : product'[q].below = product[q].below
      BY <1>2, <1>3 DEF Same
    <2> QED
      BY <1>1, <2>2, <2>3, SameAlerts DEF UpdateProduct, IInv
  <1>10. AloneInv'
    BY <1>1, <1>3, <1>5, <1>6, AloneStarts DEF UpdateProduct, IInv, Same
  <1> QED
    BY <1>8, <1>9, <1>10 DEF IInv

LEMMA RenameKeepsIInv ==
  ASSUME IInv, NEW p \in Products, Rename(p)
  PROVE  IInv'
  <1>1. TypeOK /\ product[p] \in Row
    BY DEF IInv, TypeOK
  <1>2. /\ product' \in [Products -> Row]
        /\ \A q \in Products : Same(product'[q], product[q])
    BY <1>1, WrittenRows DEF Rename
  <1>3. TypeOK'
    BY <1>1, <1>2, BoundsHold DEF Rename, TypeOK
  <1>4. AlertsAccountedFor'
    BY <1>1, <1>2, SameAlerts DEF Rename, IInv, Same, Notifying
  <1>5. AloneInv'
    BY <1>2 DEF Rename, IInv, AloneInv, Knows, Same, Low, IsLow, RowOf, PhaseOf, Held
  <1> QED
    BY <1>3, <1>4, <1>5 DEF IInv

LEMMA SweepKeepsIInv ==
  ASSUME IInv, NEW s \in Sweepers, StartSweep(s)
  PROVE  IInv'
  <1>1. s \in Procs /\ TypeOK
    BY DEF Procs, IInv
  <1>2. PICK S \in Batches :
          /\ \E next \in GoOn([p \in S |-> product[p]]) : proc' = [proc EXCEPT ![s] = next]
          /\ trace' = Begun(S)
    BY DEF StartSweep
  <1>3. S \subseteq Products
    BY DEF Batches, Candidates
  <1> DEFINE rows == [p \in S |-> product[p]]
  <1>4. rows \in Batch /\ DOMAIN rows = S
    BY <1>1, <1>3 DEF Batch, TypeOK
  <1>5. PICK w \in GoOn(rows) : proc' = [proc EXCEPT ![s] = w]
    BY <1>2
  <1>6. /\ w \in Process /\ Held(w) = S
        /\ w # Idle => w.at = "sum"
        /\ \A p \in S : RowOf(w, p) = product[p] /\ PhaseOf(w, p) = "sum"
    BY <1>4, GoesOn
  <1>7. proc[s] = Idle
    BY DEF StartSweep
  <1>8. trace' \in [Products -> {"new", "alone", "mixed"}]
    BY <1>1, <1>2 DEF Begun, TypeOK
  <1>9. TypeOK'
    BY <1>1, <1>5, <1>6, <1>8 DEF StartSweep, TypeOK, Process
  <1>10. AlertsAccountedFor'
    <2>1. proc[s].at # "notify" /\ w.at # "notify"
      BY <1>6, <1>7 DEF Idle
    <2>2. \A q \in Products : Notifying(q)' = Notifying(q)
      BY <1>1, <1>5, <2>1, SameNotifying
    <2> QED
      BY <1>1, <2>2, SameAlerts DEF StartSweep, IInv
  <1>11. AloneInv'
    <2>1. /\ Held(w) \subseteq Products /\ trace' = Begun(Held(w))
          /\ \A p \in Products \ Held(w) : Same(product'[p], product[p])
          /\ \A p \in Held(w) : Same(RowOf(w, p), product'[p]) /\ PhaseOf(w, p) \in {"record", "sum"}
      BY <1>2, <1>3, <1>6 DEF StartSweep, Same
    <2> QED
      BY <1>1, <1>5, <1>6, <1>7, <2>1, AloneStarts DEF StartSweep, IInv
  <1> QED
    BY <1>9, <1>10, <1>11 DEF IInv

LEMMA BusyProcess ==
  ASSUME TypeOK, NEW s \in Procs, Busy(s)
  PROVE  /\ proc[s] \in Working
         /\ proc[s].of \in Products /\ proc[s].row \in Row
         /\ proc[s].rest \in Batch /\ proc[s].of \notin DOMAIN proc[s].rest
         /\ Held(proc[s]) = {proc[s].of} \cup DOMAIN proc[s].rest
  BY DEF TypeOK, Busy, Held, Working

\* The end of one evaluation.
LEMMA Finishes ==
  ASSUME TypeOK, NEW s \in Procs, Busy(s), Finish(s)
  PROVE  \E w \in Process :
           /\ proc' = [proc EXCEPT ![s] = w]
           /\ w.at # "notify"
           /\ Held(w) = Held(proc[s]) \ {proc[s].of}
           /\ \A q \in Held(w) : /\ RowOf(w, q) = RowOf(proc[s], q)
                                 /\ PhaseOf(w, q) = "sum" /\ PhaseOf(proc[s], q) = "sum"
  <1>1. PICK w \in GoOn(proc[s].rest) : proc' = [proc EXCEPT ![s] = w]
    BY DEF Finish
  <1>2. /\ w \in Process
        /\ w # Idle => w.at = "sum"
        /\ Held(w) = DOMAIN proc[s].rest
        /\ \A q \in DOMAIN proc[s].rest :
             RowOf(w, q) = proc[s].rest[q] /\ PhaseOf(w, q) = "sum"
    BY BusyProcess, GoesOn
  <1>3. w.at # "notify"
    BY <1>2 DEF Idle
  <1>4. \A q \in Held(w) : RowOf(w, q) = RowOf(proc[s], q) /\ PhaseOf(proc[s], q) = "sum"
    BY <1>2, BusyProcess DEF RowOf, PhaseOf
  <1> QED
    BY <1>1, <1>2, <1>3, <1>4, BusyProcess

LEMMA AloneFinishes ==
  ASSUME TypeOK, AloneInv, NEW s \in Procs, Busy(s), Finish(s),
         NEW p \in Products, p = proc[s].of,
         UNCHANGED onHand, \A q \in Products \ {p} : Same(product'[q], product[q]),
         \A q \in Products : trace'[q] = "alone" => trace[q] = "alone",
         trace'[p] = "alone" => product'[p].below = Low(p)'
  PROVE  AloneInv'
  <1>1. PICK w \in Process :
           /\ proc' = [proc EXCEPT ![s] = w]
           /\ Held(w) = Held(proc[s]) \ {p}
           /\ \A q \in Held(w) : /\ RowOf(w, q) = RowOf(proc[s], q)
                                 /\ PhaseOf(w, q) = "sum" /\ PhaseOf(proc[s], q) = "sum"
    BY Finishes
  <1>2. p \in Held(proc[s])
    BY BusyProcess
  <1>3. ASSUME NEW q \in Products, trace[q] = "alone", q \in Held(w)
        PROVE  Knows(w, q)'
    <2>1. Knows(proc[s], q) /\ q # p
      BY <1>1, <1>3 DEF AloneInv
    <2>2. Same(RowOf(w, q), product[q]) /\ PhaseOf(w, q) = "sum"
      BY <1>1, <1>3, <2>1 DEF Knows
    <2> QED
      BY <2>1, <2>2 DEF Knows, Same, RowOf, PhaseOf
  <1>4. ASSUME NEW q \in Products, trace'[q] = "alone"
        PROVE  /\ trace[q] = "alone"
               /\ q \notin Held(proc[s]) => Same(product'[q], product[q]) /\ onHand'[q] = onHand[q]
               /\ q \in Held(w) => Knows(w, q)'
               /\ q \in Held(proc[s]) \ Held(w) => product'[q].below = Low(q)'
    <2>1. trace[q] = "alone"
      BY <1>4
    <2>2. q \notin Held(proc[s]) => Same(product'[q], product[q]) /\ onHand'[q] = onHand[q]
      BY <1>2
    <2>3. q \in Held(w) => Knows(w, q)'
      BY <1>3, <2>1
    <2>4. CASE q = p
      BY <1>4, <2>1, <2>2, <2>3, <2>4
    <2>5. CASE q # p
      BY <1>1, <2>1, <2>2, <2>3, <2>5
    <2> QED
      BY <2>4, <2>5
  <1> QED
    BY <1>1, <1>4, AloneGoesOn

\* The next await of the same evaluation.
LEMMA AloneAdvances ==
  ASSUME TypeOK, AloneInv, NEW s \in Procs, Busy(s), NEW p \in Products, p = proc[s].of,
         NEW at \in {"sum", "claim", "clear", "notify"}, NEW w,
         w = [proc[s] EXCEPT !.at = at], proc' = [proc EXCEPT ![s] = w],
         UNCHANGED trace,
         \A q \in Products \ {p} : Same(product'[q], product[q]) /\ onHand'[q] = onHand[q],
         (trace[p] = "alone" /\ Knows(proc[s], p)) => Knows(w, p)'
  PROVE  AloneInv'
  <1>1. /\ w \in Process /\ Held(w) = Held(proc[s]) /\ p \in Held(w)
        /\ \A q \in Held(w) \ {p} : RowOf(w, q) = RowOf(proc[s], q)
                                    /\ PhaseOf(w, q) = "sum" /\ PhaseOf(proc[s], q) = "sum"
    BY BusyProcess DEF Process, Working, Held, RowOf, PhaseOf, Idle
  <1>2. \A q \in Products : trace[q] = "alone" /\ q \in Held(w) => Knows(proc[s], q)
    BY <1>1 DEF AloneInv
  <1>3. ASSUME NEW q \in Products, trace[q] = "alone", q \in Held(w)
        PROVE  Knows(w, q)'
    <2>1. CASE q = p
      BY <1>2, <1>3, <2>1
    <2>2. CASE q # p
      <3>1. Same(RowOf(w, q), product[q]) /\ PhaseOf(w, q) = "sum"
        BY <1>1, <1>2, <1>3, <2>2 DEF Knows
      <3> QED
        BY <2>2, <3>1 DEF Knows, Same, RowOf, PhaseOf
    <2> QED
      BY <2>1, <2>2
  <1>4. \A q \in Products : q \notin Held(proc[s])
          => Same(product'[q], product[q]) /\ onHand'[q] = onHand[q]
    BY <1>1
  <1>5. \A q \in Products : trace'[q] = "alone" =>
          /\ trace[q] = "alone"
          /\ q \notin Held(proc[s]) => Same(product'[q], product[q]) /\ onHand'[q] = onHand[q]
          /\ q \in Held(w) => Knows(w, q)'
          /\ q \in Held(proc[s]) \ Held(w) => product'[q].below = Low(q)'
    BY <1>1, <1>3, <1>4
  <1> QED
    BY <1>1, <1>5, AloneGoesOn

LEMMA FinishTypes ==
  ASSUME TypeOK, NEW s \in Procs, Busy(s), Finish(s)
  PROVE  /\ proc' \in [Procs -> Process]
         /\ \A p \in Products : Notifying(p)' = Notifying(p) \ {s}
  <1>1. PICK w \in Process : proc' = [proc EXCEPT ![s] = w] /\ w.at # "notify"
    BY Finishes
  <1>2. proc' \in [Procs -> Process]
    BY <1>1 DEF TypeOK, Process
  <1>3. \A p \in Products : Notifying(p)' = Notifying(p) \ {s}
    BY <1>1 DEF Notifying, TypeOK
  <1> QED
    BY <1>2, <1>3

LEMMA RecordKeepsIInv ==
  ASSUME IInv, NEW s \in Procs, NEW d \in Deltas, Record(s, d)
  PROVE  IInv'
  <1>1. TypeOK /\ AloneInv /\ AlertsAccountedFor /\ Busy(s)
    BY DEF IInv, Record, Busy, Idle
  <1>2. PICK p \in Products : p = proc[s].of
    BY <1>1, BusyProcess
  <1>3. PICK w : w = [proc[s] EXCEPT !.at = "sum"]
    OBVIOUS
  <1>4. proc' = [proc EXCEPT ![s] = w]
    BY <1>3 DEF Record
  <1>5. w \in Process
    BY <1>1, <1>3, BusyProcess DEF Process, Working
  <1>6. d \in Int
    BY InventoryAssumption
  <1>7. onHand' \in [Products -> Int] /\ \A q \in Products \ {p} : onHand'[q] = onHand[q]
    BY <1>1, <1>2, <1>6 DEF Record, TypeOK
  <1>8. TypeOK'
    BY <1>1, <1>4, <1>5, <1>7 DEF Record, TypeOK, Process
  <1>9. AlertsAccountedFor'
    <2>1. proc[s].at # "notify" /\ w.at # "notify"
      BY <1>1, <1>3, BusyProcess DEF Record, Working
    <2>2. \A q \in Products : Notifying(q)' = Notifying(q)
      BY <1>1, <1>4, <2>1, SameNotifying
    <2> QED
      BY <1>1, <2>2, SameAlerts DEF Record
  <1>10. Knows(proc[s], p) => Knows(w, p)'
    <2>1. /\ PhaseOf(proc[s], p) = "record" /\ PhaseOf(w, p) = "sum"
          /\ RowOf(proc[s], p) = proc[s].row /\ RowOf(w, p) = proc[s].row
      BY <1>1, <1>2, <1>3, BusyProcess DEF Record, RowOf, PhaseOf, Working
    <2>2. product' = product
      BY DEF Record
    <2> QED
      BY <2>1, <2>2 DEF Knows, Same, RowOf, PhaseOf
  <1>11. AloneInv'
    <2>1. /\ UNCHANGED trace
          /\ \A q \in Products \ {p} : Same(product'[q], product[q]) /\ onHand'[q] = onHand[q]
      BY <1>7 DEF Record, Same
    <2> QED
      BY <1>1, <1>2, <1>3, <1>4, <1>10, <2>1, AloneAdvances
  <1> QED
    BY <1>8, <1>9, <1>11 DEF IInv

LEMMA SumKeepsIInv ==
  ASSUME IInv, NEW s \in Procs, Sum(s)
  PROVE  IInv'
  <1>1. TypeOK /\ AloneInv /\ AlertsAccountedFor /\ Busy(s)
    BY DEF IInv, Sum, Busy, Idle
  <1>2. PICK p \in Products : p = proc[s].of
    BY <1>1, BusyProcess
  <1> DEFINE row == proc[s].row
             low == IsLow(row, onHand[p])
  <1>3. row \in Row /\ row.below \in BOOLEAN /\ row.active \in BOOLEAN /\ proc[s].at = "sum"
    BY <1>1, BusyProcess DEF Row, Sum
  <1>4. trace[p] = "alone" => Same(row, product[p])
    <2>1. p \in Held(proc[s]) /\ RowOf(proc[s], p) = row /\ PhaseOf(proc[s], p) = "sum"
      BY <1>1, <1>2, <1>3, BusyProcess DEF RowOf, PhaseOf
    <2> QED
      BY <1>1, <2>1 DEF AloneInv, Knows
  <1>5. /\ \A q \in Products \ {p} : Same(product'[q], product[q])
        /\ UNCHANGED <<product, onHand, alerts, clears, trace, changes, faults>>
    BY DEF Sum, Same
  <1>6. CASE Outcome(row, low) = "unchanged"
    <2>1. Finish(s)
      BY <1>2, <1>6 DEF Sum
    <2>2. low = row.below
      BY <1>6 DEF Outcome
    <2>3. TypeOK'
      BY <1>1, <1>5, <2>1, FinishTypes DEF TypeOK, Process
    <2>4. s \notin Notifying(p) /\ \A q \in Products : Notifying(q)' = Notifying(q)
      BY <1>1, <1>3, <2>1, FinishTypes DEF Notifying
    <2>5. AlertsAccountedFor'
      BY <1>1, <1>5, <2>4, SameAlerts
    <2>6. trace'[p] = "alone" => product'[p].below = Low(p)'
      BY <1>4, <1>5, <2>2 DEF Same, Low, IsLow
    <2>7. AloneInv'
      BY <1>1, <1>2, <1>5, <2>1, <2>6, AloneFinishes
    <2> QED
      BY <2>3, <2>5, <2>7 DEF IInv
  <1>7. CASE Outcome(row, low) # "unchanged"
    <2>1. PICK at : at = Outcome(row, low)
      OBVIOUS
    <2>2. /\ at \in {"claim", "clear"}
          /\ at = "claim" => low /\ ~row.below
          /\ at = "clear" => ~low /\ row.below
      BY <1>3, <1>7, <2>1 DEF Outcome, IsLow, BelowPoint
    <2>3. PICK w : w = [proc[s] EXCEPT !.at = at]
      OBVIOUS
    <2>4. proc' = [proc EXCEPT ![s] = w]
      BY <1>2, <1>7, <2>1, <2>3 DEF Sum
    <2>5. w \in Process /\ w.at = at
      BY <1>1, <2>2, <2>3, BusyProcess DEF Process, Working
    <2>6. TypeOK'
      BY <1>1, <1>5, <2>4, <2>5 DEF TypeOK, Process
    <2>7. \A q \in Products : Notifying(q)' = Notifying(q)
      BY <1>1, <1>3, <2>2, <2>4, <2>5, SameNotifying
    <2>8. AlertsAccountedFor'
      BY <1>1, <1>5, <2>7, SameAlerts
    <2>9. trace[p] = "alone" => Knows(w, p)'
      <3>1. PhaseOf(w, p) = at
        BY <1>1, <1>2, <2>3, <2>5, BusyProcess DEF PhaseOf, Working
      <3> QED
        BY <1>4, <1>5, <2>2, <3>1 DEF Knows, Same, Low, IsLow, PhaseOf
    <2>10. AloneInv'
      BY <1>1, <1>2, <1>5, <2>2, <2>3, <2>4, <2>9, AloneAdvances
    <2> QED
      BY <2>6, <2>8, <2>10 DEF IInv
  <1> QED
    BY <1>6, <1>7

LEMMA NotifyKeepsIInv ==
  ASSUME IInv, NEW s \in Procs, Notify(s)
  PROVE  IInv'
  <1>1. TypeOK /\ AloneInv /\ AlertsAccountedFor /\ Busy(s) /\ Finish(s)
    BY DEF IInv, Notify, Busy, Idle
  <1>2. PICK p \in Products : p = proc[s].of
    BY <1>1, BusyProcess
  <1>3. proc[s].at = "notify" /\ alerts' = [alerts EXCEPT ![p] = @ + 1]
    BY <1>2 DEF Notify
  <1>4. TypeOK'
    BY <1>1, <1>3, FinishTypes DEF Notify, TypeOK, Process
  <1>5. AlertsAccountedFor'
    <2> SUFFICES ASSUME NEW q \in Products
                 PROVE LET sent == alerts'[q] + Cardinality(Notifying(q)') IN
                         /\ sent <= clears'[q] + Flagged(q)'
                         /\ faults' = 0 => sent = clears'[q] + Flagged(q)'
      BY DEF AlertsAccountedFor
    <2>1. Notifying(q) \in SUBSET Procs
      BY DEF Notifying
    <2>2. IsFiniteSet(Notifying(q)) /\ Cardinality(Notifying(q)) \in Nat
      BY <2>1, CountProcs
    <2>3. Notifying(q)' = Notifying(q) \ {s}
      BY <1>1, FinishTypes
    <2>4. s \in Notifying(q) <=> q = p
      BY <1>2, <1>3 DEF Notifying
    <2>5. Cardinality(Notifying(q)')
            = IF q = p THEN Cardinality(Notifying(q)) - 1 ELSE Cardinality(Notifying(q))
      BY <2>2, <2>3, <2>4, FS_RemoveElement
    <2>6. /\ alerts[q] \in Nat /\ clears[q] \in Nat /\ Flagged(q) \in Nat
          /\ alerts'[q] = IF q = p THEN alerts[q] + 1 ELSE alerts[q]
          /\ clears'[q] = clears[q] /\ Flagged(q)' = Flagged(q) /\ faults' = faults
      BY <1>1, <1>3 DEF Notify, TypeOK, Flagged
    <2>7. LET sent == alerts[q] + Cardinality(Notifying(q)) IN
            /\ sent <= clears[q] + Flagged(q)
            /\ faults = 0 => sent = clears[q] + Flagged(q)
      BY <1>1 DEF AlertsAccountedFor
    <2> QED
      BY <2>2, <2>5, <2>6, <2>7
  <1>6. AloneInv'
    <2>1. trace[p] = "alone" => product[p].below = Low(p)
      BY <1>1, <1>2, <1>3, BusyProcess DEF AloneInv, Knows, PhaseOf, Low, IsLow, BelowPoint,
                                           TypeOK, Row
    <2>2. /\ UNCHANGED <<product, onHand, trace>>
          /\ \A q \in Products \ {p} : Same(product'[q], product[q])
          /\ trace'[p] = "alone" => product'[p].below = Low(p)'
      BY <2>1 DEF Notify, Same, Low, IsLow
    <2> QED
      BY <1>1, <1>2, <2>2, AloneFinishes
  <1> QED
    BY <1>4, <1>5, <1>6 DEF IInv

LEMMA ClaimKeepsIInv ==
  ASSUME IInv, NEW s \in Procs, Claim(s)
  PROVE  IInv'
  <1>1. TypeOK /\ AloneInv /\ AlertsAccountedFor /\ Busy(s) /\ proc[s].at = "claim"
    BY DEF IInv, Claim, Busy, Idle
  <1>2. PICK p \in Products : p = proc[s].of
    BY <1>1, BusyProcess
  <1>3. trace[p] = "alone" => ~product[p].below /\ Low(p)
    BY <1>1, <1>2, BusyProcess DEF AloneInv, Knows, PhaseOf
  <1>4. UNCHANGED <<onHand, alerts, clears, trace, changes, faults>>
    BY DEF Claim
  <1>5. CASE ~Matches(p, FALSE)
    <2>1. Finish(s) /\ product' = product
      BY <1>2, <1>5 DEF Claim
    <2>2. product[p].below = TRUE
      BY <1>1, <1>5 DEF Matches, TypeOK, Row
    <2>3. TypeOK'
      BY <1>1, <1>4, <2>1, FinishTypes DEF TypeOK, Process
    <2>4. s \notin Notifying(p) /\ \A q \in Products : Notifying(q)' = Notifying(q)
      BY <1>1, <2>1, FinishTypes DEF Notifying
    <2>5. AlertsAccountedFor'
      BY <1>1, <1>4, <2>1, <2>4, SameAlerts
    <2>6. /\ \A q \in Products \ {p} : Same(product'[q], product[q])
          /\ trace'[p] = "alone" => product'[p].below = Low(p)'
      BY <1>3, <1>4, <2>1, <2>2 DEF Same
    <2>7. AloneInv'
      BY <1>1, <1>2, <1>4, <2>1, <2>6, AloneFinishes
    <2> QED
      BY <2>3, <2>5, <2>7 DEF IInv
  <1>6. CASE Matches(p, FALSE)
    <2> DEFINE row == [product[p] EXCEPT !.below = TRUE]
    <2>1. product[p].below = FALSE /\ row \in Row /\ row.below = TRUE
          /\ row.point = product[p].point /\ row.active = product[p].active
      BY <1>1, <1>6 DEF Matches, TypeOK, Row
    <2>2. product' = Written(p, row)
      BY <1>2, <1>6 DEF Claim, Flip, Matches
    <2>3. /\ product' \in [Products -> Row] /\ Same(product'[p], row)
          /\ \A q \in Products \ {p} : Same(product'[q], product[q])
      BY <1>1, <2>1, <2>2, WrittenRows
    <2>4. PICK w : w = [proc[s] EXCEPT !.at = "notify"]
      OBVIOUS
    <2>5. proc' = [proc EXCEPT ![s] = w]
      BY <1>2, <1>6, <2>4 DEF Claim, Matches
    <2>6. w \in Process /\ w.at = "notify" /\ w.of = p
      BY <1>1, <1>2, <2>4, BusyProcess DEF Process, Working
    <2>7. TypeOK'
      BY <1>1, <1>4, <2>3, <2>5, <2>6 DEF TypeOK, Process
    <2>8. AlertsAccountedFor'
      <3> SUFFICES ASSUME NEW q \in Products
                   PROVE LET sent == alerts'[q] + Cardinality(Notifying(q)') IN
                           /\ sent <= clears'[q] + Flagged(q)'
                           /\ faults' = 0 => sent = clears'[q] + Flagged(q)'
        BY DEF AlertsAccountedFor
      <3>1. Notifying(q) \in SUBSET Procs
        BY DEF Notifying
      <3>2. IsFiniteSet(Notifying(q)) /\ Cardinality(Notifying(q)) \in Nat
        BY <3>1, CountProcs
      <3>3. s \notin Notifying(q)
        BY <1>1 DEF Notifying
      <3>4. Notifying(q)' = IF q = p THEN Notifying(q) \cup {s} ELSE Notifying(q)
        BY <1>1, <2>5, <2>6 DEF Notifying, TypeOK
      <3>5. Cardinality(Notifying(q)')
              = IF q = p THEN Cardinality(Notifying(q)) + 1 ELSE Cardinality(Notifying(q))
        BY <3>2, <3>3, <3>4, FS_AddElement
      <3>6. Flagged(q)' = IF q = p THEN Flagged(q) + 1 ELSE Flagged(q)
        <4>1. CASE q = p
          <5>1. product'[p].below = TRUE
            BY <2>1, <2>3 DEF Same
          <5>2. Flagged(p)' = 1 /\ Flagged(p) = 0
            BY <2>1, <5>1 DEF Flagged
          <5> QED
            BY <4>1, <5>2
        <4>2. CASE q # p
          BY <2>3, <4>2 DEF Flagged, Same
        <4> QED
          BY <4>1, <4>2
      <3>7. alerts[q] \in Nat /\ clears[q] \in Nat /\ Flagged(q) \in Nat
        BY <1>1 DEF TypeOK, Flagged
      <3>8. LET sent == alerts[q] + Cardinality(Notifying(q)) IN
              /\ sent <= clears[q] + Flagged(q)
              /\ faults = 0 => sent = clears[q] + Flagged(q)
        BY <1>1 DEF AlertsAccountedFor
      <3> QED
        BY <1>4, <3>2, <3>5, <3>6, <3>7, <3>8
    <2>9. trace[p] = "alone" => Knows(w, p)'
      <3>1. PhaseOf(w, p) = "notify"
        BY <2>6 DEF PhaseOf
      <3> QED
        BY <1>3, <1>4, <2>1, <2>3, <3>1 DEF Knows, PhaseOf, Same, Low, IsLow
    <2>10. AloneInv'
      BY <1>1, <1>2, <1>4, <2>3, <2>4, <2>5, <2>9, AloneAdvances
    <2> QED
      BY <2>7, <2>8, <2>10 DEF IInv
  <1> QED
    BY <1>5, <1>6

LEMMA ClearKeepsIInv ==
  ASSUME IInv, NEW s \in Procs, Clear(s)
  PROVE  IInv'
  <1>1. TypeOK /\ AloneInv /\ AlertsAccountedFor /\ Busy(s) /\ proc[s].at = "clear" /\ Finish(s)
    BY DEF IInv, Clear, Busy, Idle
  <1>2. PICK p \in Products : p = proc[s].of
    BY <1>1, BusyProcess
  <1>3. trace[p] = "alone" => product[p].below /\ ~Low(p)
    BY <1>1, <1>2, BusyProcess DEF AloneInv, Knows, PhaseOf
  <1>4. UNCHANGED <<onHand, alerts, trace, changes, faults>>
    BY DEF Clear
  <1>5. \A q \in Products : Notifying(q)' = Notifying(q)
    BY <1>1, FinishTypes DEF Notifying
  <1>6. CASE ~Matches(p, TRUE)
    <2>1. UNCHANGED <<product, clears>> /\ product[p].below = FALSE
      BY <1>1, <1>2, <1>6 DEF Clear, Matches, TypeOK, Row
    <2>2. TypeOK'
      BY <1>1, <1>4, <2>1, FinishTypes DEF TypeOK, Process
    <2>3. AlertsAccountedFor'
      BY <1>1, <1>4, <1>5, <2>1, SameAlerts
    <2>4. /\ \A q \in Products \ {p} : Same(product'[q], product[q])
          /\ trace'[p] = "alone" => product'[p].below = Low(p)'
      BY <1>3, <1>4, <2>1 DEF Same
    <2>5. AloneInv'
      BY <1>1, <1>2, <1>4, <2>4, AloneFinishes
    <2> QED
      BY <2>2, <2>3, <2>5 DEF IInv
  <1>7. CASE Matches(p, TRUE)
    <2> DEFINE row == [product[p] EXCEPT !.below = FALSE]
    <2>1. product[p].below = TRUE /\ row \in Row /\ row.below = FALSE
          /\ row.point = product[p].point /\ row.active = product[p].active
      BY <1>1, <1>7 DEF Matches, TypeOK, Row
    <2>2. product' = Written(p, row) /\ clears' = [clears EXCEPT ![p] = @ + 1]
      BY <1>2, <1>7 DEF Clear, Flip, Matches
    <2>3. /\ product' \in [Products -> Row] /\ Same(product'[p], row)
          /\ \A q \in Products \ {p} : Same(product'[q], product[q])
      BY <1>1, <2>1, <2>2, WrittenRows
    <2>4. TypeOK'
      <3>1. clears' \in [Products -> Nat]
        BY <1>1, <2>2 DEF TypeOK
      <3>2. proc' \in [Procs -> Process]
        BY <1>1, FinishTypes
      <3> QED
        BY <1>1, <1>4, <2>3, <3>1, <3>2 DEF TypeOK, Process
    <2>5. AlertsAccountedFor'
      <3> SUFFICES ASSUME NEW q \in Products
                   PROVE LET sent == alerts'[q] + Cardinality(Notifying(q)') IN
                           /\ sent <= clears'[q] + Flagged(q)'
                           /\ faults' = 0 => sent = clears'[q] + Flagged(q)'
        BY DEF AlertsAccountedFor
      <3>1. Notifying(q) \in SUBSET Procs
        BY DEF Notifying
      <3>2. Cardinality(Notifying(q)) \in Nat
        BY <3>1, CountProcs
      <3>3. clears'[q] + Flagged(q)' = clears[q] + Flagged(q)
        <4>1. CASE q = p
          <5>1. product'[p].below = FALSE
            BY <2>1, <2>3 DEF Same
          <5>2. Flagged(p)' = 0 /\ Flagged(p) = 1
            BY <2>1, <5>1 DEF Flagged
          <5>3. clears[p] \in Nat /\ clears'[p] = clears[p] + 1
            BY <1>1, <2>2 DEF TypeOK
          <5> QED
            BY <4>1, <5>2, <5>3
        <4>2. CASE q # p
          BY <1>1, <2>2, <2>3, <4>2 DEF Flagged, Same, TypeOK
        <4> QED
          BY <4>1, <4>2
      <3>4. LET sent == alerts[q] + Cardinality(Notifying(q)) IN
              /\ sent <= clears[q] + Flagged(q)
              /\ faults = 0 => sent = clears[q] + Flagged(q)
        BY <1>1 DEF AlertsAccountedFor
      <3> QED
        BY <1>4, <1>5, <3>2, <3>3, <3>4
    <2>6. trace'[p] = "alone" => product'[p].below = Low(p)'
      BY <1>3, <1>4, <2>1, <2>3 DEF Same, Low, IsLow
    <2>7. AloneInv'
      BY <1>1, <1>2, <1>4, <2>3, <2>6, AloneFinishes
    <2> QED
      BY <2>4, <2>5, <2>7 DEF IInv
  <1> QED
    BY <1>6, <1>7

\* An error or a crash may lose an announcement, and leaves nobody alone.
LEMMA FaultKeepsIInv ==
  ASSUME IInv, NEW s \in Procs, Fail(s) \/ Crash(s)
  PROVE  IInv'
  <1>1. TypeOK /\ AloneInv /\ AlertsAccountedFor /\ Busy(s)
    BY DEF IInv, Fail, Crash
  <1>2. PICK p \in Products : p = proc[s].of
    BY <1>1, BusyProcess
  <1>3. /\ UNCHANGED <<product, onHand, alerts, clears, changes>>
        /\ faults' \in 0..MaxFaults /\ faults' # 0
        /\ \A q \in Products : Same(product'[q], product[q])
    BY <1>1, BoundsHold DEF Fail, Crash, Same
  <1>4. CASE Fail(s)
    <2>1. Finish(s) /\ trace' = [trace EXCEPT ![p] = "mixed"]
      BY <1>2, <1>4 DEF Fail
    <2>2. TypeOK'
      BY <1>1, <1>3, <2>1, FinishTypes DEF TypeOK, Process
    <2>3. AlertsAccountedFor'
      BY <1>1, <1>3, <2>1, FinishTypes, SameAlerts
    <2>4. /\ trace'[p] # "alone"
          /\ \A q \in Products : trace'[q] = "alone" => trace[q] = "alone"
      BY <1>1, <2>1 DEF TypeOK
    <2>5. AloneInv'
      BY <1>1, <1>2, <1>3, <2>1, <2>4, AloneFinishes
    <2> QED
      BY <2>2, <2>3, <2>5 DEF IInv
  <1>5. CASE Crash(s)
    <2>1. /\ proc' = [proc EXCEPT ![s] = Idle]
          /\ trace' = [q \in Products |-> IF s \in Holders(q) THEN "mixed" ELSE trace[q]]
      BY <1>5 DEF Crash
    <2>2. Idle \in Process /\ Held(Idle) = {} /\ Idle.at = "idle"
      BY DEF Process, Held, Idle
    <2>3. TypeOK'
      BY <1>1, <1>3, <2>1 DEF TypeOK
    <2>4. AlertsAccountedFor'
      <3>1. \A q \in Products : Notifying(q)' \subseteq Notifying(q)
        BY <1>1, <2>1, <2>2 DEF Notifying, TypeOK
      <3> QED
        BY <1>1, <1>3, <3>1, SameAlerts
    <2>5. AloneInv'
      <3>1. \A q \in Products : trace'[q] = "alone" =>
              trace[q] = "alone" /\ q \notin Held(proc[s])
        BY <2>1, HoldersHold
      <3>2. \A q \in Products : trace'[q] = "alone" =>
              /\ trace[q] = "alone"
              /\ q \notin Held(proc[s]) => Same(product'[q], product[q]) /\ onHand'[q] = onHand[q]
              /\ q \in Held(Idle) => Knows(Idle, q)'
              /\ q \in Held(proc[s]) \ Held(Idle) => product'[q].below = Low(q)'
        BY <1>3, <2>2, <3>1
      <3> QED
        BY <1>1, <2>1, <2>2, <3>2, AloneGoesOn
    <2> QED
      BY <2>3, <2>4, <2>5 DEF IInv
  <1> QED
    BY <1>4, <1>5

LEMMA StutterKeepsIInv ==
  ASSUME IInv, UNCHANGED vars
  PROVE  IInv'
  BY DEF vars, IInv, TypeOK, AlertsAccountedFor, AloneInv, Notifying, Flagged, Knows, Held,
         RowOf, PhaseOf, Low

LEMMA NextKeepsIInv == IInv /\ [Next]_vars => IInv'
  <1> SUFFICES ASSUME IInv, [Next]_vars PROVE IInv'
    OBVIOUS
  <1>1. ASSUME NEW p \in Products, Edit(p) PROVE IInv'
    BY <1>1, ReadKeepsIInv, UpdateKeepsIInv, RenameKeepsIInv DEF Edit
  <1>2. ASSUME NEW s \in Sweepers, StartSweep(s) PROVE IInv'
    BY <1>2, SweepKeepsIInv
  <1>3. ASSUME NEW s \in Procs, Evaluate(s) PROVE IInv'
    BY <1>3, RecordKeepsIInv, SumKeepsIInv, ClaimKeepsIInv, NotifyKeepsIInv, ClearKeepsIInv
    DEF Evaluate
  <1>4. ASSUME NEW s \in Procs, Fail(s) \/ Crash(s) PROVE IInv'
    BY <1>4, FaultKeepsIInv
  <1>5. CASE UNCHANGED vars
    BY <1>5, StutterKeepsIInv
  <1> QED
    BY <1>1, <1>2, <1>3, <1>4, <1>5 DEF Next

\* The strengthened invariant, for any products, requests and sweeps.
THEOREM InventoryInvariant == Spec => []IInv
  BY InitIInv, NextKeepsIInv, PTL DEF Spec

\* The rows, the stock and what the processes hold keep their types; no sweep
\* holds a row twice.
THEOREM InventoryTypeCorrect == Spec => []TypeOK
  <1>1. IInv => TypeOK
    BY DEF IInv
  <1> QED
    BY <1>1, InventoryInvariant, PTL

\* The guarded updateMany makes the alert edge-triggered: one alert at most for
\* each time the flag is set, exactly one as long as nothing fails.
THEOREM OneAlertPerFlag == Spec => []AlertsAccountedFor
  <1>1. IInv => AlertsAccountedFor
    BY DEF IInv
  <1> QED
    BY <1>1, InventoryInvariant, PTL

\* Whatever races left behind, the next evaluation that runs undisturbed puts
\* the flag of its product right.
THEOREM UndisturbedEvaluationsAreRight == Spec => []AloneIsRight
  <1>1. IInv => AloneIsRight
    BY HoldersHold DEF IInv, AloneInv, AloneIsRight
  <1> QED
    BY <1>1, InventoryInvariant, PTL
=============================================================================
