------------------------------ MODULE Inventory ------------------------------
(***************************************************************************)
(* Stock and reorder alerts (modules/inventory): movements, product        *)
(* updates and the periodic sweep all run evaluateReorderAlert, whose      *)
(* awaits interleave.  It works on a row of products read some awaits      *)
(* earlier, and flips belowReorderPoint with a guarded updateMany.         *)
(***************************************************************************)
EXTENDS Integers, FiniteSets

CONSTANTS
  Products,     \* products of an organization that has someone to alert
  Requests,     \* API requests in progress
  Sweepers,     \* workers that run inventory.reorder.sweep
  Points,       \* reorder points; 0 stands for null too: not tracked
  Deltas,       \* what a movement adds to the stock
  BatchSize,    \* REORDER_SWEEP_BATCH_SIZE
  MaxChanges,   \* bound: movements and product updates in a behaviour
  MaxFaults     \* bound: queries that fail and processes that die

ASSUME InventoryAssumption ==
  /\ IsFiniteSet(Products) /\ IsFiniteSet(Requests) /\ IsFiniteSet(Sweepers)
  /\ Requests \cap Sweepers = {}
  /\ Points \subseteq Nat /\ Deltas \subseteq Int
  /\ BatchSize \in Nat \ {0} /\ MaxChanges \in Nat /\ MaxFaults \in Nat

Procs == Requests \cup Sweepers

VARIABLES
  product,   \* rows of products
  onHand,    \* sum of a product's movements
  proc,      \* what a request or a sweep is doing, and the rows it has read
  alerts,    \* batches of notifications written for a product
  clears,    \* times its flag was cleared
  trace,     \* how its last evaluation went: "alone" if nothing disturbed it
  changes, faults

vars == <<product, onHand, proc, alerts, clears, trace, changes, faults>>

\* recency stands for updatedAt: the rank of the row by its last write.
Ranks == 1..Cardinality(Products)
Row == [point : Points, active : BOOLEAN, below : BOOLEAN, recency : Ranks]

\* Rows read and not evaluated yet.
Batch == UNION {[S -> Row] : S \in SUBSET Products}

Idle == [at |-> "idle"]
Working == [at : {"record", "sum", "claim", "clear", "notify"},
            of : Products, row : Row, rest : Batch]
Busy(s) == proc[s] # Idle

TypeOK ==
  /\ product \in [Products -> Row]
  /\ onHand \in [Products -> Int]
  /\ proc \in [Procs -> {Idle} \cup {w \in Working : w.of \notin DOMAIN w.rest}]
  /\ alerts \in [Products -> Nat]
  /\ clears \in [Products -> Nat]
  /\ trace \in [Products -> {"new", "alone", "mixed"}]
  /\ changes \in 0..MaxChanges
  /\ faults \in 0..MaxFaults

\* Products as ProductService.create leaves them: nothing is evaluated.
Init ==
  /\ product \in [Products -> {r \in Row : ~r.below}]
  /\ \A p, q \in Products : product[p].recency = product[q].recency => p = q
  /\ onHand = [p \in Products |-> 0]
  /\ proc = [s \in Procs |-> Idle]
  /\ alerts = [p \in Products |-> 0]
  /\ clears = [p \in Products |-> 0]
  /\ trace = [p \in Products |-> "new"]
  /\ changes = 0
  /\ faults = 0

-----------------------------------------------------------------------------
\* isBelowReorderPoint
BelowPoint(stock, point) == point > 0 /\ stock < point
IsLow(row, stock) == row.active /\ BelowPoint(stock, row.point)
Low(p) == IsLow(product[p], onHand[p])
Tracked(p) == product[p].active /\ product[p].point > 0

\* A write of p's row makes it the most recent.
Written(p, row) ==
  [q \in Products |->
     IF q = p THEN [row EXCEPT !.recency = Cardinality(Products)]
     ELSE IF product[q].recency > product[p].recency
          THEN [product[q] EXCEPT !.recency = @ - 1]
          ELSE product[q]]

\* Who has read p's row and not finished with it.
Holders(p) == {s \in Procs : Busy(s) /\ p \in {proc[s].of} \cup DOMAIN proc[s].rest}

\* The processes that start now on the products of S are alone, or not.
Begun(S) ==
  [p \in Products |-> IF p \notin S THEN trace[p]
                      ELSE IF Holders(p) = {} THEN "alone" ELSE "mixed"]

One(at, p, row) == [at |-> at, of |-> p, row |-> row, rest |-> <<>>]

\* The evaluations that may come next: a sweep goes on with the row that was
\* written least recently.
Oldest(rows) ==
  {p \in DOMAIN rows : \A q \in DOMAIN rows : rows[p].recency <= rows[q].recency}

Without(rows, p) == [q \in DOMAIN rows \ {p} |-> rows[q]]

GoOn(rows) ==
  IF DOMAIN rows = {} THEN {Idle}
  ELSE {[at |-> "sum", of |-> p, row |-> rows[p], rest |-> Without(rows, p)] : p \in Oldest(rows)}

\* The row at hand is done with: a request ends, a sweep goes on.
Finish(s) == \E next \in GoOn(proc[s].rest) : proc' = [proc EXCEPT ![s] = next]

Change == changes < MaxChanges /\ changes' = changes + 1
Fault == faults < MaxFaults /\ faults' = faults + 1

-----------------------------------------------------------------------------
\* recordMovement reads the product, with its flag, before it adds the movement.
ReadForMovement(r, p) ==
  /\ proc[r] = Idle
  /\ Change
  /\ proc' = [proc EXCEPT ![r] = One("record", p, product[p])]
  /\ trace' = Begun({p})
  /\ UNCHANGED <<product, onHand, alerts, clears, faults>>

Record(r, d) ==
  /\ proc[r].at = "record"
  /\ onHand' = [onHand EXCEPT ![proc[r].of] = @ + d]
  /\ proc' = [proc EXCEPT ![r].at = "sum"]
  /\ UNCHANGED <<product, alerts, clears, trace, changes, faults>>

\* A patch of reorderPoint or active is evaluated on the row update() returns.
UpdateProduct(r, p, point, active) ==
  /\ proc[r] = Idle
  /\ Change
  /\ product' = Written(p, [product[p] EXCEPT !.point = point, !.active = active])
  /\ proc' = [proc EXCEPT ![r] = One("sum", p, product'[p])]
  /\ trace' = Begun({p})
  /\ UNCHANGED <<onHand, alerts, clears, faults>>

\* A patch of anything else only moves updatedAt.
Rename(p) ==
  /\ Change
  /\ product' = Written(p, product[p])
  /\ UNCHANGED <<onHand, proc, alerts, clears, trace, faults>>

\* The sweep reads its whole batch at once, least recently written first.
\* Mutant: it looks at products that are not flagged only.
UnflaggedOnly == {p \in Products : Tracked(p) /\ ~product[p].below}
Candidates == {p \in Products : Tracked(p)}

Batches ==
  {S \in (SUBSET Candidates) \ {{}} :
     /\ Cardinality(S) = BatchSize \/ (S = Candidates /\ Cardinality(S) < BatchSize)
     /\ \A p \in S, q \in Candidates \ S : product[p].recency <= product[q].recency}

StartSweep(s) ==
  /\ proc[s] = Idle
  /\ \E S \in Batches :
       /\ \E next \in GoOn([p \in S |-> product[p]]) : proc' = [proc EXCEPT ![s] = next]
       /\ trace' = Begun(S)
  /\ UNCHANGED <<product, onHand, alerts, clears, changes, faults>>

-----------------------------------------------------------------------------
\* evaluateReorderAlert: the stock is summed now and compared with the row read.
\* Mutant: a product that recovered is left flagged.
NeverCleared(row, low) == IF low /\ ~row.below THEN "claim" ELSE "unchanged"
Outcome(row, low) ==
  IF low = row.below THEN "unchanged" ELSE IF low THEN "claim" ELSE "clear"

Sum(s) ==
  /\ proc[s].at = "sum"
  /\ LET row == proc[s].row
         outcome == Outcome(row, IsLow(row, onHand[proc[s].of]))
     IN  \/ outcome = "unchanged" /\ Finish(s)
         \/ outcome # "unchanged" /\ proc' = [proc EXCEPT ![s].at = outcome]
  /\ UNCHANGED <<product, onHand, alerts, clears, trace, changes, faults>>

\* Mutant: updateMany without belowReorderPoint in its where.
AnyRow(p, below) == TRUE
Matches(p, below) == product[p].below = below

Flip(p, below) == product' = Written(p, [product[p] EXCEPT !.below = below])

Claim(s) ==
  /\ proc[s].at = "claim"
  /\ LET p == proc[s].of IN
       \/ /\ Matches(p, FALSE)
          /\ Flip(p, TRUE)
          /\ proc' = [proc EXCEPT ![s].at = "notify"]
       \/ ~Matches(p, FALSE) /\ Finish(s) /\ UNCHANGED product
  /\ UNCHANGED <<onHand, alerts, clears, trace, changes, faults>>

Notify(s) ==
  /\ proc[s].at = "notify"
  /\ alerts' = [alerts EXCEPT ![proc[s].of] = @ + 1]
  /\ Finish(s)
  /\ UNCHANGED <<product, onHand, clears, trace, changes, faults>>

Clear(s) ==
  /\ proc[s].at = "clear"
  /\ LET p == proc[s].of IN
       \/ /\ Matches(p, TRUE)
          /\ Flip(p, FALSE)
          /\ clears' = [clears EXCEPT ![p] = @ + 1]
       \/ ~Matches(p, TRUE) /\ UNCHANGED <<product, clears>>
  /\ Finish(s)
  /\ UNCHANGED <<onHand, alerts, trace, changes, faults>>

\* A query fails: the request ends, the sweep logs it and goes on.
Fail(s) ==
  /\ Busy(s)
  /\ Fault
  /\ trace' = [trace EXCEPT ![proc[s].of] = "mixed"]
  /\ Finish(s)
  /\ UNCHANGED <<product, onHand, alerts, clears, changes>>

\* The process dies, with the rest of its batch.
Crash(s) ==
  /\ Busy(s)
  /\ Fault
  /\ trace' = [p \in Products |-> IF s \in Holders(p) THEN "mixed" ELSE trace[p]]
  /\ proc' = [proc EXCEPT ![s] = Idle]
  /\ UNCHANGED <<product, onHand, alerts, clears, changes>>

-----------------------------------------------------------------------------
Evaluate(s) ==
  \/ \E d \in Deltas : Record(s, d)
  \/ Sum(s) \/ Claim(s) \/ Notify(s) \/ Clear(s)

Edit(p) ==
  \/ \E r \in Requests :
       \/ ReadForMovement(r, p)
       \/ \E point \in Points, active \in BOOLEAN : UpdateProduct(r, p, point, active)
  \/ Rename(p)

Next ==
  \/ \E p \in Products : Edit(p)
  \/ \E s \in Sweepers : StartSweep(s)
  \/ \E s \in Procs : Evaluate(s) \/ Fail(s) \/ Crash(s)

Spec == Init /\ [][Next]_vars

\* Awaits settle.  Nothing in the repository starts sweeps by itself.
FairSpec == Spec /\ \A s \in Procs : WF_vars(Evaluate(s))

-----------------------------------------------------------------------------
Flagged(p) == IF product[p].below THEN 1 ELSE 0
Notifying(p) == {s \in Procs : proc[s].at = "notify" /\ proc[s].of = p}

\* inventory.service.ts:180-186: each time the flag is set there is at most one
\* alert, and without faults exactly one, however many evaluations overlap.
AlertsAccountedFor ==
  \A p \in Products :
    LET sent == alerts[p] + Cardinality(Notifying(p)) IN
      /\ sent <= clears[p] + Flagged(p)
      /\ faults = 0 => sent = clears[p] + Flagged(p)

\* One evaluation that nothing disturbs puts the flag right, whatever earlier
\* races left there: stale rows do no lasting harm by themselves.
AloneIsRight ==
  \A p \in Products :
    (trace[p] = "alone" /\ Holders(p) = {}) => product[p].below = Low(p)

\* The sweep is a safety net: if sweeps go on being requested and the batch has
\* room, the flags of all tracked products agree with the stock in the end.
SweepsRepair ==
  []<><<\E s \in Sweepers : StartSweep(s)>>_vars
    => <>[](\A p \in Products : Tracked(p) => product[p].below = Low(p))
=============================================================================
