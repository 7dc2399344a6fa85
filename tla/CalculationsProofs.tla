------------------------- MODULE CalculationsProofs -------------------------
(***************************************************************************)
(* Theorems about Calculations, for texts, invoices and lists of any       *)
(* length, and about Conversations, for any number of threads, messages,   *)
(* webhooks and workers.                                                   *)
(***************************************************************************)
EXTENDS Conversations, Calculations, WellFoundedInduction, FiniteSetTheorems, TLAPS

LEMMA TotalsSteps == CalculationsNext => computeInvoiceTotals \/ UNCHANGED totalsVars
BY DEF CalculationsNext, Only

LEMMA ChunksSteps == CalculationsNext => chunkText \/ UNCHANGED chunkVars
BY DEF CalculationsNext, Only

LEMMA SnapshotsSteps == CalculationsNext => SnapshotsNext \/ UNCHANGED snapshotVars
BY DEF CalculationsNext, Only

-----------------------------------------------------------------------------
(* Numbers *)

LEMMA LeastExists ==
  ASSUME NEW T, T \subseteq Nat, T # {}
  PROVE  \E t \in T : \A u \in T : t <= u
<1>1. PICK t \in T : \A u \in T : ~(<<u, t>> \in OpToRel(<, Nat))
  BY NatLessThanWellFounded, WFMin
<1>2. ASSUME NEW u \in T PROVE t <= u
  <2>1. ~(u < t)
    BY <1>1 DEF OpToRel
  <2> QED
    BY <2>1
<1> QED
  BY <1>2

(***************************************************************************)
(* Recursive functions of a number: there is one, by induction on the      *)
(* least number up to which there is none.                                 *)
(***************************************************************************)

LEMMA UpTo ==
  ASSUME NEW N \in Nat, NEW T, 0 \in T, \A n \in 1..N : n - 1 \in T => n \in T
  PROVE  0..N \subseteq T
<1> SUFFICES ASSUME (0..N) \ T # {}
             PROVE  FALSE
  OBVIOUS
<1>1. PICK n \in (0..N) \ T : \A m \in (0..N) \ T : n <= m
  <2>1. (0..N) \ T \subseteq Nat
    OBVIOUS
  <2> QED
    BY <2>1, LeastExists, Zenon
<1>2. n \in 1..N /\ n - 1 \in 0..N /\ ~(n <= n - 1)
  BY <1>1
<1> QED
  BY <1>1, <1>2

\* step[<<v, n>>] is the value at n if v is the one at n - 1.
Unfolds(f, m, first, step) ==
  f[0] = first /\ \A n \in 1..m : f[n] = step[<<f[n - 1], n>>]

LEMMA RecursionExists ==
  ASSUME NEW N \in Nat, NEW V, NEW first \in V, NEW step \in [V \X (1..N) -> V]
  PROVE  \E f \in [0..N -> V] : Unfolds(f, N, first, step)
<1> DEFINE T == {m \in 0..N : \E f \in [0..m -> V] : Unfolds(f, m, first, step)}
<1>1. 0 \in T
  <2>1. [i \in 0..0 |-> first] \in [0..0 -> V]
    OBVIOUS
  <2>2. Unfolds([i \in 0..0 |-> first], 0, first, step)
    BY DEF Unfolds
  <2> QED
    BY <2>1, <2>2
<1>2. ASSUME NEW m \in 1..N, m - 1 \in T
      PROVE  m \in T
  <2>1. PICK f \in [0..(m - 1) -> V] : Unfolds(f, m - 1, first, step)
    BY <1>2
  <2> DEFINE g == [i \in 0..m |-> IF i = m THEN step[<<f[m - 1], m>>] ELSE f[i]]
  <2>2. f[m - 1] \in V
    BY <2>1
  <2>3. step[<<f[m - 1], m>>] \in V
    BY <2>2
  <2>4. g \in [0..m -> V]
    BY <2>1, <2>3
  <2>5. g[0] = first
    BY <2>1 DEF Unfolds
  <2>6. ASSUME NEW n \in 1..m PROVE g[n] = step[<<g[n - 1], n>>]
    <3>1. CASE n = m
      BY <3>1
    <3>2. CASE n # m
      <4>1. n \in 1..(m - 1) /\ n - 1 \in 0..m /\ n - 1 # m
        BY <3>2
      <4>2. f[n] = step[<<f[n - 1], n>>]
        BY <2>1, <4>1 DEF Unfolds
      <4> QED
        BY <3>2, <4>1, <4>2
    <3> QED
      BY <3>1, <3>2
  <2>7. Unfolds(g, m, first, step)
    BY <2>5, <2>6 DEF Unfolds
  <2> QED
    BY <2>4, <2>7
<1> HIDE DEF T
<1>3. 0..N \subseteq T
  BY <1>1, <1>2, UpTo
<1>4. N \in T
  BY <1>3
<1> QED
  BY <1>4 DEF T

-----------------------------------------------------------------------------
(* Totals *)

LEMMA RoundTenths ==
  ASSUME NEW n \in Int
  PROVE  /\ Round(n, 10) \in Int
         /\ -5 <= 10 * Round(n, 10) - n
         /\ 10 * Round(n, 10) - n <= 5
BY DEF Round

LEMMA RoundTenThousandths ==
  ASSUME NEW n \in Int
  PROVE  /\ Round(n, 10000) \in Int
         /\ -5000 <= 10000 * Round(n, 10000) - n
         /\ 10000 * Round(n, 10000) - n <= 5000
BY DEF Round

LEMMA ProductInInt ==
  ASSUME NEW m \in Int, NEW n \in Int
  PROVE  m * n \in Int
OBVIOUS

\* An error within five stays within five per piece.
LEMMA ErrorPerPiece ==
  ASSUME NEW d \in -5..5, NEW quantity \in Nat
  PROVE  /\ d * quantity \in Int
         /\ -5 * quantity <= d * quantity
         /\ d * quantity <= 5 * quantity
<1>1. d \in {-5, -4, -3, -2, -1, 0, 1, 2, 3, 4, 5}
  OBVIOUS
<1> QED
  BY <1>1

TotalsInv ==
  /\ {priced, subtotalCents, taxCents, pieces, exactPrice, exactTax} \subseteq Int
  /\ RoundingIsBounded

LEMMA TotalsInitInv == TotalsInit => TotalsInv
BY DEF TotalsInit, TotalsInv, RoundingIsBounded

LEMMA LineKeepsInv ==
  ASSUME TotalsInv, NEW quantity \in Quantities, NEW price \in Prices, NEW rate \in Rates,
         computeLine(quantity, price, rate)
  PROVE  TotalsInv'
<1> DEFINE cents == toCents(price)
           line == cents * quantity
           tax == Round(line * rate, 10000)
           d == 10 * cents - price
<1>1. quantity \in Nat /\ price \in Int /\ rate \in Int
  BY TotalsAssumption DEF computeLine, WellFormed
<1>2. cents \in Int /\ d \in -5..5
  <2>1. Round(price, 10) \in Int /\ -5 <= 10 * Round(price, 10) - price
          /\ 10 * Round(price, 10) - price <= 5
    BY <1>1, RoundTenths
  <2>2. cents = Round(price, 10)
    BY DEF toCents
  <2> HIDE DEF cents
  <2> QED
    BY <1>1, <2>1, <2>2
<1>3. line \in Int /\ line * rate \in Int /\ price * quantity \in Int
  BY <1>1, <1>2, ProductInInt
<1>4. /\ tax \in Int
      /\ -5000 <= 10000 * tax - line * rate
      /\ 10000 * tax - line * rate <= 5000
  BY <1>3, RoundTenThousandths
<1>5. /\ 10 * line - price * quantity = d * quantity
      /\ d * quantity \in Int
      /\ -5 * quantity <= d * quantity
      /\ d * quantity <= 5 * quantity
  <2>1. 10 * (cents * quantity) - price * quantity = (10 * cents - price) * quantity
    BY <1>1, <1>2
  <2> QED
    BY <1>1, <1>2, <2>1, ErrorPerPiece
<1>6. /\ subtotalCents' = subtotalCents + line
      /\ taxCents' = taxCents + tax
      /\ exactTax' = exactTax + line * rate
      /\ priced' = priced + 1
      /\ pieces' = pieces + quantity
      /\ exactPrice' = exactPrice + price * quantity
  BY DEF computeLine
<1>7. {priced, subtotalCents, taxCents, pieces, exactPrice, exactTax} \subseteq Int
  BY DEF TotalsInv
<1> HIDE DEF cents, line, tax, d
<1>8. {priced', subtotalCents', taxCents', pieces', exactPrice', exactTax'} \subseteq Int
  BY <1>1, <1>3, <1>4, <1>6, <1>7
<1>9. /\ -5 * pieces' <= 10 * subtotalCents' - exactPrice'
      /\ 10 * subtotalCents' - exactPrice' <= 5 * pieces'
  <2> DEFINE x == price * quantity
             y == d * quantity
  <2>1. /\ -5 * pieces <= 10 * subtotalCents - exactPrice
        /\ 10 * subtotalCents - exactPrice <= 5 * pieces
    BY DEF TotalsInv, RoundingIsBounded
  <2>2. /\ x \in Int /\ y \in Int /\ 10 * line - x = y
        /\ -5 * quantity <= y /\ y <= 5 * quantity
        /\ exactPrice' = exactPrice + x
    BY <1>3, <1>5, <1>6
  <2> HIDE DEF x, y
  <2> QED
    BY <1>1, <1>3, <1>6, <1>7, <2>1, <2>2
<1>10. /\ -5000 * priced' <= 10000 * taxCents' - exactTax'
       /\ 10000 * taxCents' - exactTax' <= 5000 * priced'
  <2> DEFINE z == line * rate
  <2>1. /\ -5000 * priced <= 10000 * taxCents - exactTax
        /\ 10000 * taxCents - exactTax <= 5000 * priced
    BY DEF TotalsInv, RoundingIsBounded
  <2>2. /\ z \in Int /\ -5000 <= 10000 * tax - z /\ 10000 * tax - z <= 5000
        /\ exactTax' = exactTax + z
    BY <1>3, <1>4, <1>6
  <2> HIDE DEF z
  <2> QED
    BY <1>4, <1>6, <1>7, <2>1, <2>2
<1> QED
  BY <1>8, <1>9, <1>10 DEF TotalsInv, RoundingIsBounded

\* Whatever the lines, and however many: prices are off by half a cent a piece at
\* most and taxes by half a cent a line (invoice.totals.ts:95-109).
THEOREM RoundingStaysBounded == CalculationsSpec => []RoundingIsBounded
<1>1. CalculationsInit => TotalsInv
  BY TotalsInitInv DEF CalculationsInit
<1>2. TotalsInv /\ [CalculationsNext]_calculationVars => TotalsInv'
  <2> SUFFICES ASSUME TotalsInv, [CalculationsNext]_calculationVars PROVE TotalsInv'
    OBVIOUS
  <2>1. CASE computeInvoiceTotals
    <3>1. ASSUME NEW quantity, NEW price, NEW rate, refuseLine(quantity, price, rate)
          PROVE  TotalsInv'
      BY <3>1 DEF refuseLine, TotalsInv, RoundingIsBounded
    <3> QED
      BY <2>1, <3>1, LineKeepsInv DEF computeInvoiceTotals
  <2>2. CASE UNCHANGED totalsVars
    BY <2>2 DEF totalsVars, TotalsInv, RoundingIsBounded
  <2>3. computeInvoiceTotals \/ UNCHANGED totalsVars
    BY TotalsSteps DEF calculationVars
  <2> QED
    BY <2>1, <2>2, <2>3
<1>3. TotalsInv => RoundingIsBounded
  BY DEF TotalsInv
<1> QED
  BY <1>1, <1>2, <1>3, PTL DEF CalculationsSpec

-----------------------------------------------------------------------------
(* Chunks *)

Chunk == [from : Nat, to : Nat, size : Nat]

\* Sentence n follows on the last of the chunks in s.
Follows(s, n) == n = IF s = <<>> THEN 1 ELSE s[Len(s)].to + 1

\* The chunks that are closed, then the one that is being filled.
ChunksInv ==
  /\ taken \in Nat /\ chunks \in Seq(Chunk) /\ current \in Chunk
  /\ \A k \in 1..Len(chunks) :
       /\ chunks[k].from <= chunks[k].to
       /\ chunks[k].from = IF k = 1 THEN 1 ELSE chunks[k - 1].to + 1
  /\ Follows(chunks, current.from)
  /\ IF taken = 0 THEN current = Empty /\ chunks = <<>>
     ELSE current.size > 0 /\ current.from <= current.to /\ current.to = taken

LEMMA ChunksInitInv == ChunksInit => ChunksInv
BY DEF ChunksInit, ChunksInv, Chunk, Follows, Empty

\* A chunk that follows on others that are in order is in order with them.
LEMMA AppendInOrder ==
  ASSUME NEW s \in Seq(Chunk), NEW c \in Chunk, Follows(s, c.from), c.from <= c.to,
         \A k \in 1..Len(s) :
           /\ s[k].from <= s[k].to
           /\ s[k].from = IF k = 1 THEN 1 ELSE s[k - 1].to + 1
  PROVE  LET r == Append(s, c) IN
         /\ r \in Seq(Chunk) /\ r # <<>> /\ r[Len(r)] = c
         /\ \A k \in 1..Len(r) :
              /\ r[k].from <= r[k].to
              /\ r[k].from = IF k = 1 THEN 1 ELSE r[k - 1].to + 1
<1> DEFINE r == Append(s, c)
<1>1. r \in Seq(Chunk) /\ Len(r) = Len(s) + 1 /\ r[Len(s) + 1] = c
  OBVIOUS
<1>2. \A k \in 1..Len(s) : r[k] = s[k]
  OBVIOUS
<1>3. ASSUME NEW k \in 1..Len(r)
      PROVE  /\ r[k].from <= r[k].to
             /\ r[k].from = IF k = 1 THEN 1 ELSE r[k - 1].to + 1
  <2>1. CASE k \in 1..Len(s)
    <3>1. r[k] = s[k] /\ (k # 1 => r[k - 1] = s[k - 1])
      BY <1>2, <2>1
    <3> QED
      BY <2>1, <3>1
  <2>2. CASE k = Len(s) + 1
    <3>1. r[k] = c
      BY <1>1, <2>2
    <3>2. CASE s = <<>>
      BY <2>2, <3>1, <3>2 DEF Follows
    <3>3. CASE s # <<>>
      <4>1. Len(s) \in 1..Len(s) /\ k # 1 /\ k - 1 = Len(s)
        BY <2>2, <3>3
      <4>2. r[k - 1] = s[Len(s)]
        BY <1>2, <4>1
      <4> QED
        BY <3>1, <3>3, <4>1, <4>2 DEF Follows
    <3> QED
      BY <3>2, <3>3
  <2> QED
    BY <1>1, <2>1, <2>2
<1> QED
  BY <1>1, <1>3

LEMMA SentenceKeepsInv ==
  ASSUME ChunksInv, NEW length \in Lengths, Sentence(length)
  PROVE  ChunksInv'
<1>1. length \in Nat /\ length > 0 /\ taken' = taken + 1 /\ taken \in Nat
  BY ChunksAssumption DEF Sentence, ChunksInv
<1>2. \A size \in Nat : joinedSize(size, length) \in Nat /\ joinedSize(size, length) > 0
  BY <1>1 DEF joinedSize
<1>3. CASE current.size > 0 /\ Exceeds(length)
  <2>1. PICK t \in Tails(current.size) :
          chunks' = Append(chunks, current) /\ current' = NextChunk(t, length)
    BY <1>3 DEF Sentence
  <2>2. taken # 0
    BY <1>3 DEF ChunksInv, Empty
  <2>3. /\ chunks' \in Seq(Chunk) /\ chunks' # <<>> /\ chunks'[Len(chunks')] = current
        /\ \A k \in 1..Len(chunks') :
             /\ chunks'[k].from <= chunks'[k].to
             /\ chunks'[k].from = IF k = 1 THEN 1 ELSE chunks'[k - 1].to + 1
    BY <2>1, <2>2, AppendInOrder DEF ChunksInv
  <2>4. t \in Nat
    BY DEF Tails
  <2>5. /\ current' \in Chunk /\ current'.size > 0
        /\ current'.from = taken + 1 /\ current'.to = taken + 1
    BY <1>1, <1>2, <2>1, <2>4 DEF NextChunk, Chunk
  <2>6. Follows(chunks', current'.from)
    BY <2>2, <2>3, <2>5 DEF Follows, ChunksInv
  <2> QED
    BY <1>1, <2>3, <2>5, <2>6 DEF ChunksInv
<1>4. CASE ~(current.size > 0 /\ Exceeds(length))
  <2>1. /\ chunks' = chunks
        /\ current' = [current EXCEPT !.to = taken + 1, !.size = joinedSize(@, length)]
    BY <1>4 DEF Sentence
  <2>2. current \in Chunk
    BY DEF ChunksInv
  <2>3. /\ current' \in Chunk /\ current'.size > 0
        /\ current'.from = current.from /\ current'.to = taken + 1
    <3>1. current' = [from |-> current.from, to |-> taken + 1,
                      size |-> joinedSize(current.size, length)]
      BY <2>1, <2>2 DEF Chunk
    <3>2. current.from \in Nat /\ current.size \in Nat
      BY <2>2 DEF Chunk
    <3> QED
      BY <1>1, <1>2, <3>1, <3>2 DEF Chunk
  <2>4. current.from <= taken + 1
    BY <1>1, <2>2 DEF ChunksInv, Empty, Chunk
  <2> QED
    BY <1>1, <2>1, <2>3, <2>4 DEF ChunksInv, Follows
<1> QED
  BY <1>3, <1>4

\* For sentences of any length and number, and any target and overlap: each is in
\* one chunk, whole, and the chunks are in their order (chunker.ts:57-83).
THEOREM NoSentenceIsLost == CalculationsSpec => []SentencesAreKept
<1>1. CalculationsInit => ChunksInv
  BY ChunksInitInv DEF CalculationsInit
<1>2. ChunksInv /\ [CalculationsNext]_calculationVars => ChunksInv'
  <2> SUFFICES ASSUME ChunksInv, [CalculationsNext]_calculationVars PROVE ChunksInv'
    OBVIOUS
  <2>1. CASE chunkText
    BY <2>1, SentenceKeepsInv DEF chunkText
  <2>2. CASE UNCHANGED chunkVars
    BY <2>2 DEF chunkVars, ChunksInv, Follows
  <2>3. chunkText \/ UNCHANGED chunkVars
    BY ChunksSteps DEF calculationVars
  <2> QED
    BY <2>1, <2>2, <2>3
<1>3. ChunksInv => SentencesAreKept
  <2> SUFFICES ASSUME ChunksInv PROVE SentencesAreKept
    OBVIOUS
  <2>1. CASE taken = 0
    <3>1. current.size = 0 /\ chunks = <<>> /\ Result = <<>>
      BY <2>1 DEF ChunksInv, Empty, Result
    <3> QED
      BY <2>1, <3>1 DEF SentencesAreKept
  <2>2. CASE taken # 0
    <3>1. Result = Append(chunks, current) /\ current.to = taken
      BY <2>2 DEF ChunksInv, Result
    <3>2. /\ Result \in Seq(Chunk) /\ Result # <<>> /\ Result[Len(Result)] = current
          /\ \A k \in 1..Len(Result) :
               /\ Result[k].from <= Result[k].to
               /\ Result[k].from = IF k = 1 THEN 1 ELSE Result[k - 1].to + 1
      BY <2>2, <3>1, AppendInOrder DEF ChunksInv
    <3>3. DOMAIN Result = 1..Len(Result)
      BY <3>2
    <3> QED
      BY <3>1, <3>2, <3>3 DEF SentencesAreKept
  <2> QED
    BY <2>1, <2>2
<1> QED
  BY <1>1, <1>2, <1>3, PTL DEF CalculationsSpec

-----------------------------------------------------------------------------
(* Snapshots *)

Entities == Bills \cup Chores

\* Figures F agree with each other on r.
Agree(F, r) ==
  /\ r \notin F["revenueTotal"] \cap F["receivables"]
  /\ r \in F["overdue"] => r \in F["receivables"]
  /\ r \in F["revenueThisMonth"] \cup F["revenueLastMonth"] => r \in F["revenueTotal"]
  /\ r \notin F["revenueThisMonth"] \cap F["revenueLastMonth"]
  /\ r \in F["overdueTasks"] => r \in F["openTasks"]

\* A figure that is there still says of every row that was left alone what a
\* query would say now.
UpToDate ==
  \A q \in DOMAIN figures : \A r \in Entities \ touched : r \in figures[q] <=> r \in Counted(q)

BillsOK == bill \in [Bills -> {"SENT", "OVERDUE", "PAID", "VOID"}]

SnapshotsInv ==
  /\ BillsOK
  /\ UpToDate
  /\ DOMAIN figures \subseteq Queries
  /\ reader.at \in {"prompted", "stored"} => DOMAIN figures = Queries
  /\ FiguresAddUp

\* Queries that are asked at one moment agree.
LEMMA CountsAgree ==
  ASSUME NEW r
  PROVE  Agree([q \in Queries |-> Counted(q)], r)
<1> DEFINE F == [q \in Queries |-> Counted(q)]
<1>1. /\ F["revenueTotal"] = Paid
      /\ F["revenueThisMonth"] = {b \in Paid : Month[b] = "this"}
      /\ F["revenueLastMonth"] = LastMonth
      /\ F["receivables"] = {b \in Bills : bill[b] \in OPEN_RECEIVABLE_STATUSES}
      /\ F["overdue"] = {b \in Bills : bill[b] = "OVERDUE"}
      /\ F["openTasks"] = open
      /\ F["overdueTasks"] = open \cap Late
  BY DEF Queries, Counted
<1> HIDE DEF F
<1>2. Agree(F, r)
  BY <1>1 DEF Agree, Paid, LastMonth, OPEN_RECEIVABLE_STATUSES
<1> QED
  BY <1>2 DEF F

\* What is shown is complete and up to date, so it agrees on the rows left alone.
LEMMA ShowAddsUp ==
  ASSUME UpToDate, DOMAIN figures = Queries, Show
  PROVE  FiguresAddUp'
<1>1. shown'.figures = figures /\ shown'.touched = touched
  BY DEF Show
<1>2. ASSUME NEW r \in Entities \ touched
      PROVE  Agree(figures, r)
  <2> DEFINE F == [q \in Queries |-> Counted(q)]
  <2>1. Agree(F, r)
    BY CountsAgree
  <2>2. \A q \in Queries : r \in figures[q] <=> r \in F[q]
    BY <1>2 DEF UpToDate
  <2>3. {"revenueTotal", "revenueThisMonth", "revenueLastMonth", "receivables", "overdue",
         "openTasks", "overdueTasks"} \subseteq Queries
    BY DEF Queries
  <2> HIDE DEF F
  <2> QED
    BY <2>1, <2>2, <2>3 DEF Agree
<1> QED
  BY <1>1, <1>2 DEF FiguresAddUp, Agree, Entities

\* A write changes what the queries say of its own row only.
LEMMA WriteIsLocal ==
  ASSUME BillsOK, Write
  PROVE  /\ BillsOK'
         /\ touched \subseteq touched'
         /\ \A q \in Queries, r \in Entities \ touched' : r \in Counted(q)' <=> r \in Counted(q)
<1>1. ASSUME NEW b \in Bills, MoveBill(b)
      PROVE  /\ touched' = touched \cup {b} /\ open' = open
             /\ BillsOK' /\ \A c \in Bills \ {b} : bill'[c] = bill[c]
  <2>1. PICK s \in {"OVERDUE", "PAID", "VOID"} : bill' = [bill EXCEPT ![b] = s]
    BY <1>1 DEF MoveBill
  <2> QED
    BY <1>1, <2>1 DEF MoveBill, BillsOK
<1>2. ASSUME NEW c \in Chores, MoveTask(c)
      PROVE  /\ touched' = touched \cup {c} /\ bill' = bill
             /\ \A d : d # c => (d \in open' <=> d \in open)
  BY <1>2 DEF MoveTask
<1>3. touched \subseteq touched' /\ BillsOK'
  BY <1>1, <1>2 DEF Write, BillsOK
<1>4. ASSUME NEW r \in Entities \ touched'
      PROVE  /\ r \in Bills => bill'[r] = bill[r]
             /\ (r \in open' <=> r \in open)
  <2>1. CASE \E b \in Bills : MoveBill(b)
    <3>1. PICK b \in Bills : MoveBill(b)
      BY <2>1
    <3> QED
      BY <1>1, <1>4, <3>1
  <2>2. CASE \E c \in Chores : MoveTask(c)
    <3>1. PICK c \in Chores : MoveTask(c)
      BY <2>2
    <3> QED
      BY <1>2, <1>4, <3>1
  <2> QED
    BY <2>1, <2>2 DEF Write
<1>5. ASSUME NEW q \in Queries, NEW r \in Entities \ touched'
      PROVE  r \in Counted(q)' <=> r \in Counted(q)
  <2>1. r \in Paid' <=> r \in Paid
    BY <1>4, <1>5 DEF Paid
  <2>2. /\ r \in {b \in Bills : bill'[b] \in OPEN_RECEIVABLE_STATUSES} <=>
              r \in {b \in Bills : bill[b] \in OPEN_RECEIVABLE_STATUSES}
        /\ r \in {b \in Bills : bill'[b] = "OVERDUE"} <=> r \in {b \in Bills : bill[b] = "OVERDUE"}
    BY <1>4, <1>5
  <2> QED
    BY <1>4, <1>5, <2>1, <2>2 DEF Queries, Counted, LastMonth
<1> QED
  BY <1>3, <1>5

LEMMA CollectingKeepsInv ==
  ASSUME SnapshotsInv, NEW who, NEW attempts, Collecting(who, attempts), UNCHANGED <<bill, shown>>
  PROVE  SnapshotsInv'
BY DEF SnapshotsInv, BillsOK, Collecting, NoFigures, UpToDate, FiguresAddUp

\* A step of the reader that writes nothing.
LEMMA RestKeepsInv ==
  ASSUME SnapshotsInv, UNCHANGED <<rowVars, figures, touched, shown>>,
         reader'.at \in {"prompted", "stored"} => DOMAIN figures = Queries
  PROVE  SnapshotsInv'
<1>1. \A f : Counted(f)' = Counted(f)
  BY DEF rowVars, Counted, Paid, LastMonth
<1> QED
  BY <1>1 DEF rowVars, SnapshotsInv, BillsOK, UpToDate, FiguresAddUp

LEMMA FinishKeepsInv ==
  ASSUME SnapshotsInv, DOMAIN figures = Queries, Show, UNCHANGED <<rowVars, figures, touched>>
  PROVE  SnapshotsInv'
<1>1. \A f : Counted(f)' = Counted(f)
  BY DEF rowVars, Counted, Paid, LastMonth
<1>2. UpToDate'
  BY <1>1 DEF SnapshotsInv, UpToDate
<1>3. FiguresAddUp'
  BY ShowAddsUp DEF SnapshotsInv
<1> QED
  BY <1>2, <1>3 DEF rowVars, SnapshotsInv, BillsOK

LEMMA SnapshotsNextKeepsInv ==
  ASSUME SnapshotsInv, SnapshotsNext
  PROVE  SnapshotsInv'
<1>1. CASE Write
  <2>1. UNCHANGED <<reader, figures, shown>>
    BY <1>1 DEF Write
  <2> QED
    BY <1>1, <2>1, WriteIsLocal DEF SnapshotsInv, UpToDate, FiguresAddUp
<1>2. ASSUME NEW q \in Queries, Query(q)
      PROVE  SnapshotsInv'
  <2>1. /\ UNCHANGED <<bill, open, touched, shown>> /\ reader' = reader
        /\ reader.at = "collecting"
        /\ DOMAIN figures' = DOMAIN figures \cup {q}
        /\ \A f \in DOMAIN figures' :
             figures'[f] = IF f = q THEN Counted(q) ELSE figures[f]
    BY <1>2 DEF Query, rowVars
  <2>2. \A f : Counted(f)' = Counted(f)
    BY <2>1 DEF Counted, Paid, LastMonth
  <2>3. UpToDate'
    BY <2>1, <2>2 DEF SnapshotsInv, UpToDate
  <2> QED
    BY <2>1, <2>3 DEF SnapshotsInv, BillsOK, FiguresAddUp
<1>3. CASE summary
  <2>1. CASE AskSummary
    BY <2>1, CollectingKeepsInv DEF AskSummary, rowVars
  <2>2. CASE ReturnSummary
    BY <2>2, FinishKeepsInv DEF ReturnSummary, AllThere
  <2>3. CASE reader' = NotReading /\ UNCHANGED <<rowVars, figures, touched, shown>>
    BY <2>3, RestKeepsInv DEF NotReading
  <2> QED
    BY <1>3, <2>1, <2>2, <2>3 DEF summary, rowVars
<1>4. CASE requestGenerate
  BY <1>4, RestKeepsInv DEF requestGenerate, SnapshotsInv
<1>5. CASE brief
  <2>1. CASE BeginBriefing
    BY <2>1, CollectingKeepsInv DEF BeginBriefing, rowVars
  <2>2. CASE Prompt
    <3>1. DOMAIN figures = Queries /\ UNCHANGED <<rowVars, figures, touched, shown>>
      BY <2>2 DEF Prompt, AllThere
    <3> QED
      BY <3>1, RestKeepsInv
  <2>3. CASE StoreBriefing
    BY <2>3, FinishKeepsInv DEF StoreBriefing, SnapshotsInv
  <2>4. CASE BriefingFails
    <3>1. UNCHANGED <<rowVars, shown>>
      BY <2>4 DEF BriefingFails
    <3>2. CASE Retry
      BY <3>1, <3>2, CollectingKeepsInv DEF Retry, rowVars
    <3>3. CASE reader' = NotReading /\ UNCHANGED <<figures, touched>>
      BY <3>1, <3>3, RestKeepsInv DEF NotReading
    <3> QED
      BY <2>4, <3>2, <3>3 DEF BriefingFails
  <2>5. CASE CompleteBriefing
    BY <2>5, RestKeepsInv DEF CompleteBriefing, NotReading
  <2> QED
    BY <1>5, <2>1, <2>2, <2>3, <2>4, <2>5 DEF brief
<1> QED
  BY <1>1, <1>2, <1>3, <1>4, <1>5 DEF SnapshotsNext, collectSignals

\* For any number of invoices, tasks, writes, summaries and briefings, tries and
\* crashes: the figures shown together agree on every row that nobody wrote while
\* they were collected (dashboard.service.ts:59-152, executive-briefing.worker.ts:139-224).
THEOREM ShownFiguresAddUp == CalculationsSpec => []FiguresAddUp
<1>1. CalculationsInit => SnapshotsInv
  BY DEF CalculationsInit, SnapshotsInit, SnapshotsInv, BillsOK, UpToDate, NoFigures, FiguresAddUp, NotReading
<1>2. SnapshotsInv /\ [CalculationsNext]_calculationVars => SnapshotsInv'
  <2> SUFFICES ASSUME SnapshotsInv, [CalculationsNext]_calculationVars PROVE SnapshotsInv'
    OBVIOUS
  <2>1. CASE UNCHANGED snapshotVars
    BY <2>1, RestKeepsInv DEF snapshotVars, SnapshotsInv
  <2>2. SnapshotsNext \/ UNCHANGED snapshotVars
    BY SnapshotsSteps DEF calculationVars
  <2> QED
    BY <2>1, <2>2, SnapshotsNextKeepsInv
<1>3. SnapshotsInv => FiguresAddUp
  BY DEF SnapshotsInv
<1> QED
  BY <1>1, <1>2, <1>3, PTL DEF CalculationsSpec

-----------------------------------------------------------------------------
(* Answers *)

LEMMA UnitExists ==
  /\ Unit \in Nat \ {0}
  /\ \A n \in 1..Candidates : \E k \in Nat \ {0} : Unit = k * (RRF_K + n)
<1> DEFINE V == Nat \ {0}
           step == [x \in V \X (1..Candidates) |-> x[1] * (RRF_K + x[2])]
           product == CHOOSE p : p = [n \in 0..Candidates |-> IF n = 0 THEN 1 ELSE p[n - 1] * (RRF_K + n)]
<1>0. Candidates \in Nat /\ RRF_K \in Nat
  BY AnswersAssumption
<1>1. step \in [V \X (1..Candidates) -> V]
  <2>1. \A v \in V, n \in 1..Candidates : v * (RRF_K + n) \in V
    BY <1>0
  <2> QED
    BY <2>1
<1>2. PICK f \in [0..Candidates -> V] : Unfolds(f, Candidates, 1, step)
  <2>1. 1 \in V
    OBVIOUS
  <2> HIDE DEF V, step
  <2> QED
    BY <1>0, <1>1, <2>1, RecursionExists
<1>3. ASSUME NEW n \in 1..Candidates PROVE f[n] = f[n - 1] * (RRF_K + n)
  <2>1. f[n - 1] \in V
    BY <1>0, <1>2
  <2>2. step[<<f[n - 1], n>>] = f[n - 1] * (RRF_K + n)
    BY <2>1
  <2> HIDE DEF step
  <2> QED
    BY <1>2, <2>2 DEF Unfolds
<1>4. f = [n \in 0..Candidates |-> IF n = 0 THEN 1 ELSE f[n - 1] * (RRF_K + n)]
  BY <1>0, <1>2, <1>3 DEF Unfolds
<1>5. product = [n \in 0..Candidates |-> IF n = 0 THEN 1 ELSE product[n - 1] * (RRF_K + n)]
  <2>1. \E p : p = [n \in 0..Candidates |-> IF n = 0 THEN 1 ELSE p[n - 1] * (RRF_K + n)]
    BY <1>4
  <2> QED
    BY <2>1
<1>6. Unit = product[Candidates]
  BY Zenon DEF Unit
<1> HIDE DEF product
<1>7. product[0] = 1 /\ \A n \in 1..Candidates : product[n] = product[n - 1] * (RRF_K + n)
  BY <1>0, <1>5
<1> DEFINE T == {m \in 0..Candidates :
                   /\ product[m] \in V
                   /\ \A n \in 1..m : \E k \in V : product[m] = k * (RRF_K + n)}
<1>8. 0 \in T
  <2>1. 0 \in 0..Candidates /\ product[0] \in V
    BY <1>0, <1>7
  <2>2. \A n \in 1..0 : \E k \in V : product[0] = k * (RRF_K + n)
    OBVIOUS
  <2> QED
    BY <2>1, <2>2
<1>9. ASSUME NEW m \in 1..Candidates, m - 1 \in T
      PROVE  m \in T
  <2>1. product[m] = product[m - 1] * (RRF_K + m) /\ product[m - 1] \in V
    BY <1>7, <1>9
  <2>2. RRF_K + m \in V
    BY <1>0
  <2>3. product[m] \in V
    BY <2>1, <2>2
  <2>4. ASSUME NEW n \in 1..m PROVE \E k \in V : product[m] = k * (RRF_K + n)
    <3>1. CASE n = m
      BY <2>1, <3>1
    <3>2. CASE n # m
      <4>1. PICK k \in V : product[m - 1] = k * (RRF_K + n)
        BY <1>9, <3>2
      <4>2. k * (RRF_K + m) \in V
        BY <2>2
      <4>3. product[m] = (k * (RRF_K + n)) * (RRF_K + m)
        BY <2>1, <4>1
      <4>4. (k * (RRF_K + n)) * (RRF_K + m) = (k * (RRF_K + m)) * (RRF_K + n)
        BY <1>0
      <4> QED
        BY <4>2, <4>3, <4>4
    <3> QED
      BY <3>1, <3>2
  <2> QED
    BY <1>0, <2>3, <2>4
<1> HIDE DEF T
<1>10. 0..Candidates \subseteq T
  BY <1>0, <1>8, <1>9, UpTo
<1>11. Candidates \in T
  BY <1>0, <1>10
<1> QED
  BY <1>0, <1>6, <1>11 DEF T

\* The earlier of two ranks contributes more.
LEMMA EarlierCountsMore ==
  /\ \A m \in 1..Candidates : Contribution(m) \in Nat \ {0}
  /\ \A m, n \in 1..Candidates : m < n => Contribution(m) > Contribution(n)
<1>0. Candidates \in Nat /\ RRF_K \in Nat
  BY AnswersAssumption
<1>1. ASSUME NEW n \in 1..Candidates, NEW k \in Nat \ {0}, Unit = k * (RRF_K + n)
      PROVE  Contribution(n) = k
  <2> DEFINE d == RRF_K + n
  <2>1. d \in Nat \ {0}
    BY <1>0
  <2>2. (k * d) \div d = k
    <3> HIDE DEF d
    <3> QED
      BY <2>1
  <2> QED
    BY <1>1, <2>2 DEF Contribution
<1>2. ASSUME NEW m \in 1..Candidates, NEW n \in 1..Candidates, m < n
      PROVE  Contribution(m) > Contribution(n)
  <2>1. PICK j \in Nat \ {0} : Unit = j * (RRF_K + m)
    BY UnitExists
  <2>2. PICK k \in Nat \ {0} : Unit = k * (RRF_K + n)
    BY UnitExists
  <2>3. j * (RRF_K + m) = k * (RRF_K + n)
    BY <2>1, <2>2
  <2>4. ASSUME j <= k PROVE FALSE
    <3>1. j * (RRF_K + m) <= k * (RRF_K + m)
      BY <1>0, <2>4
    <3>2. k * (RRF_K + m) < k * (RRF_K + n)
      BY <1>0, <1>2
    <3> QED
      BY <1>0, <2>3, <3>1, <3>2
  <2> QED
    BY <1>1, <2>1, <2>2, <2>4
<1> QED
  BY <1>1, <1>2, UnitExists

-----------------------------------------------------------------------------
(* What the stores return *)

\* What may be in a list that has been ranked.
ListsAreRanked ==
  \A s \in Answered :
    /\ lists[s].hits \in Ranked(s)
    /\ s \in {"vector", "text", "graph"}

LEMMA NamesOfStores == StoreNames \subseteq {"vector", "text", "graph"}
BY AnswersAssumption DEF StoreNames

\* A list has each hit at one rank.
LEMMA HitsAreRanked ==
  ASSUME ListsAreRanked, NEW s \in Answered
  PROVE  /\ DOMAIN lists[s].hits \subseteq 1..Candidates
         /\ \A n \in DOMAIN lists[s].hits : \E c \in Chunks : lists[s].hits[n] = Key(s, c)
         /\ \A m, n \in DOMAIN lists[s].hits : lists[s].hits[m] = lists[s].hits[n] => m = n
<1> DEFINE keys == {Key(s, c) : c \in Chunks}
<1>1. PICK n \in 0..Candidates : lists[s].hits \in [1..n -> keys]
  BY DEF ListsAreRanked, Ranked
<1>2. DOMAIN lists[s].hits = 1..n /\ Candidates \in Nat
  BY <1>1, AnswersAssumption
<1>3. \A m \in DOMAIN lists[s].hits : lists[s].hits[m] \in keys
  BY <1>1
<1>4. \A i, j \in DOMAIN lists[s].hits : lists[s].hits[i] = lists[s].hits[j] => i = j
  BY DEF ListsAreRanked, Ranked
<1> QED
  BY <1>2, <1>3, <1>4

LEMMA RankIsThere ==
  ASSUME ListsAreRanked, NEW k, NEW s \in Having(k)
  PROVE  /\ s \in Answered /\ s \in StoreNames
         /\ RankIn(s, k) \in DOMAIN lists[s].hits
         /\ RankIn(s, k) \in 1..Candidates
         /\ lists[s].hits[RankIn(s, k)] = k
<1>1. s \in Answered /\ \E n \in DOMAIN lists[s].hits : lists[s].hits[n] = k
  BY DEF Having
<1>2. RankIn(s, k) \in DOMAIN lists[s].hits /\ lists[s].hits[RankIn(s, k)] = k
  BY <1>1 DEF RankIn
<1> QED
  BY <1>1, <1>2, HitsAreRanked DEF Answered

LEMMA FoundIsFinite == IsFiniteSet(Found)
<1>1. IsFiniteSet({"point", "index"})
  <2>1. IsFiniteSet({"point"} \cup {"index"})
    BY FS_Singleton, FS_AddElement
  <2>2. {"point"} \cup {"index"} = {"point", "index"}
    OBVIOUS
  <2> QED
    BY <2>1, <2>2
<1>2. IsFiniteSet({"point", "index"} \X Chunks)
  BY <1>1, FS_Product, AnswersAssumption
<1>3. Found \subseteq {"point", "index"} \X Chunks
  BY DEF Found, Key
<1> QED
  BY <1>2, <1>3, FS_Subset

-----------------------------------------------------------------------------
(* The order of the hits *)

LEMMA ScoreInNat ==
  ASSUME ListsAreRanked, NEW k
  PROVE  /\ \A s : Part(s, k) \in Nat
         /\ \A s \in Having(k) : Part(s, k) = Contribution(RankIn(s, k))
         /\ Score(k) \in Nat
<1>1. ASSUME NEW s PROVE Part(s, k) \in Nat
  <2>1. CASE s \in Having(k)
    BY <2>1, RankIsThere, EarlierCountsMore DEF Part
  <2>2. CASE s \notin Having(k)
    BY <2>2 DEF Part
  <2> QED
    BY <2>1, <2>2
<1>2. Score(k) \in Nat
  <2>1. Part("vector", k) \in Nat /\ Part("text", k) \in Nat /\ Part("graph", k) \in Nat
    BY <1>1
  <2> QED
    BY <2>1 DEF Score
<1> QED
  BY <1>1, <1>2 DEF Part

\* A hit has a first store, and a rank in it that no other hit has.
LEMMA FirstIsThere ==
  ASSUME ListsAreRanked, NEW k \in Found
  PROVE  /\ First(k)[1] \in DOMAIN Stores /\ First(k)[1] \in Nat
         /\ Stores[First(k)[1]] \in Having(k)
         /\ First(k)[2] = RankIn(Stores[First(k)[1]], k) /\ First(k)[2] \in Nat
<1> DEFINE Met == {n \in DOMAIN Stores : Stores[n] \in Having(k)}
<1>1. Met \subseteq Nat
  BY AnswersAssumption
<1>2. Met # {}
  BY DEF Found, Having, Answered, StoreNames
<1>3. PICK n \in Met : \A m \in Met : n <= m
  BY <1>1, <1>2, LeastExists
<1>4. \A m \in 1..n - 1 : Stores[m] \notin Having(k)
  <2> SUFFICES ASSUME NEW m \in 1..n - 1, Stores[m] \in Having(k) PROVE FALSE
    OBVIOUS
  <2>1. n \in 1..Len(Stores) /\ Len(Stores) \in Nat /\ DOMAIN Stores = 1..Len(Stores)
    BY <1>3, AnswersAssumption
  <2>2. m \in DOMAIN Stores /\ ~(n <= m)
    BY <2>1
  <2> QED
    BY <1>3, <2>2
<1> DEFINE c == CHOOSE i \in DOMAIN Stores :
                  Stores[i] \in Having(k) /\ \A m \in 1..i - 1 : Stores[m] \notin Having(k)
<1>5. c \in DOMAIN Stores /\ Stores[c] \in Having(k)
  BY <1>3, <1>4
<1>6. First(k) = <<c, RankIn(Stores[c], k)>>
  BY DEF First
<1> HIDE DEF c
<1>7. First(k)[1] = c /\ First(k)[2] = RankIn(Stores[c], k)
  BY <1>6
<1>8. RankIn(Stores[c], k) \in 1..Candidates
  BY <1>5, RankIsThere
<1> QED
  BY <1>1, <1>5, <1>7, <1>8, AnswersAssumption

LEMMA FirstIsUnique ==
  ASSUME ListsAreRanked, NEW k \in Found, NEW l \in Found,
         First(k)[1] = First(l)[1], First(k)[2] = First(l)[2]
  PROVE  k = l
<1> DEFINE s == Stores[First(k)[1]]
<1>1. s \in Having(k) /\ s \in Having(l) /\ RankIn(s, k) = RankIn(s, l)
  BY FirstIsThere
<1> HIDE DEF s
<1> QED
  BY <1>1, RankIsThere

\* Sorting has one result.
LEMMA PrecedesIsOrder ==
  ASSUME ListsAreRanked
  PROVE  /\ \A k \in Found : ~Precedes(k, k)
         /\ \A k, l, m \in Found : Precedes(k, l) /\ Precedes(l, m) => Precedes(k, m)
         /\ \A k, l \in Found : k # l => Precedes(k, l) \/ Precedes(l, k)
<1> DEFINE sc(k) == Score(k)
           one(k) == First(k)[1]
           two(k) == First(k)[2]
<1>1. \A k \in Found : sc(k) \in Nat /\ one(k) \in Nat /\ two(k) \in Nat
  BY ScoreInNat, FirstIsThere
<1>2. \A k, l \in Found : one(k) = one(l) /\ two(k) = two(l) => k = l
  BY FirstIsUnique
<1>3. \A k, l : Precedes(k, l) <=>
        \/ sc(k) > sc(l)
        \/ sc(k) = sc(l) /\ (one(k) < one(l) \/ (one(k) = one(l) /\ two(k) < two(l)))
  BY DEF Precedes, MetFirst
<1> HIDE DEF sc, one, two
<1>4. \A k \in Found : ~Precedes(k, k)
  BY <1>1, <1>3
<1>5. \A k, l, m \in Found : Precedes(k, l) /\ Precedes(l, m) => Precedes(k, m)
  BY <1>1, <1>3
<1>6. \A k, l \in Found : k # l => Precedes(k, l) \/ Precedes(l, k)
  BY <1>1, <1>2, <1>3
<1> QED
  BY <1>4, <1>5, <1>6

LEMMA PlacesGrow ==
  ASSUME ListsAreRanked, NEW k \in Found
  PROVE  /\ Place(k) \in 1..Cardinality(Found)
         /\ \A l \in Found : Precedes(k, l) => Place(k) < Place(l)
<1> DEFINE Ahd(l) == {m \in Found : Precedes(m, l)}
<1>1. \A l : IsFiniteSet(Ahd(l)) /\ Cardinality(Ahd(l)) \in Nat
  <2> TAKE l
  <2>1. Ahd(l) \in SUBSET Found
    OBVIOUS
  <2> HIDE DEF Ahd
  <2> QED
    BY <2>1, FoundIsFinite, FS_Subset, FS_CardinalityType
<1>2. \A l : Place(l) = Cardinality(Ahd(l)) + 1
  BY DEF Place
<1>3. ~Precedes(k, k)
  BY PrecedesIsOrder
<1>4. IsFiniteSet(Ahd(k) \cup {k}) /\ Cardinality(Ahd(k) \cup {k}) = Cardinality(Ahd(k)) + 1
  <2>1. k \notin Ahd(k)
    BY <1>3
  <2> HIDE DEF Ahd
  <2> QED
    BY <1>1, <2>1, FS_AddElement
<1>5. Place(k) <= Cardinality(Found) /\ Cardinality(Found) \in Nat
  <2>1. (Ahd(k) \cup {k}) \in SUBSET Found
    OBVIOUS
  <2> HIDE DEF Ahd
  <2>2. Cardinality(Ahd(k) \cup {k}) <= Cardinality(Found)
    BY <2>1, FoundIsFinite, FS_Subset
  <2> QED
    BY <1>2, <1>4, <2>2, FoundIsFinite, FS_CardinalityType
<1>6. ASSUME NEW l \in Found, Precedes(k, l)
      PROVE  Place(k) < Place(l)
  <2>1. (Ahd(k) \cup {k}) \in SUBSET Ahd(l)
    BY <1>6, PrecedesIsOrder
  <2> HIDE DEF Ahd
  <2>2. Cardinality(Ahd(k) \cup {k}) <= Cardinality(Ahd(l))
    BY <1>1, <2>1, FS_Subset
  <2> QED
    BY <1>1, <1>2, <1>4, <2>2
<1>7. Place(k) \in 1..Cardinality(Found)
  <2> HIDE DEF Ahd
  <2> QED
    BY <1>1, <1>2, <1>5
<1> QED
  BY <1>6, <1>7

\* Every place is taken.
LEMMA PlacesAreTaken ==
  ASSUME ListsAreRanked, NEW n \in 1..Cardinality(Found)
  PROVE  \E k \in Found : Place(k) = n
<1> DEFINE N == Cardinality(Found)
           f == [k \in Found |-> Place(k)]
<1>1. f \in [Found -> 1..N]
  BY PlacesGrow
<1>2. ASSUME NEW k \in Found, NEW l \in Found, f[k] = f[l] PROVE k = l
  <2>1. Place(k) = Place(l) /\ Place(k) \in Nat
    BY <1>2, PlacesGrow
  <2>2. ~(Place(k) < Place(l)) /\ ~(Place(l) < Place(k))
    BY <2>1
  <2>3. ~Precedes(k, l) /\ ~Precedes(l, k)
    BY <2>2, PlacesGrow
  <2> QED
    BY <2>3, PrecedesIsOrder
<1> HIDE DEF f
<1>3. f \in Injection(Found, 1..N)
  BY <1>1, <1>2 DEF Injection, IsInjective
<1>4. N \in Nat
  BY FoundIsFinite, FS_CardinalityType
<1>5. IsFiniteSet(1..N) /\ Cardinality(1..N) = N
  BY <1>4, FS_Interval
<1>6. f \in Surjection(Found, 1..N)
  BY <1>3, <1>5, FS_Injection, Zenon
<1>7. \E k \in Found : f[k] = n
  BY <1>6 DEF Surjection
<1> QED
  BY <1>7 DEF f

LEMMA FusedIsSorted ==
  ASSUME ListsAreRanked
  PROVE  /\ Fused \in Seq(Found)
         /\ \A n \in 1..Len(Fused) : Fused[n] \in Found /\ Place(Fused[n]) = n
<1> DEFINE N == Cardinality(Found)
           all == [n \in 1..N |-> CHOOSE k \in Found : Place(k) = n]
           m == IF Len(all) < Limit THEN Len(all) ELSE Limit
<1>1. N \in Nat /\ Limit \in Nat
  BY FoundIsFinite, FS_CardinalityType, AnswersAssumption
<1>2. \A n \in 1..N : all[n] \in Found /\ Place(all[n]) = n
  BY PlacesAreTaken
<1>3. Fused = SubSeq(all, 1, m)
  BY DEF Fused
<1>4. DOMAIN all = 1..N
  OBVIOUS
<1>5. all \in Seq(Found) /\ Len(all) = N
  <2>1. all \in [1..N -> Found]
    BY <1>2
  <2> HIDE DEF all
  <2> QED
    BY <1>1, <2>1
<1> HIDE DEF all, N
<1>6. m \in Nat /\ m <= N
  BY <1>1, <1>5
<1> HIDE DEF m
<1>7. Len(Fused) = m /\ Fused \in Seq(Found) /\ \A n \in 1..m : Fused[n] = all[n]
  BY <1>1, <1>3, <1>5, <1>6
<1>8. \A n \in 1..m : n \in 1..N
  BY <1>1, <1>6
<1> QED
  BY <1>2, <1>7, <1>8

-----------------------------------------------------------------------------
(* The question *)

HitLists == {<<>>} \cup UNION {Rankings(s) : s \in StoreNames}
ListRecords == [state : {"running", "ranked", "failed"}, hits : HitLists]

\* The hits in the context are those of the fused list, each at its place.
ContextIsFused ==
  \A n \in DOMAIN context : n \in Nat /\ context[n].key \in Found /\ Place(context[n].key) = n

AnswersInv ==
  /\ lists \in [StoreNames -> ListRecords] /\ ListsAreRanked
  /\ phase = "query" => context = <<>> /\ answer = NoAnswer
  /\ ContextIsFused
  /\ CitationsWereRetrieved

LEMMA AnswersInitInv == AnswersInit => AnswersInv
<1> SUFFICES ASSUME AnswersInit
             PROVE  AnswersInv
  OBVIOUS
<1>1. lists \in [StoreNames -> ListRecords]
  BY DEF AnswersInit, List, ListRecords, HitLists
<1>2. Answered = {}
  BY DEF AnswersInit, List, Answered
<1>3. ListsAreRanked
  BY <1>2 DEF ListsAreRanked
<1>4. ContextIsFused /\ CitationsWereRetrieved
  BY DEF AnswersInit, NoAnswer, ContextIsFused, CitationsWereRetrieved
<1> QED
  BY <1>1, <1>3, <1>4 DEF AnswersInit, AnswersInv

\* When no list changes, neither do the hits, their ranks and their places.
SameHits ==
  /\ Found' = Found
  /\ \A k : Having(k)' = Having(k) /\ Place(k)' = Place(k)
  /\ \A s, k : RankIn(s, k)' = RankIn(s, k)

LEMMA SameLists == lists' = lists => SameHits
<1> SUFFICES ASSUME lists' = lists
             PROVE  SameHits
  OBVIOUS
<1>1. Answered' = Answered
  BY DEF Answered
<1>2. \A k : Having(k)' = Having(k)
  BY <1>1 DEF Having
<1>3. Found' = Found
  BY <1>1, <1>2 DEF Found
<1>4. \A s, k : RankIn(s, k)' = RankIn(s, k)
  BY DEF RankIn
<1>5. \A s, k : Part(s, k)' = Part(s, k)
  BY <1>2, <1>4 DEF Part
<1>6. \A k : Score(k)' = Score(k)
  BY <1>5 DEF Score
<1>7. \A k : First(k)' = First(k)
  BY <1>2, <1>4 DEF First
<1>8. \A k, l : Precedes(k, l)' <=> Precedes(k, l)
  BY <1>6, <1>7 DEF Precedes, MetFirst
<1>9. \A k : Place(k)' = Place(k)
  BY <1>3, <1>8 DEF Place
<1> QED
  BY <1>2, <1>3, <1>4, <1>9 DEF SameHits

LEMMA TryRunKeepsInv ==
  ASSUME AnswersInv, NEW s \in StoreNames, tryRun(s)
  PROVE  AnswersInv'
<1>1. /\ phase = "query" /\ phase' = phase /\ context' = <<>> /\ answer' = NoAnswer
      /\ lists \in [StoreNames -> ListRecords]
  BY DEF tryRun, AnswersInv
<1>2. PICK l \in {List("ranked", hits) : hits \in Rankings(s)} \cup {List("failed", <<>>)} :
        lists' = [lists EXCEPT ![s] = l]
  BY DEF tryRun
<1>3. /\ l \in ListRecords
      /\ l.state = "ranked" => l.hits \in Rankings(s)
  BY <1>2 DEF List, ListRecords, HitLists
<1>4. lists' \in [StoreNames -> ListRecords] /\ lists'[s] = l
      /\ \A t \in StoreNames : t # s => lists'[t] = lists[t]
  BY <1>1, <1>2, <1>3
<1>5. ListsAreRanked'
  <2> SUFFICES ASSUME NEW t \in StoreNames, lists'[t].state = "ranked"
               PROVE  lists'[t].hits \in Ranked(t) /\ t \in {"vector", "text", "graph"}
    BY DEF ListsAreRanked, Answered
  <2>1. t \in {"vector", "text", "graph"}
    BY NamesOfStores
  <2>2. CASE t = s
    BY <1>3, <1>4, <2>1, <2>2 DEF Rankings, searchSimilar, searchFullText, searchByEntities
  <2>3. CASE t # s
    BY <1>4, <2>1, <2>3 DEF AnswersInv, ListsAreRanked, Answered
  <2> QED
    BY <2>1, <2>2, <2>3
<1>6. ContextIsFused' /\ CitationsWereRetrieved'
  BY <1>1 DEF NoAnswer, ContextIsFused, CitationsWereRetrieved
<1> QED
  BY <1>1, <1>4, <1>5, <1>6 DEF AnswersInv

\* The context is the beginning of the hits.
LEMMA ContextOfHits ==
  ASSUME NEW S, NEW hits \in Seq(S)
  PROVE  \A n \in DOMAIN buildContext(hits) :
           n \in 1..Len(hits) /\ buildContext(hits)[n].key = hits[n]
<1> DEFINE size(n) == Characters[hits[n][2]]
           left == CHOOSE left : left = [n \in 0..Len(hits) |->
                     IF n = 0 THEN Budget
                     ELSE left[n - 1] - (IF size(n) > left[n - 1] THEN left[n - 1] + 1 ELSE size(n))]
           kept == {n \in 1..Len(hits) : \A m \in 0..n - 1 : left[m] > 0}
           c == [n \in 1..Cardinality(kept) |-> [key |-> hits[n], score |-> Score(hits[n])]]
<1>1. buildContext(hits) = c
  BY Zenon DEF buildContext
<1>2. kept \in SUBSET (1..Len(hits))
  OBVIOUS
<1> HIDE DEF kept
<1>3. Cardinality(kept) \in Nat /\ Cardinality(kept) <= Len(hits) /\ Len(hits) \in Nat
  <2>1. Len(hits) \in Nat
    OBVIOUS
  <2>2. IsFiniteSet(1..Len(hits)) /\ Cardinality(1..Len(hits)) = Len(hits)
    BY <2>1, FS_Interval
  <2> QED
    BY <1>2, <2>1, <2>2, FS_Subset, FS_CardinalityType
<1>4. \A n \in DOMAIN c : n \in 1..Len(hits) /\ c[n].key = hits[n]
  BY <1>3
<1> QED
  BY <1>1, <1>4

LEMMA SearchKeepsInv ==
  ASSUME AnswersInv, search
  PROVE  AnswersInv'
<1>1. /\ phase = "query" /\ phase' # "query" /\ lists' = lists /\ answer' = NoAnswer
      /\ context = <<>>
      /\ context' = <<>> \/ context' = buildContext(Fused)
  BY DEF search, AnswersInv
<1>2. SameHits
  BY <1>1, SameLists
<1>3. ContextIsFused'
  <2> SUFFICES ASSUME NEW n \in DOMAIN context'
               PROVE  n \in Nat /\ context'[n].key \in Found /\ Place(context'[n].key) = n
    BY <1>2 DEF ContextIsFused, SameHits
  <2>1. ListsAreRanked
    BY DEF AnswersInv
  <2>2. context' = buildContext(Fused)
    BY <1>1
  <2>3. Fused \in Seq(Found)
    BY <2>1, FusedIsSorted
  <2>4. n \in 1..Len(Fused) /\ context'[n].key = Fused[n]
    BY <2>2, <2>3, ContextOfHits
  <2> QED
    BY <2>1, <2>3, <2>4, FusedIsSorted
<1>4. CitationsWereRetrieved'
  BY <1>1 DEF CitationsWereRetrieved, NoAnswer
<1>5. lists' \in [StoreNames -> ListRecords] /\ ListsAreRanked'
  BY <1>1 DEF AnswersInv, ListsAreRanked, Answered
<1> QED
  BY <1>1, <1>3, <1>4, <1>5 DEF AnswersInv

\* What is taken of the model's citations is in the context, and each once.
LEMMA ValidatedIsAccepted ==
  ASSUME NEW N \in Nat, NEW S, NEW raw \in [1..N -> S]
  PROVE  /\ \A n \in DOMAIN Validated(raw) : Validated(raw)[n] \in KeysInContext
         /\ \A m, n \in DOMAIN Validated(raw) : Validated(raw)[m] = Validated(raw)[n] => m = n
<1> DEFINE V == Seq(S)
           next(v, n) == IF Accepted(raw, n) THEN Append(v, raw[n]) ELSE v
           step == [x \in V \X (1..N) |-> next(x[1], x[2])]
           take == CHOOSE take : take = [n \in 0..N |->
                     IF n = 0 THEN <<>>
                     ELSE IF Accepted(raw, n) THEN Append(take[n - 1], raw[n]) ELSE take[n - 1]]
<1>1. Len(raw) = N
  OBVIOUS
<1>2. step \in [V \X (1..N) -> V] /\ <<>> \in V
  <2>1. \A v \in V, n \in 1..N : next(v, n) \in V
    OBVIOUS
  <2> HIDE DEF next
  <2> QED
    BY <2>1
<1>3. PICK f \in [0..N -> V] : Unfolds(f, N, <<>>, step)
  <2> HIDE DEF V, step
  <2> QED
    BY <1>2, RecursionExists
<1>4. ASSUME NEW n \in 1..N PROVE f[n] = next(f[n - 1], n)
  <2>1. f[n - 1] \in V
    BY <1>3
  <2>2. step[<<f[n - 1], n>>] = next(f[n - 1], n)
    BY <2>1
  <2> HIDE DEF step, next
  <2> QED
    BY <1>3, <2>2 DEF Unfolds
<1>5. f = [n \in 0..N |->
             IF n = 0 THEN <<>>
             ELSE IF Accepted(raw, n) THEN Append(f[n - 1], raw[n]) ELSE f[n - 1]]
  <2>1. f[0] = <<>>
    BY <1>3 DEF Unfolds
  <2>2. \A n \in 0..N : n # 0 =>
          f[n] = IF Accepted(raw, n) THEN Append(f[n - 1], raw[n]) ELSE f[n - 1]
    <3> SUFFICES ASSUME NEW n \in 0..N, n # 0
                 PROVE  f[n] = next(f[n - 1], n)
      OBVIOUS
    <3>1. n \in 1..N
      OBVIOUS
    <3> HIDE DEF next, V
    <3> QED
      BY <1>4, <3>1
  <2>3. f = [n \in 0..N |-> f[n]]
    BY <1>3
  <2>4. \A n \in 0..N : f[n] = IF n = 0 THEN <<>>
                               ELSE IF Accepted(raw, n) THEN Append(f[n - 1], raw[n]) ELSE f[n - 1]
    BY <2>1, <2>2, Zenon
  <2> HIDE DEF V
  <2> QED
    BY <2>3, <2>4, Zenon
<1>6. take = [n \in 0..N |->
                IF n = 0 THEN <<>>
                ELSE IF Accepted(raw, n) THEN Append(take[n - 1], raw[n]) ELSE take[n - 1]]
  <2>1. \E t : t = [n \in 0..N |->
                      IF n = 0 THEN <<>>
                      ELSE IF Accepted(raw, n) THEN Append(t[n - 1], raw[n]) ELSE t[n - 1]]
    BY <1>5
  <2> QED
    BY <2>1
<1>7. Validated(raw) = take[N]
  BY <1>1, Zenon DEF Validated
<1> HIDE DEF take
<1>8. take[0] = <<>> /\ \A n \in 1..N : take[n] = next(take[n - 1], n)
  <2>1. 0 \in 0..N /\ \A n \in 1..N : n \in 0..N /\ n # 0
    OBVIOUS
  <2>2. \A n \in 0..N : take[n] = IF n = 0 THEN <<>>
                                  ELSE IF Accepted(raw, n) THEN Append(take[n - 1], raw[n]) ELSE take[n - 1]
    BY <1>6, Zenon
  <2> QED
    BY <2>1, <2>2, Zenon
<1> DEFINE Comes(t, n) == /\ t \in V
                          /\ \A i \in 1..Len(t) : \E m \in 1..n : t[i] = raw[m] /\ InContext(raw[m]) # {}
                          /\ \A i, j \in 1..Len(t) : t[i] = t[j] => i = j
           T == {n \in 0..N : Comes(take[n], n)}
<1>9. 0 \in T
  <2>1. Len(<<>>) = 0 /\ <<>> \in V
    OBVIOUS
  <2>2. take[0] \in V /\ 1..Len(take[0]) = {}
    <3> HIDE DEF V
    <3> QED
      BY <1>8, <2>1
  <2>3. Comes(take[0], 0)
    <3> HIDE DEF V
    <3> QED
      BY <2>2
  <2> HIDE DEF Comes
  <2> QED
    BY <2>3
<1>10. ASSUME NEW n \in 1..N, n - 1 \in T
       PROVE  n \in T
  <2>1. Comes(take[n - 1], n - 1)
    BY <1>10
  <2>2. CASE ~Accepted(raw, n)
    <3>1. take[n] = take[n - 1]
      BY <1>8, <2>2
    <3>2. \A m \in 1..(n - 1) : m \in 1..n
      OBVIOUS
    <3> DEFINE s == take[n - 1]
    <3>3. Comes(s, n)
      <4>1. Comes(s, n - 1)
        BY <2>1
      <4> HIDE DEF s, V
      <4> QED
        BY <3>2, <4>1
    <3> HIDE DEF Comes
    <3> QED
      BY <3>1, <3>3
  <2>3. CASE Accepted(raw, n)
    <3> DEFINE s == take[n - 1]
               t == Append(s, raw[n])
               L == Len(s)
    <3>1. take[n] = t
      BY <1>8, <2>3
    <3>2. s \in V /\ raw[n] \in S
      BY <2>1
    <3>3. L \in Nat /\ \A i \in 1..L : \E m \in 1..(n - 1) : s[i] = raw[m] /\ InContext(raw[m]) # {}
      <4>1. L \in Nat
        BY <3>2
      <4> QED
        BY <2>1, <4>1, Zenon
    <3>4. \A i, j \in 1..L : s[i] = s[j] => i = j
      BY <2>1
    <3> HIDE DEF s
    <3>5. t \in V
      BY <3>2
    <3>6. Len(t) = L + 1 /\ t[L + 1] = raw[n] /\ \A i \in 1..L : t[i] = s[i]
      BY <3>2
    <3>7. InContext(raw[n]) # {} /\ \A m \in 1..n - 1 : raw[m] # raw[n]
      BY <2>3 DEF Accepted
    <3> HIDE DEF t, V, L
    <3>8. ASSUME NEW i \in 1..Len(t)
          PROVE  \E m \in 1..n : t[i] = raw[m] /\ InContext(raw[m]) # {}
      <4>1. CASE i = L + 1
        <5>1. t[i] = raw[n] /\ n \in 1..n
          BY <3>6, <4>1
        <5> QED
          BY <3>7, <5>1
      <4>2. CASE i # L + 1
        <5>1. i \in 1..L
          BY <3>3, <3>6, <4>2
        <5>2. PICK m \in 1..(n - 1) : s[i] = raw[m] /\ InContext(raw[m]) # {}
          BY <3>3, <5>1
        <5>3. m \in 1..n /\ t[i] = raw[m]
          BY <3>6, <5>1, <5>2
        <5> QED
          BY <5>2, <5>3
      <4> QED
        BY <4>1, <4>2
    <3>9. \A i \in 1..L : t[i] # raw[n]
      BY <3>3, <3>6, <3>7
    <3>10. ASSUME NEW i \in 1..Len(t), NEW j \in 1..Len(t), t[i] = t[j]
           PROVE  i = j
      <4>1. (i \in 1..L \/ i = L + 1) /\ (j \in 1..L \/ j = L + 1)
        BY <3>3, <3>6
      <4> QED
        BY <3>4, <3>6, <3>9, <3>10, <4>1
    <3>11. Comes(t, n)
      BY <3>5, <3>8, <3>10
    <3> HIDE DEF Comes
    <3> QED
      BY <3>1, <3>11
  <2> QED
    BY <2>2, <2>3
<1> HIDE DEF T
<1>11. 0..N \subseteq T
  BY <1>9, <1>10, UpTo
<1>12. Comes(take[N], N)
  <2>1. N \in T
    BY <1>11
  <2> HIDE DEF Comes
  <2> QED
    BY <2>1 DEF T
<1>13. DOMAIN take[N] = 1..Len(take[N])
  BY <1>12
<1>14. \A k : InContext(k) # {} => k \in KeysInContext
  BY DEF InContext, KeysInContext
<1> QED
  BY <1>7, <1>12, <1>13, <1>14

LEMMA CompleteKeepsInv ==
  ASSUME AnswersInv, complete
  PROVE  AnswersInv'
<1>1. phase = "prompt" /\ lists' = lists /\ context' = context /\ phase' # "query"
  BY DEF complete, LlmUnavailable
<1>2. SameHits
  BY <1>1, SameLists
<1>3. ContextIsFused'
  BY <1>1, <1>2 DEF AnswersInv, ContextIsFused, SameHits
<1>4. CitationsWereRetrieved'
  <2>1. CASE LlmUnavailable
    BY <1>2, <2>1 DEF LlmUnavailable, AnswersInv, CitationsWereRetrieved, SameHits
  <2>2. ASSUME NEW raw \in Parsed, answer' = groundAnswer(raw)
        PROVE  CitationsWereRetrieved'
    <3> DEFINE K == KeysInContext \cup Fabricated
    <3>1. PICK n \in 0..2 : raw \in [1..n -> K]
      BY DEF Parsed
    <3>2. answer'.citations = Validated(raw)
      BY <2>2 DEF groundAnswer
    <3>3. KeysInContext \subseteq Found
      BY DEF AnswersInv, ContextIsFused, KeysInContext
    <3> HIDE DEF K
    <3>4. /\ \A m \in DOMAIN Validated(raw) : Validated(raw)[m] \in KeysInContext
          /\ \A l, m \in DOMAIN Validated(raw) : Validated(raw)[l] = Validated(raw)[m] => l = m
      <4>1. n \in Nat
        OBVIOUS
      <4> QED
        BY <3>1, <4>1, ValidatedIsAccepted
    <3> QED
      BY <1>2, <3>2, <3>3, <3>4 DEF CitationsWereRetrieved, SameHits
  <2> QED
    BY <2>1, <2>2 DEF complete
<1> QED
  BY <1>1, <1>3, <1>4 DEF AnswersInv, ListsAreRanked, Answered

LEMMA AnswersNextKeepsInv == AnswersInv /\ [CalculationsNext]_calculationVars => AnswersInv'
<1> SUFFICES ASSUME AnswersInv, [CalculationsNext]_calculationVars
             PROVE  AnswersInv'
  OBVIOUS
<1>1. AnswersNext \/ UNCHANGED answerVars
  BY DEF CalculationsNext, Only, calculationVars
<1>2. CASE AnswersNext
  BY <1>2, TryRunKeepsInv, SearchKeepsInv, CompleteKeepsInv DEF AnswersNext
<1>3. CASE UNCHANGED answerVars
  <2>1. lists' = lists /\ phase' = phase /\ context' = context /\ answer' = answer
    BY <1>3 DEF answerVars
  <2>2. SameHits
    BY <2>1, SameLists
  <2> QED
    BY <2>1, <2>2
    DEF AnswersInv, ContextIsFused, CitationsWereRetrieved, ListsAreRanked, Answered, SameHits
<1> QED
  BY <1>1, <1>2, <1>3

\* A hit that dominates another comes before it.
LEMMA DominanceDecides ==
  ASSUME AnswersInv
  PROVE  FusionKeepsDominance
<1> SUFFICES ASSUME NEW n \in DOMAIN context, NEW m \in DOMAIN context,
                    Having(context[m].key) \subseteq Having(context[n].key),
                    \A s \in Having(context[m].key) :
                      RankIn(s, context[n].key) < RankIn(s, context[m].key)
             PROVE  n < m
  BY DEF FusionKeepsDominance
<1> DEFINE k == context[n].key
           l == context[m].key
<1>1. ListsAreRanked /\ k \in Found /\ l \in Found /\ Place(k) = n /\ Place(l) = m
  BY DEF AnswersInv, ContextIsFused
<1>2. Having(l) \subseteq Having(k) /\ \A s \in Having(l) : RankIn(s, k) < RankIn(s, l)
  OBVIOUS
<1> HIDE DEF k, l
<1>3. ASSUME NEW s PROVE Part(s, k) \in Nat /\ Part(s, l) \in Nat /\ Part(s, k) >= Part(s, l)
  <2>1. Part(s, k) \in Nat /\ Part(s, l) \in Nat
    BY <1>1, ScoreInNat
  <2>2. CASE s \in Having(l)
    <3>1. RankIn(s, k) \in 1..Candidates /\ RankIn(s, l) \in 1..Candidates
      BY <1>1, <1>2, <2>2, RankIsThere
    <3>2. Contribution(RankIn(s, k)) > Contribution(RankIn(s, l))
      BY <1>2, <2>2, <3>1, EarlierCountsMore
    <3> QED
      BY <1>2, <2>1, <2>2, <3>2 DEF Part
  <2>3. CASE s \notin Having(l)
    <3>1. Part(s, l) = 0
      BY <2>3 DEF Part
    <3> QED
      BY <2>1, <3>1
  <2> QED
    BY <2>1, <2>2, <2>3
<1>4. PICK s \in Having(l) : s \in {"vector", "text", "graph"}
  <2>1. Having(l) # {}
    BY <1>1 DEF Found
  <2> QED
    BY <1>1, <2>1, RankIsThere, NamesOfStores
<1>5. Part(s, k) > Part(s, l)
  <2>1. RankIn(s, k) \in 1..Candidates /\ RankIn(s, l) \in 1..Candidates
    BY <1>1, <1>2, RankIsThere
  <2>2. Contribution(RankIn(s, k)) > Contribution(RankIn(s, l))
    BY <1>2, <2>1, EarlierCountsMore
  <2> QED
    BY <1>2, <2>2 DEF Part
<1>6. Score(k) > Score(l)
  <2>1. \A t \in {"vector", "text", "graph"} :
          Part(t, k) \in Nat /\ Part(t, l) \in Nat /\ Part(t, k) >= Part(t, l)
    BY <1>3
  <2> QED
    BY <1>4, <1>5, <2>1 DEF Score
<1>7. Precedes(k, l)
  BY <1>6 DEF Precedes
<1> QED
  BY <1>1, <1>7, PlacesGrow

\* Whatever the stores return and the model cites, a citation was retrieved for
\* the question, and appears once (groundAnswer after fuse and buildContext).
THEOREM CitationsAreGrounded == CalculationsSpec => []CitationsWereRetrieved
<1>1. CalculationsInit => AnswersInv
  BY AnswersInitInv DEF CalculationsInit
<1>2. AnswersInv => CitationsWereRetrieved
  BY DEF AnswersInv
<1> QED
  BY <1>1, <1>2, AnswersNextKeepsInv, PTL DEF CalculationsSpec

\* Reciprocal rank fusion (fuse): whatever RRF_K, the number of candidates and
\* the lists of the stores, a hit that is ranked before another by every store
\* that has the other comes before it in the context.
THEOREM DominanceIsKept == CalculationsSpec => []FusionKeepsDominance
<1>1. CalculationsInit => AnswersInv
  BY AnswersInitInv DEF CalculationsInit
<1>2. AnswersInv => FusionKeepsDominance
  BY DominanceDecides
<1> QED
  BY <1>1, <1>2, AnswersNextKeepsInv, PTL DEF CalculationsSpec

-----------------------------------------------------------------------------
(***************************************************************************)
(* Listings.                                                               *)
(***************************************************************************)

RowLists == Seq(Rows)
PageNumbers == Nat \ {0}
WalkRecords ==
  [state : {"reading", "done", "refused"}, page : PageNumbers, found : BOOLEAN,
   items : RowLists, total : {-1} \cup Nat]

\* The index of a row that is alone at its place, in every order of the list.
IndexOf(r) == Cardinality(Ahead(r)) + 1

Met(r) == \E n \in DOMAIN seen : seen[n] = r
Fetched(r) == \E n \in DOMAIN walk.items : walk.items[n] = r

\* The indexes that have been read.
Frontier == walk.page * PageSize - IF walk.found THEN 0 ELSE PageSize

ListingTypes ==
  /\ list \in Lists /\ rank \in [Rows -> Nat]
  /\ walk \in WalkRecords /\ seen \in RowLists
  /\ torn \in BOOLEAN
  /\ steady \subseteq Alone

\* What was not met lies ahead of the client, unless rows before it went.
UnmetIsAhead ==
  \A r \in steady \ pulled : Met(r) \/ Fetched(r) \/ IndexOf(r) > Frontier

\* What was met lies behind, and was met once, unless rows came before it.
MetIsBehind ==
  \A r \in steady \ pushed :
    /\ Met(r) \/ Fetched(r) => IndexOf(r) <= Frontier
    /\ ~(Met(r) /\ Fetched(r))
    /\ \A m, n \in DOMAIN seen : seen[m] = r /\ seen[n] = r => m = n
    /\ \A m, n \in DOMAIN walk.items : walk.items[m] = r /\ walk.items[n] = r => m = n

\* A count that is not torn from its page says whether something lies ahead.
CountIsOfPage ==
  walk.total # -1 /\ ~torn =>
    IF walk.found
    THEN \A r \in steady \ pulled : Met(r) \/ Fetched(r) \/ walk.total > walk.page * PageSize
    ELSE walk.total = Cardinality(Listed)

ListingsInv ==
  /\ ListingTypes
  /\ walk.state = "reading" =>
       /\ ~walk.found => walk.items = <<>>
       /\ UnmetIsAhead /\ MetIsBehind /\ CountIsOfPage
  /\ WalksAreComplete

LEMMA ListedIsFinite ==
  /\ IsFiniteSet(Listed) /\ Cardinality(Listed) \in Nat
  /\ \A r : IsFiniteSet(Ahead(r)) /\ IndexOf(r) \in Nat \ {0}
<1>1. ASSUME NEW S \in SUBSET Rows
      PROVE  IsFiniteSet(S) /\ Cardinality(S) \in Nat
  BY FS_Subset, FS_CardinalityType, ListingsAssumption
<1>2. Listed \in SUBSET Rows
  BY DEF Listed, Stored
<1>3. \A r : Ahead(r) \in SUBSET Rows
  BY DEF Ahead, Listed, Stored
<1>4. \A r : IsFiniteSet(Ahead(r)) /\ Cardinality(Ahead(r)) \in Nat
  BY <1>1, <1>3
<1> QED
  BY <1>1, <1>2, <1>4 DEF IndexOf

\* In every order of the list a row that is alone at its place has one index.
LEMMA IndexInOrder ==
  ASSUME rank \in [Rows -> Nat], NEW o \in Orders, NEW r \in Alone
  PROVE  /\ DOMAIN o = 1..Cardinality(Listed)
         /\ IndexOf(r) \in 1..Cardinality(Listed)
         /\ \A m \in DOMAIN o : o[m] = r <=> m = IndexOf(r)
<1> DEFINE N == Cardinality(Listed)
<1>0. N \in Nat /\ IsFiniteSet(Listed)
  BY ListedIsFinite
<1>1. /\ o \in [1..N -> Listed] /\ DOMAIN o = 1..N
      /\ \A m, n \in 1..N : o[m] = o[n] => m = n
      /\ \A m, n \in 1..N : m < n => rank[o[m]] <= rank[o[n]]
  BY DEF Orders
<1>2. \A q \in Listed : rank[q] \in Nat
  BY DEF Listed, Stored
<1>3. r \in Listed /\ \A q \in Listed \ {r} : rank[q] # rank[r]
  BY DEF Alone
<1>4. o \in Surjection(1..N, Listed)
  <2>1. o \in Injection(1..N, Listed)
    BY <1>1 DEF Injection, IsInjective
  <2>2. IsFiniteSet(1..N) /\ Cardinality(1..N) = N
    BY <1>0, FS_Interval
  <2> QED
    BY <1>0, <2>1, <2>2, FS_Injection, Zenon
<1>5. \A q \in Listed : \E m \in 1..N : o[m] = q
  BY <1>4 DEF Surjection
<1>6. PICK i \in 1..N : o[i] = r
  BY <1>3, <1>5
<1> HIDE DEF N
<1> DEFINE g == [m \in 1..(i - 1) |-> o[m]]
<1>7. ASSUME NEW m \in 1..(i - 1)
      PROVE  o[m] \in Ahead(r)
  <2>1. m \in 1..N /\ m < i /\ m # i
    BY <1>0, <1>6
  <2>2. o[m] \in Listed /\ o[m] # r /\ rank[o[m]] <= rank[r]
    BY <1>1, <1>6, <2>1
  <2> QED
    BY <2>2 DEF Ahead
<1>8. ASSUME NEW q \in Ahead(r)
      PROVE  \E m \in 1..(i - 1) : o[m] = q
  <2>1. q \in Listed /\ q # r /\ rank[q] <= rank[r]
    BY DEF Ahead
  <2>2. rank[q] < rank[r]
    BY <1>2, <1>3, <2>1
  <2>3. PICK m \in 1..N : o[m] = q
    BY <1>5, <2>1
  <2>4. ~(i < m)
    <3> SUFFICES ASSUME i < m PROVE FALSE
      OBVIOUS
    <3>1. rank[r] <= rank[q]
      BY <1>1, <1>6, <2>3
    <3> QED
      BY <1>2, <1>3, <2>1, <2>2, <3>1
  <2>5. m # i
    BY <1>6, <2>1, <2>3
  <2>6. m \in 1..(i - 1)
    BY <1>0, <1>6, <2>3, <2>4, <2>5
  <2> QED
    BY <2>3, <2>6
<1>9. g \in Bijection(1..(i - 1), Ahead(r))
  <2>1. g \in [1..(i - 1) -> Ahead(r)]
    BY <1>7
  <2>2. \A m, n \in 1..(i - 1) : g[m] = g[n] => m = n
    <3>1. \A m \in 1..(i - 1) : m \in 1..N
      BY <1>0, <1>6
    <3> QED
      BY <1>1, <3>1
  <2>3. \A q \in Ahead(r) : \E m \in 1..(i - 1) : g[m] = q
    BY <1>8
  <2> HIDE DEF g
  <2> QED
    BY <2>1, <2>2, <2>3 DEF Bijection, Injection, Surjection, IsInjective
<1>10. Cardinality(Ahead(r)) = i - 1
  <2>1. i - 1 \in Nat
    BY <1>0, <1>6
  <2>2. ExistsBijection(1..(i - 1), Ahead(r))
    BY <1>9 DEF ExistsBijection
  <2> HIDE DEF g
  <2> QED
    BY <2>1, <2>2, FS_CountingElements
<1>11. IndexOf(r) = i
  BY <1>0, <1>6, <1>10 DEF IndexOf
<1> QED
  BY <1>1, <1>6, <1>11 DEF N

\* What a page holds of it.
LEMMA PageHolds ==
  ASSUME rank \in [Rows -> Nat], NEW o \in Orders, NEW n \in Nat
  PROVE  /\ Take(o, n) \in RowLists
         /\ \A r \in Alone :
              /\ (\E k \in DOMAIN Take(o, n) : Take(o, n)[k] = r)
                   <=> n < IndexOf(r) /\ IndexOf(r) <= n + PageSize
              /\ \A j, k \in DOMAIN Take(o, n) : Take(o, n)[j] = r /\ Take(o, n)[k] = r => j = k
<1> DEFINE N == Cardinality(Listed)
           left == Len(o) - n
           size == IF left < PageSize THEN left ELSE PageSize
           t == [k \in 1..size |-> o[n + k]]
<1>1. N \in Nat /\ PageSize \in Nat \ {0}
  BY ListedIsFinite, ListingsAssumption
<1>2. o \in [1..N -> Listed] /\ Listed \subseteq Rows
  BY DEF Orders, Listed, Stored
<1>3. Len(o) = N
  <2> HIDE DEF N
  <2> QED
    BY <1>1, <1>2
<1>4. Take(o, n) = t
  BY DEF Take
<1> HIDE DEF N
<1>5. left \in Int /\ left = N - n
  BY <1>1, <1>3
<1>6. size \in Int /\ size <= left /\ size <= PageSize /\ (size = left \/ size = PageSize)
  BY <1>1, <1>5
<1>7. \A k \in 1..size : n + k \in 1..N
  BY <1>1, <1>5, <1>6
<1> HIDE DEF size
<1>8. t \in RowLists
  <2>1. \A k \in 1..size : o[n + k] \in Rows
    BY <1>2, <1>7
  <2>2. CASE size < 0
    <3>1. 1..size = 1..0
      BY <1>6, <2>2
    <3>2. t \in [1..0 -> Rows]
      BY <2>1, <3>1
    <3> HIDE DEF t
    <3> QED
      BY <3>2 DEF RowLists
  <2>3. CASE size >= 0
    BY <1>6, <2>1, <2>3 DEF RowLists
  <2> QED
    BY <1>6, <2>2, <2>3
<1>9. ASSUME NEW r \in Alone
      PROVE  /\ (\E k \in DOMAIN t : t[k] = r) <=> n < IndexOf(r) /\ IndexOf(r) <= n + PageSize
             /\ \A j, k \in DOMAIN t : t[j] = r /\ t[k] = r => j = k
  <2>1. IndexOf(r) \in 1..N /\ \A m \in 1..N : o[m] = r <=> m = IndexOf(r)
    BY IndexInOrder DEF N
  <2>2. \A k \in DOMAIN t : t[k] = r <=> n + k = IndexOf(r)
    BY <1>7, <2>1
  <2>3. ASSUME n < IndexOf(r), IndexOf(r) <= n + PageSize
        PROVE  \E k \in DOMAIN t : t[k] = r
    <3>1. IndexOf(r) - n \in DOMAIN t
      BY <1>1, <1>5, <1>6, <2>1, <2>3
    <3> QED
      BY <2>1, <2>2, <3>1
  <2>4. ASSUME NEW k \in DOMAIN t, t[k] = r
        PROVE  n < IndexOf(r) /\ IndexOf(r) <= n + PageSize
    <3>1. n + k = IndexOf(r) /\ k \in 1..size
      BY <2>2, <2>4
    <3> QED
      BY <1>1, <1>6, <3>1
  <2>5. \A j, k \in DOMAIN t : t[j] = r /\ t[k] = r => j = k
    BY <1>6, <2>1, <2>2
  <2> QED
    BY <2>3, <2>4, <2>5
<1> QED
  BY <1>4, <1>8, <1>9

LEMMA ListingsInitInv == ListingsInit => ListingsInv
<1> SUFFICES ASSUME ListingsInit
             PROVE  ListingsInv
  OBVIOUS
<1>1. walk = Reading(1) /\ seen = <<>> /\ steady = Alone /\ torn = FALSE /\ list \in Lists
  BY DEF ListingsInit
<1>2. walk.state = "reading" /\ walk.page = 1 /\ walk.found = FALSE /\ walk.items = <<>>
      /\ walk.total = -1
  BY <1>1 DEF Reading
<1>3. rank \in [Rows -> Nat]
  <2>1. Ranks \cup {0} \subseteq Nat
    BY ListingsAssumption
  <2> QED
    BY <2>1 DEF ListingsInit
<1>4. walk \in WalkRecords /\ seen \in RowLists
  BY <1>1 DEF Reading, WalkRecords, PageNumbers, RowLists
<1>5. Frontier = 0
  BY <1>2, ListingsAssumption DEF Frontier
<1>6. UnmetIsAhead
  BY <1>5, ListedIsFinite DEF UnmetIsAhead
<1>7. MetIsBehind
  BY <1>1, <1>2 DEF MetIsBehind, Met, Fetched
<1>8. CountIsOfPage /\ WalksAreComplete
  BY <1>2 DEF CountIsOfPage, WalksAreComplete
<1> QED
  BY <1>1, <1>2, <1>3, <1>4, <1>6, <1>7, <1>8 DEF ListingsInv, ListingTypes

\* What a write changes of the list of a steady row.
LEMMA WriteMoves ==
  ASSUME Disturb
  PROVE  /\ steady' \subseteq steady /\ steady' \subseteq Alone'
         /\ pushed \subseteq pushed' /\ pulled \subseteq pulled'
         /\ \A r \in steady' \ pushed' : IndexOf(r)' <= IndexOf(r)
         /\ \A r \in steady' \ pulled' : IndexOf(r) <= IndexOf(r)'
         /\ list' = list /\ walk' = walk /\ seen' = seen
         /\ torn' = (torn \/ walk.found # (walk.total # -1))
         /\ \A r : IndexOf(r) \in Nat /\ IndexOf(r)' \in Nat
<1>1. \A r : IsFiniteSet(Ahead(r)) /\ IsFiniteSet(Ahead(r)')
             /\ Cardinality(Ahead(r)) \in Nat /\ Cardinality(Ahead(r)') \in Nat
  <2>1. ASSUME NEW S \in SUBSET Rows
        PROVE  IsFiniteSet(S) /\ Cardinality(S) \in Nat
    BY FS_Subset, FS_CardinalityType, ListingsAssumption
  <2>2. \A r : Ahead(r) \in SUBSET Rows /\ Ahead(r)' \in SUBSET Rows
    BY DEF Ahead, Listed, Stored
  <2> QED
    BY <2>1, <2>2
<1>2. ASSUME NEW r \in steady' \ pushed'
      PROVE  IndexOf(r)' <= IndexOf(r)
  <2>1. Ahead(r)' \in SUBSET Ahead(r)
    BY DEF Disturb
  <2>2. Cardinality(Ahead(r)') <= Cardinality(Ahead(r))
    BY <1>1, <2>1, FS_Subset
  <2> QED
    BY <1>1, <2>2 DEF IndexOf
<1>3. ASSUME NEW r \in steady' \ pulled'
      PROVE  IndexOf(r) <= IndexOf(r)'
  <2>1. Ahead(r) \in SUBSET Ahead(r)'
    BY DEF Disturb
  <2>2. Cardinality(Ahead(r)) <= Cardinality(Ahead(r)')
    BY <1>1, <2>1, FS_Subset
  <2> QED
    BY <1>1, <2>2 DEF IndexOf
<1>4. \A r : IndexOf(r) \in Nat /\ IndexOf(r)' \in Nat
  BY <1>1 DEF IndexOf
<1> QED
  BY <1>2, <1>3, <1>4 DEF Disturb

LEMMA WriteIsTyped ==
  ASSUME ListingsInv, NEW r \in Rows, Insert(r) \/ Update(r) \/ Delete(r)
  PROVE  Disturb /\ rank' \in [Rows -> Nat]
<1>1. Ranks \subseteq Nat /\ rank \in [Rows -> Nat] /\ list \in Lists
  BY ListingsAssumption DEF ListingsInv, ListingTypes
<1>2. list.table.inserts \in {"ahead", "anywhere"} /\ list.table.moves \in {"never", "ahead", "anywhere"}
  BY <1>1, ListingsAssumption
<1>3. \A where \in {"never", "ahead", "anywhere"} : Places(where) \subseteq Ranks
  BY DEF Places
<1>4. \A k \in Nat : [rank EXCEPT ![r] = k] \in [Rows -> Nat]
  BY <1>1
<1>5. CASE Insert(r)
  BY <1>1, <1>2, <1>3, <1>4, <1>5 DEF Insert
<1>6. CASE Update(r)
  BY <1>1, <1>2, <1>3, <1>4, <1>6 DEF Update
<1>7. CASE Delete(r)
  BY <1>1, <1>4, <1>7 DEF Delete
<1> QED
  BY <1>5, <1>6, <1>7

LEMMA WriteKeepsInv ==
  ASSUME ListingsInv, NEW r \in Rows, walk.state = "reading",
         Insert(r) \/ Update(r) \/ Delete(r)
  PROVE  ListingsInv'
<1>1. Disturb /\ rank' \in [Rows -> Nat]
  BY WriteIsTyped
<1>2. /\ steady' \subseteq steady /\ steady' \subseteq Alone'
      /\ pushed \subseteq pushed' /\ pulled \subseteq pulled'
      /\ list' = list /\ walk' = walk /\ seen' = seen
      /\ torn' = (torn \/ walk.found # (walk.total # -1))
  BY <1>1, WriteMoves
<1>3. \A q : IndexOf(q) \in Nat /\ IndexOf(q)' \in Nat
  BY <1>1, WriteMoves
<1>4. ListingTypes'
  BY <1>1, <1>2 DEF ListingsInv, ListingTypes
<1>5. Frontier' = Frontier /\ Frontier \in Int
  BY <1>2, ListingsAssumption DEF Frontier, ListingsInv, ListingTypes, WalkRecords, PageNumbers
<1>6. \A q : (Met(q)' <=> Met(q)) /\ (Fetched(q)' <=> Fetched(q))
  BY <1>2 DEF Met, Fetched
<1>7. UnmetIsAhead'
  <2> SUFFICES ASSUME NEW q \in steady' \ pulled', ~Met(q), ~Fetched(q)
               PROVE  IndexOf(q)' > Frontier
    BY <1>5, <1>6 DEF UnmetIsAhead
  <2>1. IndexOf(q) > Frontier
    BY <1>2 DEF ListingsInv, UnmetIsAhead
  <2>2. IndexOf(q) <= IndexOf(q)'
    BY <1>1, WriteMoves
  <2> QED
    BY <1>3, <1>5, <2>1, <2>2
<1>8. MetIsBehind'
  <2> SUFFICES ASSUME NEW q \in steady' \ pushed'
               PROVE  /\ Met(q) \/ Fetched(q) => IndexOf(q)' <= Frontier
                      /\ ~(Met(q) /\ Fetched(q))
                      /\ \A m, n \in DOMAIN seen : seen[m] = q /\ seen[n] = q => m = n
                      /\ \A m, n \in DOMAIN walk.items : walk.items[m] = q /\ walk.items[n] = q => m = n
    BY <1>2, <1>5, <1>6 DEF MetIsBehind
  <2>1. IndexOf(q)' <= IndexOf(q)
    BY <1>1, WriteMoves
  <2>2. q \in steady \ pushed
    BY <1>2
  <2> QED
    BY <1>3, <1>5, <2>1, <2>2 DEF ListingsInv, MetIsBehind
<1>9. CountIsOfPage'
  BY <1>2, <1>6 DEF ListingsInv, CountIsOfPage
<1>10. WalksAreComplete'
  BY <1>2 DEF WalksAreComplete
<1> QED
  BY <1>2, <1>4, <1>7, <1>8, <1>9, <1>10 DEF ListingsInv

\* When the table stays as it is.
LEMMA SameTable ==
  ASSUME UNCHANGED <<rank, matches>>
  PROVE  Listed' = Listed /\ Alone' = Alone /\ \A r : IndexOf(r)' = IndexOf(r)
BY DEF Listed, Stored, Alone, IndexOf, Ahead

LEMMA FindManyKeepsInv ==
  ASSUME ListingsInv, findMany
  PROVE  ListingsInv'
<1> DEFINE p == walk.page
           N == Cardinality(Listed)
<1>1. /\ walk.state = "reading" /\ ~walk.found /\ walk.items = <<>>
      /\ UnmetIsAhead /\ MetIsBehind /\ CountIsOfPage /\ ListingTypes
  BY DEF findMany, ListingsInv
<1>2. PICK o \in Orders : walk' = [walk EXCEPT !.found = TRUE, !.items = Take(o, skip(p))]
  BY DEF findMany
<1>3. UNCHANGED <<list, rank, matches, steady, pushed, pulled, torn, seen>>
  BY DEF findMany, tableVars
<1>4. Listed' = Listed /\ Alone' = Alone /\ \A r : IndexOf(r)' = IndexOf(r)
  BY <1>3, SameTable
<1>5. /\ p \in Nat \ {0} /\ PageSize \in Nat \ {0} /\ rank \in [Rows -> Nat]
      /\ steady \subseteq Alone /\ N \in Nat /\ \A r : IndexOf(r) \in Nat
  BY <1>1, ListedIsFinite, ListingsAssumption DEF ListingTypes, WalkRecords, PageNumbers
<1>6. skip(p) \in Nat /\ Frontier = skip(p) /\ skip(p) + PageSize = p * PageSize
  <2>1. (p - 1) * PageSize \in Nat /\ (p - 1) * PageSize = p * PageSize - PageSize
    <3> HIDE DEF p
    <3>1. p - 1 \in Nat
      BY <1>5
    <3> QED
      BY <1>5, <3>1
  <2> QED
    BY <1>1, <1>5, <2>1 DEF skip, Frontier
<1> DEFINE t == Take(o, skip(p))
<1>7. /\ t \in RowLists
      /\ \A r \in Alone :
           /\ (\E k \in DOMAIN t : t[k] = r) <=> skip(p) < IndexOf(r) /\ IndexOf(r) <= p * PageSize
           /\ \A j, k \in DOMAIN t : t[j] = r /\ t[k] = r => j = k
  BY <1>5, <1>6, PageHolds
<1>8. \A r \in Alone : IndexOf(r) <= N
  BY <1>2, <1>5, IndexInOrder
<1> HIDE DEF t
<1>9. /\ walk' \in WalkRecords
      /\ walk'.state = "reading" /\ walk'.page = p /\ walk'.found /\ walk'.items = t
      /\ walk'.total = walk.total
  <2>1. walk \in WalkRecords
    BY <1>1 DEF ListingTypes
  <2> QED
    BY <1>1, <1>2, <1>7, <2>1 DEF WalkRecords, t
<1>10. Frontier' = p * PageSize
  BY <1>5, <1>9 DEF Frontier
<1>11. ASSUME NEW r PROVE ~Fetched(r) /\ (Met(r)' <=> Met(r)) /\ (Fetched(r)' <=> \E k \in DOMAIN t : t[k] = r)
  BY <1>1, <1>3, <1>9 DEF Met, Fetched
<1>12. UnmetIsAhead'
  <2> SUFFICES ASSUME NEW r \in steady \ pulled, ~Met(r), ~(\E k \in DOMAIN t : t[k] = r)
               PROVE  IndexOf(r) > p * PageSize
    BY <1>3, <1>4, <1>10, <1>11 DEF UnmetIsAhead
  <2>1. IndexOf(r) > skip(p)
    BY <1>1, <1>6, <1>11 DEF UnmetIsAhead
  <2> QED
    BY <1>5, <1>6, <1>7, <2>1
<1>13. MetIsBehind'
  <2> SUFFICES ASSUME NEW r \in steady \ pushed
               PROVE  /\ Met(r) \/ (\E k \in DOMAIN t : t[k] = r) => IndexOf(r) <= p * PageSize
                      /\ ~(Met(r) /\ (\E k \in DOMAIN t : t[k] = r))
                      /\ \A m, n \in DOMAIN seen : seen[m] = r /\ seen[n] = r => m = n
                      /\ \A m, n \in DOMAIN t : t[m] = r /\ t[n] = r => m = n
    BY <1>3, <1>4, <1>9, <1>10, <1>11 DEF MetIsBehind
  <2>1. Met(r) => IndexOf(r) <= skip(p)
    BY <1>1, <1>6 DEF MetIsBehind
  <2>2. r \in Alone
    BY <1>5
  <2>3. \A m, n \in DOMAIN seen : seen[m] = r /\ seen[n] = r => m = n
    BY <1>1 DEF MetIsBehind
  <2>4. skip(p) <= p * PageSize /\ p * PageSize \in Nat
    BY <1>5, <1>6
  <2> QED
    BY <1>5, <1>6, <1>7, <2>1, <2>2, <2>3, <2>4
<1>14. CountIsOfPage'
  <2> SUFFICES ASSUME walk.total # -1, ~torn, NEW r \in steady \ pulled,
                      ~Met(r), ~(\E k \in DOMAIN t : t[k] = r)
               PROVE  walk.total > p * PageSize
    BY <1>3, <1>9, <1>11 DEF CountIsOfPage
  <2>1. walk.total = N
    BY <1>1 DEF CountIsOfPage
  <2>2. IndexOf(r) > p * PageSize
    BY <1>3, <1>4, <1>10, <1>11, <1>12 DEF UnmetIsAhead
  <2>3. IndexOf(r) <= N
    BY <1>5, <1>8
  <2> QED
    BY <1>5, <1>6, <2>1, <2>2, <2>3
<1>15. ListingTypes'
  BY <1>1, <1>3, <1>4, <1>9 DEF ListingTypes
<1> QED
  BY <1>9, <1>12, <1>13, <1>14, <1>15 DEF ListingsInv, WalksAreComplete

LEMMA CountKeepsInv ==
  ASSUME ListingsInv, count
  PROVE  ListingsInv'
<1> DEFINE p == walk.page
           N == Cardinality(Listed)
<1>1. /\ walk.state = "reading" /\ (~walk.found => walk.items = <<>>)
      /\ UnmetIsAhead /\ MetIsBehind /\ ListingTypes
  BY DEF count, ListingsInv
<1>2. walk' = [walk EXCEPT !.total = N]
  BY DEF count
<1>3. UNCHANGED <<list, rank, matches, steady, pushed, pulled, torn, seen>>
  BY DEF count, tableVars
<1>4. Listed' = Listed /\ Alone' = Alone /\ \A r : IndexOf(r)' = IndexOf(r)
  BY <1>3, SameTable
<1>5. /\ p \in Nat \ {0} /\ PageSize \in Nat \ {0}
      /\ steady \subseteq Alone /\ N \in Nat /\ \A r : IndexOf(r) \in Nat
  BY <1>1, ListedIsFinite, ListingsAssumption DEF ListingTypes, WalkRecords, PageNumbers
<1> HIDE DEF N
<1>6. /\ walk' \in WalkRecords
      /\ walk'.state = "reading" /\ walk'.page = p /\ walk'.found = walk.found
      /\ walk'.items = walk.items /\ walk'.total = N
  <2>1. walk \in WalkRecords
    BY <1>1 DEF ListingTypes
  <2> QED
    BY <1>1, <1>2, <1>5, <2>1 DEF WalkRecords
<1>7. Frontier' = Frontier
  BY <1>6 DEF Frontier
<1>8. \A r : (Met(r)' <=> Met(r)) /\ (Fetched(r)' <=> Fetched(r))
  BY <1>3, <1>6 DEF Met, Fetched
<1>9. UnmetIsAhead'
  BY <1>1, <1>3, <1>4, <1>7, <1>8 DEF UnmetIsAhead
<1>10. MetIsBehind'
  BY <1>1, <1>3, <1>4, <1>6, <1>7, <1>8 DEF MetIsBehind
<1>11. CountIsOfPage'
  <2>1. CASE ~walk.found
    BY <1>4, <1>6, <2>1 DEF CountIsOfPage, N
  <2>2. CASE walk.found
    <3> SUFFICES ASSUME NEW r \in steady \ pulled, ~Met(r), ~Fetched(r)
                 PROVE  N > p * PageSize
      BY <1>3, <1>6, <1>8, <2>2 DEF CountIsOfPage
    <3>1. IndexOf(r) > p * PageSize
      BY <1>1, <1>5, <2>2 DEF UnmetIsAhead, Frontier
    <3>2. IndexOf(r) <= N
      <4>1. r \in Alone
        BY <1>5
      <4>2. (Ahead(r) \cup {r}) \in SUBSET Listed /\ r \notin Ahead(r)
        BY <4>1 DEF Ahead, Alone
      <4>3. Cardinality(Ahead(r) \cup {r}) <= N
        BY <4>2, ListedIsFinite, FS_Subset DEF N
      <4>4. IsFiniteSet(Ahead(r))
        BY ListedIsFinite
      <4>5. Cardinality(Ahead(r) \cup {r}) = Cardinality(Ahead(r)) + 1
        BY <4>2, <4>4, FS_AddElement
      <4> QED
        BY <4>3, <4>5 DEF IndexOf
    <3>3. p * PageSize \in Nat
      BY <1>5
    <3> QED
      BY <1>5, <3>1, <3>2, <3>3
  <2> QED
    BY <2>1, <2>2
<1>12. ListingTypes'
  BY <1>1, <1>3, <1>4, <1>6 DEF ListingTypes
<1> QED
  BY <1>1, <1>6, <1>9, <1>10, <1>11, <1>12 DEF ListingsInv, WalksAreComplete

\* The last page ends at or after the last row.
LEMMA LastPage ==
  ASSUME NEW total \in Nat, NEW p \in Nat \ {0}, p >= pages(total)
  PROVE  total <= p * PageSize
<1>1. PageSize \in Nat \ {0}
  BY ListingsAssumption
<1>2. CASE total = 0
  BY <1>1, <1>2
<1>3. CASE total # 0
  <2> DEFINE q == (total + PageSize - 1) \div PageSize
  <2>1. q \in Nat /\ q * PageSize + PageSize > total + PageSize - 1
    BY <1>1
  <2>2. q <= p
    BY <1>3 DEF pages
  <2> HIDE DEF q
  <2>3. q * PageSize <= p * PageSize
    BY <1>1, <2>1, <2>2
  <2>4. q * PageSize \in Nat /\ p * PageSize \in Nat
    BY <1>1, <2>1
  <2> QED
    BY <1>1, <2>1, <2>3, <2>4
<1> QED
  BY <1>2, <1>3

LEMMA RespondKeepsInv ==
  ASSUME ListingsInv, respond
  PROVE  ListingsInv'
<1> DEFINE p == walk.page
<1>1. /\ walk.state = "reading" /\ walk.found /\ walk.total # -1
      /\ UnmetIsAhead /\ MetIsBehind /\ CountIsOfPage /\ ListingTypes
  BY DEF respond, ListingsInv
<1>2. UNCHANGED <<list, rank, matches, steady, pushed, pulled>> /\ seen' = seen \o walk.items
  BY DEF respond
<1>3. Listed' = Listed /\ Alone' = Alone /\ \A r : IndexOf(r)' = IndexOf(r)
  BY <1>2, SameTable
<1>4. /\ walk \in WalkRecords /\ seen \in RowLists /\ walk.items \in RowLists
      /\ p \in Nat \ {0} /\ walk.total \in Nat /\ PageSize \in Nat \ {0}
  BY <1>1, ListingsAssumption DEF ListingTypes, WalkRecords, PageNumbers
<1> DEFINE k == Len(seen)
           t == walk.items
           s == seen
           l == Len(t)
<1>5. /\ k \in Nat /\ l \in Nat /\ DOMAIN s = 1..k /\ DOMAIN t = 1..l
      /\ seen' \in RowLists /\ DOMAIN seen' = 1..(k + l)
      /\ \A n \in 1..k : seen'[n] = s[n]
      /\ \A n \in 1..(k + l) : n > k => seen'[n] = t[n - k]
  <2>1. k \in Nat /\ l \in Nat /\ DOMAIN s = 1..k /\ DOMAIN t = 1..l
    BY <1>4 DEF RowLists
  <2>2. s \o t \in RowLists /\ Len(s \o t) = k + l
    BY <1>4 DEF RowLists
  <2>3. DOMAIN (s \o t) = 1..(k + l)
    BY <2>2 DEF RowLists
  <2>4. /\ \A n \in 1..k : (s \o t)[n] = s[n]
        /\ \A n \in 1..(k + l) : n > k => (s \o t)[n] = t[n - k]
    BY <1>4, <2>1 DEF RowLists
  <2> QED
    BY <1>2, <2>1, <2>2, <2>3, <2>4
<1> HIDE DEF k, l
<1>6. ASSUME NEW r PROVE Met(r)' <=> Met(r) \/ Fetched(r)
  <2>1. ASSUME NEW n \in 1..k, s[n] = r PROVE n \in 1..(k + l) /\ seen'[n] = r
    BY <1>5, <2>1
  <2>2. ASSUME NEW n \in 1..l, t[n] = r PROVE n + k \in 1..(k + l) /\ seen'[n + k] = r
    <3>1. n + k \in 1..(k + l) /\ n + k > k /\ (n + k) - k = n
      BY <1>5
    <3> QED
      BY <1>5, <2>2, <3>1
  <2>3. ASSUME NEW n \in 1..(k + l), seen'[n] = r
        PROVE  (\E m \in 1..k : s[m] = r) \/ (\E m \in 1..l : t[m] = r)
    <3>1. CASE n <= k
      BY <1>5, <2>3, <3>1
    <3>2. CASE n > k
      <4>1. n - k \in 1..l /\ t[n - k] = r
        BY <1>5, <2>3, <3>2
      <4> QED
        BY <4>1
    <3> QED
      BY <1>5, <3>1, <3>2
  <2> QED
    BY <1>5, <2>1, <2>2, <2>3 DEF Met, Fetched
<1>7. ASSUME NEW r \in steady \ pushed, NEW m \in DOMAIN seen', NEW n \in DOMAIN seen',
             seen'[m] = r, seen'[n] = r
      PROVE  m = n
  <2>1. /\ \A i, j \in 1..k : s[i] = r /\ s[j] = r => i = j
        /\ \A i, j \in 1..l : t[i] = r /\ t[j] = r => i = j
        /\ \A i \in 1..k, j \in 1..l : ~(s[i] = r /\ t[j] = r)
    BY <1>1, <1>5 DEF MetIsBehind, Met, Fetched
  <2>2. \A i \in 1..(k + l) : i > k => i - k \in 1..l
    BY <1>5
  <2>3. \A i \in 1..(k + l) : i <= k => i \in 1..k
    BY <1>5
  <2>4. CASE m <= k /\ n <= k
    BY <1>5, <1>7, <2>1, <2>3, <2>4
  <2>5. CASE m > k /\ n > k
    <3>1. m - k = n - k
      BY <1>5, <1>7, <2>1, <2>2, <2>5
    <3> QED
      BY <1>5, <3>1
  <2>6. CASE m <= k /\ n > k
    BY <1>5, <1>7, <2>1, <2>2, <2>3, <2>6
  <2>7. CASE m > k /\ n <= k
    BY <1>5, <1>7, <2>1, <2>2, <2>3, <2>7
  <2> QED
    BY <1>5, <2>4, <2>5, <2>6, <2>7
<1>8. Frontier = p * PageSize /\ p * PageSize \in Nat
  BY <1>1, <1>4 DEF Frontier
<1>9. CASE p >= pages(walk.total) /\ walk' = [walk EXCEPT !.state = "done"] /\ UNCHANGED torn
  <2>1. walk'.state = "done" /\ walk' \in WalkRecords
    BY <1>4, <1>9 DEF WalkRecords
  <2>2. ListingTypes'
    BY <1>1, <1>2, <1>3, <1>5, <1>9, <2>1 DEF ListingTypes
  <2>3. walk.total <= p * PageSize
    BY <1>4, <1>9, LastPage
  <2>4. ASSUME NEW r \in steady, r \notin pulled, ~torn
        PROVE  Met(r)'
    <3>1. Met(r) \/ Fetched(r) \/ walk.total > p * PageSize
      BY <1>1, <2>4 DEF CountIsOfPage
    <3> QED
      BY <1>4, <1>6, <1>8, <2>3, <3>1
  <2>5. ASSUME NEW r \in steady, r \notin pushed
        PROVE  Cardinality({n \in DOMAIN seen' : seen'[n] = r}) <= 1
    <3> DEFINE met == {n \in DOMAIN seen' : seen'[n] = r}
    <3>1. \A m, n \in met : m = n
      BY <1>7, <2>5
    <3> HIDE DEF met
    <3>2. Cardinality(met) = 0 \/ Cardinality(met) = 1
      <4>1. CASE met = {}
        BY <4>1, FS_EmptySet
      <4>2. CASE met # {}
        <5>1. PICK n \in met : TRUE
          BY <4>2
        <5>2. met = {n}
          BY <3>1, <5>1
        <5>3. Cardinality({n}) = 1
          BY FS_Singleton
        <5> QED
          BY <5>2, <5>3
      <4> QED
        BY <4>1, <4>2
    <3> QED
      BY <3>2 DEF met
  <2>6. WalksAreComplete'
    BY <1>2, <1>9, <2>4, <2>5 DEF WalksAreComplete, Met
  <2> QED
    BY <2>1, <2>2, <2>6 DEF ListingsInv
<1>10. CASE walk' = Reading(p + 1) /\ torn' = FALSE
  <2>1. /\ walk'.state = "reading" /\ walk'.page = p + 1 /\ walk'.found = FALSE
        /\ walk'.items = <<>> /\ walk'.total = -1
    BY <1>10 DEF Reading
  <2>2. walk' \in WalkRecords
    BY <1>4, <1>10 DEF Reading, WalkRecords, PageNumbers, RowLists
  <2>3. Frontier' = Frontier
    <3>1. (p + 1) * PageSize - PageSize = p * PageSize
      <4> HIDE DEF p
      <4> QED
        BY <1>4
    <3> QED
      BY <1>8, <2>1, <3>1 DEF Frontier
  <2>4. ASSUME NEW r PROVE ~Fetched(r)'
    BY <2>1 DEF Fetched
  <2>5. ListingTypes'
    BY <1>1, <1>2, <1>3, <1>5, <1>10, <2>2 DEF ListingTypes
  <2>6. UnmetIsAhead'
    BY <1>1, <1>2, <1>3, <1>6, <2>3 DEF UnmetIsAhead
  <2>7. MetIsBehind'
    <3> SUFFICES ASSUME NEW r \in steady \ pushed
                 PROVE  /\ Met(r)' => IndexOf(r) <= Frontier
                        /\ \A m, n \in DOMAIN seen' : seen'[m] = r /\ seen'[n] = r => m = n
      BY <1>2, <1>3, <2>1, <2>3, <2>4 DEF MetIsBehind
    <3>1. Met(r)' => IndexOf(r) <= Frontier
      BY <1>1, <1>6 DEF MetIsBehind
    <3> QED
      BY <1>7, <3>1
  <2>8. CountIsOfPage' /\ WalksAreComplete'
    BY <2>1 DEF CountIsOfPage, WalksAreComplete
  <2> QED
    BY <2>1, <2>5, <2>6, <2>7, <2>8 DEF ListingsInv
<1>11. CASE walk' = [walk EXCEPT !.state = "refused"] /\ UNCHANGED torn
  <2>1. walk'.state = "refused" /\ walk' \in WalkRecords
    BY <1>4, <1>11 DEF WalkRecords
  <2>2. ListingTypes'
    BY <1>1, <1>2, <1>3, <1>5, <1>11, <2>1 DEF ListingTypes
  <2> QED
    BY <2>1, <2>2 DEF ListingsInv, WalksAreComplete
<1> QED
  BY <1>9, <1>10, <1>11 DEF respond

LEMMA ListingsNextKeepsInv == ListingsInv /\ [CalculationsNext]_calculationVars => ListingsInv'
<1> SUFFICES ASSUME ListingsInv, [CalculationsNext]_calculationVars
             PROVE  ListingsInv'
  OBVIOUS
<1>1. ListingsNext \/ UNCHANGED listVars
  BY DEF CalculationsNext, Only, calculationVars
<1>2. CASE ListingsNext
  BY <1>2, WriteKeepsInv, FindManyKeepsInv, CountKeepsInv, RespondKeepsInv DEF ListingsNext
<1>3. CASE UNCHANGED listVars
  <2>1. UNCHANGED <<list, rank, matches, steady, pushed, pulled, torn, walk, seen>>
    BY <1>3 DEF listVars, tableVars
  <2>2. Listed' = Listed /\ Alone' = Alone /\ \A r : IndexOf(r)' = IndexOf(r)
    BY <2>1, SameTable
  <2>3. ListingTypes'
    BY <2>1, <2>2 DEF ListingsInv, ListingTypes
  <2>4. (walk.state = "reading" => UnmetIsAhead /\ MetIsBehind /\ CountIsOfPage)
          => (walk.state = "reading" => UnmetIsAhead' /\ MetIsBehind' /\ CountIsOfPage')
    BY <2>1, <2>2 DEF UnmetIsAhead, MetIsBehind, CountIsOfPage, Met, Fetched, Frontier
  <2> QED
    BY <2>1, <2>3, <2>4 DEF ListingsInv, WalksAreComplete
<1> QED
  BY <1>1, <1>2, <1>3

\* Whatever is inserted, moved or deleted while a client walks through a list
\* (findMany with skip and take, and count): a row that was alone at its place
\* all along is met, and met once, unless rows before it went or came, or the
\* last count is of another moment than its page.
THEOREM WalksMeetAll == CalculationsSpec => []WalksAreComplete
<1>1. CalculationsInit => ListingsInv
  BY ListingsInitInv DEF CalculationsInit
<1>2. ListingsInv => WalksAreComplete
  BY DEF ListingsInv
<1> QED
  BY <1>1, <1>2, ListingsNextKeepsInv, PTL DEF CalculationsSpec

-----------------------------------------------------------------------------
(***************************************************************************)
(* Run dates.                                                              *)
(***************************************************************************)

AnyDates ==
  {date \in [y : Int, m : 0..11, d : 1..31, t : Int] : date.d <= lastDay(date.y, date.m)}

Weekly(cadence) == cadence = "WEEKLY"

\* The length of a period: days of a weekly schedule, months of any other.
Length(cadence, interval) ==
  IF Weekly(cadence) THEN 7 * Step(interval) ELSE Months(cadence) * Step(interval)

\* What so many days, or months, after a date is.
DaysAfter(date, from, days) ==
  date \in AnyDates /\ CalendarDay(date) = CalendarDay(from) + days /\ date.t = from.t

MonthsAfter(date, from, months) ==
  /\ date \in AnyDates
  /\ MonthOf(date) = MonthOf(from) + months
  /\ date.d <= from.d
  /\ date.d >= 28 \/ date.d = from.d
  /\ date.t = from.t

LaterBy(cadence, date, from, length) ==
  IF Weekly(cadence) THEN DaysAfter(date, from, length) ELSE MonthsAfter(date, from, length)

(* The calendar *)

LEMMA MonthLengths == \A y \in Int, m \in 0..11 : lastDay(y, m) \in 28..31
  BY DEF lastDay

LEMMA DaysBeforeMonths ==
  /\ \A m \in 0..11 : DaysBefore[m + 1] \in Nat
  /\ \A m \in 0..10 : m # 1 => \A y \in Int :
       DaysBefore[m + 2] = DaysBefore[m + 1] + lastDay(y, m)
  /\ DaysBefore[3] = DaysBefore[2] + 28
  /\ DaysBefore[1] = 0 /\ DaysBefore[12] = 334
<1>1. \A m \in 0..11 : m \in {0, 1, 2, 3, 4, 5, 6, 7, 8, 9, 10, 11}
  OBVIOUS
<1>2. /\ DaysBefore[1] = 0 /\ DaysBefore[2] = 31 /\ DaysBefore[3] = 59 /\ DaysBefore[4] = 90
      /\ DaysBefore[5] = 120 /\ DaysBefore[6] = 151 /\ DaysBefore[7] = 181
      /\ DaysBefore[8] = 212 /\ DaysBefore[9] = 243 /\ DaysBefore[10] = 273
      /\ DaysBefore[11] = 304 /\ DaysBefore[12] = 334
  BY DEF DaysBefore
<1>3. \A m \in 0..11 : DaysBefore[m + 1] \in Nat
  BY <1>1, <1>2
<1>4. ASSUME NEW m \in 0..10, m # 1, NEW y \in Int
      PROVE  DaysBefore[m + 2] = DaysBefore[m + 1] + lastDay(y, m)
  BY <1>1, <1>2, <1>4 DEF lastDay
<1> QED
  BY <1>2, <1>3, <1>4

\* The leap years up to a year.
Leaps(y) == y \div 4 - y \div 100 + y \div 400

LEMMA LeapYear ==
  ASSUME NEW y \in Int
  PROVE  /\ Leaps(y) \in Int /\ Leaps(y - 1) \in Int
         /\ Leaps(y) = Leaps(y - 1) + IF Leap(y) THEN 1 ELSE 0
<1>1. y \div 4 = (y - 1) \div 4 + IF y % 4 = 0 THEN 1 ELSE 0
  OBVIOUS
<1>2. y \div 100 = (y - 1) \div 100 + IF y % 100 = 0 THEN 1 ELSE 0
  OBVIOUS
<1>3. y \div 400 = (y - 1) \div 400 + IF y % 400 = 0 THEN 1 ELSE 0
  OBVIOUS
<1>4. (y % 400 = 0 => y % 100 = 0) /\ (y % 100 = 0 => y % 4 = 0)
  OBVIOUS
<1>5. /\ (y - 1) \div 4 \in Int /\ (y - 1) \div 100 \in Int /\ (y - 1) \div 400 \in Int
      /\ y \div 4 \in Int /\ y \div 100 \in Int /\ y \div 400 \in Int
  OBVIOUS
<1>6. Leap(y) <=> y % 4 = 0 /\ (y % 100 # 0 \/ y % 400 = 0)
  BY DEF Leap
<1> QED
  BY <1>1, <1>2, <1>3, <1>4, <1>5, <1>6 DEF Leaps

\* A month after another one starts when that one ends.
LEMMA MonthsFollow ==
  ASSUME NEW y \in Int, NEW m \in 0..11
  PROVE  /\ StartOf(y, m) \in Int
         /\ StartOf(IF m = 11 THEN y + 1 ELSE y, (m + 1) % 12) = StartOf(y, m) + lastDay(y, m)
<1> DEFINE rest(k) == DaysBefore[k + 1] + IF k > 1 /\ Leap(y) THEN 1 ELSE 0
<1>1. \A k \in 0..11 : StartOf(y, k) = 365 * (y - 1) + Leaps(y - 1) + rest(k)
  <2>1. /\ (y - 1) \div 4 \in Int /\ (y - 1) \div 100 \in Int /\ (y - 1) \div 400 \in Int
        /\ 365 * (y - 1) \in Int
    OBVIOUS
  <2>2. \A k \in 0..11 : DaysBefore[k + 1] \in Int
    BY DaysBeforeMonths
  <2> QED
    BY <2>1, <2>2 DEF StartOf, Leaps
<1>2. Leaps(y - 1) \in Int /\ 365 * (y - 1) \in Int
  BY LeapYear
<1>3. \A k \in 0..11 : rest(k) \in Int
  BY DaysBeforeMonths
<1>4. lastDay(y, m) \in Int
  BY MonthLengths
<1>5. StartOf(y, m) \in Int
  BY <1>1, <1>2, <1>3
<1>6. CASE m < 11
  <2>1. (m + 1) % 12 = m + 1 /\ m + 1 \in 0..11
    BY <1>6
  <2>2. rest(m + 1) = rest(m) + lastDay(y, m)
    <3>1. CASE m = 1
      BY <3>1, DaysBeforeMonths DEF lastDay
    <3>2. CASE m # 1
      <4>1. DaysBefore[m + 2] = DaysBefore[m + 1] + lastDay(y, m)
        BY <1>6, <3>2, DaysBeforeMonths
      <4>2. m + 1 > 1 <=> m > 1 \/ m = 1
        OBVIOUS
      <4>3. (m + 1) + 1 = m + 2 /\ DaysBefore[m + 1] \in Int
        BY DaysBeforeMonths
      <4>4. rest(m + 1) = DaysBefore[m + 2] + IF m > 1 /\ Leap(y) THEN 1 ELSE 0
        BY <3>2, <4>2, <4>3
      <4> QED
        BY <1>4, <4>1, <4>3, <4>4
    <3> QED
      BY <3>1, <3>2
  <2> HIDE DEF rest
  <2>3. StartOf(y, m + 1) = 365 * (y - 1) + Leaps(y - 1) + rest(m + 1)
    BY <1>1, <2>1
  <2>4. StartOf(y, m) = 365 * (y - 1) + Leaps(y - 1) + rest(m)
    BY <1>1
  <2>5. StartOf(y, m + 1) = StartOf(y, m) + lastDay(y, m)
    BY <1>2, <1>3, <1>4, <2>2, <2>3, <2>4
  <2> QED
    BY <1>5, <1>6, <2>1, <2>5
<1>7. CASE m = 11
  <2>1. (m + 1) % 12 = 0 /\ lastDay(y, m) = 31
    BY <1>7 DEF lastDay
  <2>2. StartOf(y, 11) = 365 * (y - 1) + Leaps(y - 1) + (334 + IF Leap(y) THEN 1 ELSE 0)
    BY <1>1, DaysBeforeMonths
  <2>3. StartOf(y + 1, 0) = 365 * y + Leaps(y)
    <3>1. (y + 1) - 1 = y
      OBVIOUS
    <3>2. y \div 4 \in Int /\ y \div 100 \in Int /\ y \div 400 \in Int
      OBVIOUS
    <3> QED
      BY <3>1, <3>2, DaysBeforeMonths DEF StartOf, Leaps
  <2>4. Leaps(y) = Leaps(y - 1) + (IF Leap(y) THEN 1 ELSE 0) /\ Leaps(y) \in Int
    BY LeapYear
  <2>5. StartOf(y + 1, 0) = StartOf(y, 11) + 31
    BY <1>2, <2>2, <2>3, <2>4
  <2> QED
    BY <1>5, <1>7, <2>1, <2>5
<1> QED
  BY <1>6, <1>7

LEMMA DateParts ==
  ASSUME NEW date \in AnyDates
  PROVE  /\ date.y \in Int /\ date.m \in 0..11 /\ date.d \in 1..31 /\ date.t \in Int
         /\ date.d \in Int /\ date.d <= lastDay(date.y, date.m)
         /\ MonthOf(date) \in Int /\ CalendarDay(date) \in Int
<1>1. /\ date.y \in Int /\ date.m \in 0..11 /\ date.d \in 1..31 /\ date.t \in Int
      /\ date.d <= lastDay(date.y, date.m)
  BY DEF AnyDates
<1>2. \A y \in Int, m \in 0..11 : 12 * y + m \in Int
  OBVIOUS
<1>3. StartOf(date.y, date.m) \in Int
  BY <1>1, MonthsFollow
<1> QED
  BY <1>1, <1>2, <1>3 DEF MonthOf, CalendarDay

LEMMA AddedDaysInMonth ==
  ASSUME NEW from \in AnyDates, NEW n \in 0..28
  PROVE  DaysAfter(AddDaysInMonth(from, n), from, n)
<1> DEFINE last == lastDay(from.y, from.m)
<1>1. /\ from.y \in Int /\ from.m \in 0..11 /\ from.d \in 1..31 /\ from.t \in Int
      /\ from.d <= last /\ last \in 28..31
      /\ from = [y |-> from.y, m |-> from.m, d |-> from.d, t |-> from.t]
  BY DateParts, MonthLengths DEF AnyDates
<1>2. StartOf(from.y, from.m) \in Int
  BY <1>1, MonthsFollow
<1>3. CASE from.d + n <= last
  <2> DEFINE date == [y |-> from.y, m |-> from.m, d |-> from.d + n, t |-> from.t]
  <2>1. AddDaysInMonth(from, n) = date
    BY <1>1, <1>3 DEF AddDaysInMonth
  <2>2. date \in AnyDates
    BY <1>1, <1>3 DEF AnyDates
  <2>3. CalendarDay(date) = CalendarDay(from) + n
    BY <1>1, <1>2 DEF CalendarDay
  <2>4. DaysAfter(date, from, n)
    BY <2>2, <2>3 DEF DaysAfter
  <2> HIDE DEF date
  <2> QED
    BY <2>1, <2>4
<1>4. CASE ~(from.d + n <= last)
  <2> DEFINE y == IF from.m = 11 THEN from.y + 1 ELSE from.y
             m == (from.m + 1) % 12
             d == from.d + n - last
             date == [y |-> y, m |-> m, d |-> d, t |-> from.t]
  <2>1. AddDaysInMonth(from, n) = date
    BY <1>1, <1>4 DEF AddDaysInMonth
  <2>2. y \in Int /\ m \in 0..11 /\ d \in 1..28
    BY <1>1, <1>4
  <2>3. StartOf(y, m) = StartOf(from.y, from.m) + last
    BY <1>1, MonthsFollow
  <2>4. lastDay(y, m) \in 28..31
    BY <2>2, MonthLengths
  <2>5. d + last = from.d + n
    BY <1>1
  <2> HIDE DEF y, m, d, last
  <2>6. date \in AnyDates
    BY <1>1, <2>2, <2>4 DEF AnyDates
  <2>7. CalendarDay(date) = CalendarDay(from) + n
    <3>1. CalendarDay(date) = StartOf(y, m) + d
      BY DEF CalendarDay
    <3>2. CalendarDay(from) = StartOf(from.y, from.m) + from.d
      BY DEF CalendarDay
    <3>3. StartOf(from.y, from.m) \in Int /\ d \in Int /\ last \in Int /\ from.d \in Int
      BY <1>1, <1>2, <2>2
    <3>4. \A a, b, c, e \in Int : b + c = e + n => a + c + b = a + e + n
      OBVIOUS
    <3> QED
      BY <2>3, <2>5, <3>1, <3>2, <3>3, <3>4
  <2>8. DaysAfter(date, from, n)
    BY <2>6, <2>7 DEF DaysAfter
  <2> HIDE DEF date
  <2> QED
    BY <2>1, <2>8
<1> QED
  BY <1>3, <1>4

LEMMA LaterAgain ==
  ASSUME NEW cadence, NEW a \in AnyDates, NEW b, NEW c, NEW p \in Int, NEW q \in Int,
         LaterBy(cadence, b, a, p), LaterBy(cadence, c, b, q)
  PROVE  LaterBy(cadence, c, a, p + q)
<1>1. b \in AnyDates /\ c \in AnyDates
  BY DEF LaterBy, DaysAfter, MonthsAfter
<1>2. /\ MonthOf(a) \in Int /\ a.d \in Int /\ CalendarDay(a) \in Int
      /\ MonthOf(b) \in Int /\ b.d \in Int /\ CalendarDay(b) \in Int
      /\ MonthOf(c) \in Int /\ c.d \in Int /\ CalendarDay(c) \in Int
  BY <1>1, DateParts
<1>3. CASE Weekly(cadence)
  BY <1>2, <1>3 DEF LaterBy, DaysAfter
<1>4. CASE ~Weekly(cadence)
  BY <1>2, <1>4 DEF LaterBy, MonthsAfter
<1> QED
  BY <1>3, <1>4

LEMMA DaysAgain ==
  ASSUME NEW a \in AnyDates, NEW b, NEW c, NEW p \in Int, NEW q \in Int,
         DaysAfter(b, a, p), DaysAfter(c, b, q)
  PROVE  DaysAfter(c, a, p + q)
<1>1. CalendarDay(a) \in Int
  BY DateParts
<1> QED
  BY <1>1 DEF DaysAfter

\* A day after n days, and the same 28 days on.
LEMMA AddedDays ==
  ASSUME NEW from \in AnyDates, NEW days \in Nat
  PROVE  DaysAfter(addDaysUtc(from, days), from, days)
<1> DEFINE N == days \div 28
           rest == days % 28
           first == AddDaysInMonth(from, rest)
           step == [x \in AnyDates \X (1..N) |-> AddDaysInMonth(x[1], 28)]
           after == CHOOSE after : after = [n \in 0..N |-> IF n = 0 THEN first
                                                          ELSE AddDaysInMonth(after[n - 1], 28)]
<1>1. N \in Nat /\ rest \in 0..28 /\ rest + 28 * N = days
  OBVIOUS
<1>2. addDaysUtc(from, days) = after[N]
  BY Zenon DEF addDaysUtc
<1> HIDE DEF N, rest
<1>3. DaysAfter(first, from, rest)
  BY <1>1, AddedDaysInMonth
<1>4. \A x \in AnyDates : DaysAfter(AddDaysInMonth(x, 28), x, 28)
  BY AddedDaysInMonth
<1>5. first \in AnyDates
  BY <1>3 DEF DaysAfter
<1> HIDE DEF first
<1>6. step \in [AnyDates \X (1..N) -> AnyDates]
  BY <1>4 DEF DaysAfter
<1>7. PICK f \in [0..N -> AnyDates] : Unfolds(f, N, first, step)
  <2> HIDE DEF step
  <2> QED
    BY <1>1, <1>5, <1>6, RecursionExists
<1>8. ASSUME NEW n \in 1..N PROVE f[n] = AddDaysInMonth(f[n - 1], 28)
  <2>1. n - 1 \in 0..N
    BY <1>1
  <2>2. f[n - 1] \in AnyDates
    BY <1>7, <2>1
  <2>3. step[<<f[n - 1], n>>] = AddDaysInMonth(f[n - 1], 28)
    BY <2>2
  <2> HIDE DEF step
  <2> QED
    BY <1>7, <2>3 DEF Unfolds
<1>9. f = [n \in 0..N |-> IF n = 0 THEN first ELSE AddDaysInMonth(f[n - 1], 28)]
  <2>1. f = [n \in 0..N |-> f[n]]
    BY <1>7
  <2>2. ASSUME NEW n \in 0..N
        PROVE  f[n] = IF n = 0 THEN first ELSE AddDaysInMonth(f[n - 1], 28)
    <3>1. CASE n = 0
      BY <1>7, <3>1 DEF Unfolds
    <3>2. CASE n # 0
      <4>1. n \in 1..N
        BY <1>1, <3>2
      <4> QED
        BY <1>8, <3>2, <4>1
    <3> QED
      BY <3>1, <3>2
  <2> QED
    BY <2>1, <2>2
<1>10. after = [n \in 0..N |-> IF n = 0 THEN first ELSE AddDaysInMonth(after[n - 1], 28)]
  <2>1. \E g : g = [n \in 0..N |-> IF n = 0 THEN first ELSE AddDaysInMonth(g[n - 1], 28)]
    BY <1>9
  <2> QED
    BY <2>1
<1> HIDE DEF after
<1> DEFINE T == {n \in 0..N : DaysAfter(after[n], from, rest + 28 * n)}
<1>11. 0 \in T
  <2>1. after[0] = first /\ 0 \in 0..N
    BY <1>1, <1>10
  <2>2. rest + 28 * 0 = rest
    BY <1>1
  <2> QED
    BY <1>3, <2>1, <2>2
<1>12. ASSUME NEW n \in 1..N, n - 1 \in T PROVE n \in T
  <2>1. after[n] = AddDaysInMonth(after[n - 1], 28)
    BY <1>1, <1>10
  <2>2. DaysAfter(after[n - 1], from, rest + 28 * (n - 1))
    BY <1>12
  <2>3. DaysAfter(after[n], after[n - 1], 28)
    BY <1>4, <2>1, <2>2 DEF DaysAfter
  <2>4. /\ rest + 28 * (n - 1) \in Int
        /\ (rest + 28 * (n - 1)) + 28 = rest + 28 * n
    BY <1>1
  <2>5. DaysAfter(after[n], from, rest + 28 * n)
    BY <2>2, <2>3, <2>4, DaysAgain
  <2>6. n \in 0..N
    BY <1>1
  <2> QED
    BY <2>5, <2>6
<1> HIDE DEF T
<1>13. N \in T
  BY <1>1, <1>11, <1>12, UpTo
<1> QED
  BY <1>1, <1>2, <1>13 DEF T

LEMMA AddedMonths ==
  ASSUME NEW from \in AnyDates, NEW months \in Nat
  PROVE  MonthsAfter(addMonthsUtc(from, months), from, months)
<1> DEFINE month == from.m + months
           y == from.y + month \div 12
           m == month % 12
           last == lastDay(y, m)
<1>1. from.y \in Int /\ from.m \in 0..11 /\ from.d \in 1..31 /\ from.t \in Int
  BY DEF AnyDates
<1>2. y \in Int /\ m \in 0..11 /\ 12 * y + m = 12 * from.y + from.m + months
  <2>1. month \in Nat
    BY <1>1
  <2> HIDE DEF month
  <2>2. month \div 12 \in Int /\ month % 12 \in 0..11 /\ 12 * (month \div 12) + (month % 12) = month
    BY <2>1
  <2> DEFINE q == month \div 12
             rest == month % 12
  <2>3. q \in Int /\ rest \in 0..11 /\ 12 * q + rest = from.m + months
    BY <2>2 DEF month
  <2>4. y = from.y + q /\ m = rest
    BY DEF month
  <2> HIDE DEF q, rest, y, m
  <2>5. \A a, b, c \in Int : 12 * (a + b) + c = 12 * a + (12 * b + c)
    OBVIOUS
  <2>6. from.y \in Int /\ q \in Int /\ rest \in Int
    BY <1>1, <2>3
  <2>9. 12 * (from.y + q) + rest = 12 * from.y + (12 * q + rest)
    BY <2>5, <2>6
  <2>7. from.y + q \in Int
    BY <1>1, <2>3
  <2>8. 12 * from.y + (from.m + months) = 12 * from.y + from.m + months
    BY <1>1
  <2> QED
    BY <2>3, <2>4, <2>7, <2>8, <2>9
<1>3. last \in 28..31
  BY <1>2, MonthLengths
<1> DEFINE d == IF from.d <= last THEN from.d ELSE last
           date == [y |-> y, m |-> m, d |-> d, t |-> from.t]
<1>4. addMonthsUtc(from, months) = date
  BY DEF addMonthsUtc, Clamp
<1> HIDE DEF y, m, last
<1>5. d \in 1..31 /\ d <= from.d /\ d <= last /\ (d >= 28 \/ d = from.d)
  BY <1>1, <1>3
<1> HIDE DEF d
<1>6. date \in AnyDates
  BY <1>1, <1>2, <1>5 DEF AnyDates, last
<1>7. MonthOf(date) = MonthOf(from) + months
  BY <1>2 DEF MonthOf
<1>8. MonthsAfter(date, from, months)
  BY <1>5, <1>6, <1>7 DEF MonthsAfter
<1> HIDE DEF date
<1> QED
  BY <1>4, <1>8

LEMMA LengthsAreNat ==
  ASSUME NEW cadence \in Cadence, NEW interval \in Int
  PROVE  Length(cadence, interval) \in Nat
<1>1. Step(interval) \in Nat
  BY DEF Step
<1>2. CASE Weekly(cadence)
  BY <1>1, <1>2 DEF Length
<1>3. CASE ~Weekly(cadence)
  <2>1. Months(cadence) \in {1, 3, 12}
    BY <1>3 DEF Months, Weekly, Cadence
  <2> QED
    BY <1>1, <1>3, <2>1 DEF Length
<1> QED
  BY <1>2, <1>3

\* nextRunDate goes on by one period.
LEMMA NextIsLater ==
  ASSUME NEW cadence \in Cadence, NEW interval \in Int, NEW from \in AnyDates
  PROVE  LaterBy(cadence, nextRunDate(cadence, interval, from), from, Length(cadence, interval))
<1>1. Length(cadence, interval) \in Nat
  BY LengthsAreNat
<1>2. CASE Weekly(cadence)
  <2>1. nextRunDate(cadence, interval, from) = addDaysUtc(from, Length(cadence, interval))
    BY <1>2 DEF nextRunDate, Weekly, Length
  <2> QED
    BY <1>1, <1>2, <2>1, AddedDays DEF LaterBy
<1>3. CASE ~Weekly(cadence)
  <2>1. nextRunDate(cadence, interval, from) = addMonthsUtc(from, Length(cadence, interval))
    BY <1>3 DEF nextRunDate, Weekly, Length
  <2> QED
    BY <1>1, <1>3, <2>1, AddedMonths DEF LaterBy
<1> QED
  BY <1>2, <1>3

\* The dates of a schedule, however many.
LEMMA DatesAreLater ==
  ASSUME NEW cadence \in Cadence, NEW interval \in Int, NEW from \in AnyDates
  PROVE  \A n \in 1..GUARD + 1 :
           LaterBy(cadence, Dates(cadence, interval, from)[n], from, n * Length(cadence, interval))
<1> DEFINE N == GUARD + 1
           L == Length(cadence, interval)
           next(x) == nextRunDate(cadence, interval, x)
           step == [x \in AnyDates \X (1..N) |-> next(x[1])]
           date == CHOOSE date : date = [n \in 1..N |-> next(IF n = 1 THEN from ELSE date[n - 1])]
<1>1. N \in Nat \ {0} /\ L \in Nat
  BY CalendarAssumption, LengthsAreNat
<1>2. \A x \in AnyDates : LaterBy(cadence, next(x), x, L)
  BY NextIsLater
<1>3. Dates(cadence, interval, from) = date
  BY Zenon DEF Dates
<1> HIDE DEF next, N, L
<1>4. step \in [AnyDates \X (1..N) -> AnyDates]
  <2>1. \A x \in AnyDates : next(x) \in AnyDates
    BY <1>2 DEF LaterBy, DaysAfter, MonthsAfter
  <2> QED
    BY <2>1
<1>5. PICK f \in [0..N -> AnyDates] : Unfolds(f, N, from, step)
  <2> HIDE DEF step
  <2> QED
    BY <1>1, <1>4, RecursionExists
<1>6. f[0] = from
  BY <1>5 DEF Unfolds
<1>7. ASSUME NEW n \in 1..N PROVE f[n] = next(f[n - 1])
  <2>1. n - 1 \in 0..N
    BY <1>1
  <2>2. f[n - 1] \in AnyDates
    BY <1>5, <2>1
  <2>3. step[<<f[n - 1], n>>] = next(f[n - 1])
    BY <2>2
  <2> HIDE DEF step
  <2> QED
    BY <1>5, <2>3 DEF Unfolds
<1> DEFINE g == [n \in 1..N |-> f[n]]
<1>8. g = [n \in 1..N |-> next(IF n = 1 THEN from ELSE g[n - 1])]
  <2>1. ASSUME NEW n \in 1..N PROVE g[n] = next(IF n = 1 THEN from ELSE g[n - 1])
    <3>1. CASE n = 1
      BY <1>6, <1>7, <3>1
    <3>2. CASE n # 1
      <4>1. n - 1 \in 1..N
        BY <1>1, <3>2
      <4> QED
        BY <1>7, <3>2, <4>1
    <3> QED
      BY <3>1, <3>2
  <2> QED
    BY <2>1
<1>9. date = [n \in 1..N |-> next(IF n = 1 THEN from ELSE date[n - 1])]
  <2>1. \E x : x = [n \in 1..N |-> next(IF n = 1 THEN from ELSE x[n - 1])]
    BY <1>8
  <2> QED
    BY <2>1
<1> HIDE DEF date
<1> DEFINE T == {0} \cup {n \in 1..N : LaterBy(cadence, date[n], from, n * L)}
<1>10. ASSUME NEW n \in 1..N, n - 1 \in T PROVE n \in T
  <2>1. date[n] = next(IF n = 1 THEN from ELSE date[n - 1])
    BY <1>9
  <2>2. CASE n = 1
    <3>1. LaterBy(cadence, date[n], from, L)
      BY <1>2, <2>1, <2>2
    <3>2. n * L = L
      BY <1>1, <2>2
    <3> QED
      BY <3>1, <3>2
  <2>3. CASE n # 1
    <3> DEFINE p == date[n - 1]
    <3>1. LaterBy(cadence, p, from, (n - 1) * L)
      BY <1>1, <1>10, <2>3
    <3> HIDE DEF p
    <3>2. date[n] = next(p)
      BY <2>1, <2>3 DEF p
    <3>3. p \in AnyDates
      BY <3>1 DEF LaterBy, DaysAfter, MonthsAfter
    <3>4. LaterBy(cadence, date[n], p, L)
      BY <1>2, <3>2, <3>3
    <3>5. (n - 1) * L + L = n * L /\ (n - 1) * L \in Int /\ L \in Int
      <4>1. n \in Int /\ L \in Int
        BY <1>1
      <4> QED
        BY <4>1
    <3>6. LaterBy(cadence, date[n], from, (n - 1) * L + L)
      BY <3>1, <3>4, <3>5, LaterAgain
    <3> QED
      BY <3>5, <3>6
  <2> QED
    BY <2>2, <2>3
<1> HIDE DEF T
<1>11. 0 \in T
  BY DEF T
<1>12. 0..N \subseteq T
  BY <1>1, <1>10, <1>11, UpTo
<1>13. \A n \in 1..N : n \in T /\ n # 0
  BY <1>12
<1> QED
  BY <1>3, <1>13 DEF T, N, L

\* The loop ends at the first date in the future, or after the last it may try.
LEMMA LoopsEnd ==
  ASSUME NEW dates, NEW today
  PROVE  /\ LoopsOf(dates, today) \in 1..GUARD + 1
         /\ Before(today, dates[LoopsOf(dates, today)]) \/ LoopsOf(dates, today) = GUARD + 1
         /\ \A k \in 1..LoopsOf(dates, today) - 1 : ~Before(today, dates[k])
<1> DEFINE F == {n \in 1..GUARD + 1 : Future(dates[n], today)}
<1>0. GUARD \in Nat
  BY CalendarAssumption
<1>1. CASE F = {}
  <2>1. LoopsOf(dates, today) = GUARD + 1 /\ \A k \in 1..GUARD + 1 : ~Before(today, dates[k])
    BY <1>1 DEF LoopsOf, Future
  <2>2. \A k \in 1..(GUARD + 1) - 1 : k \in 1..GUARD + 1
    BY <1>0
  <2> QED
    BY <1>0, <2>1, <2>2
<1>2. CASE F # {}
  <2>1. F \subseteq Nat
    BY <1>0
  <2>2. PICK n \in F : \A k \in F : n <= k
    BY <1>2, <2>1, LeastExists
  <2>3. \A k \in 1..n - 1 : ~Future(dates[k], today)
    <3> SUFFICES ASSUME NEW k \in 1..n - 1, Future(dates[k], today) PROVE FALSE
      OBVIOUS
    <3>1. k \in F /\ ~(n <= k)
      BY <1>0
    <3> QED
      BY <2>2, <3>1
  <2> DEFINE c == CHOOSE i \in 1..GUARD + 1 :
                    Future(dates[i], today) /\ \A k \in 1..i - 1 : ~Future(dates[k], today)
  <2>4. /\ c \in 1..GUARD + 1 /\ Future(dates[c], today)
        /\ \A k \in 1..c - 1 : ~Future(dates[k], today)
    BY <2>2, <2>3
  <2>5. LoopsOf(dates, today) = c
    BY <2>2 DEF LoopsOf
  <2> HIDE DEF c
  <2> QED
    BY <2>4, <2>5 DEF Future
<1> QED
  BY <1>1, <1>2

CalendarInv ==
  /\ plan \in [start : Starts, cadence : Cadences, interval : Intervals]
  /\ nextRun \in AnyDates
  /\ periods \in Nat

LEMMA CalendarInitInv == CalendarInit => CalendarInv
<1>1. Starts \subseteq AnyDates
  BY CalendarAssumption DEF AnyDates
<1> QED
  BY <1>1 DEF CalendarInit, CalendarInv

LEMMA SweepKeepsPeriods ==
  ASSUME CalendarInv, AdvancePastNow
  PROVE  CalendarInv' /\ KeptPeriods
<1> DEFINE dates == Dates(plan.cadence, plan.interval, nextRun)
<1>1. PICK today : /\ now' = today
                   /\ nextRun' = dates[LoopsOf(dates, today)]
                   /\ periods' = periods + LoopsOf(dates, today)
                   /\ plan' = plan
  BY DEF AdvancePastNow
<1> DEFINE loops == LoopsOf(dates, today)
           length == Length(plan.cadence, plan.interval)
<1>2. /\ loops \in 1..GUARD + 1 /\ (Before(today, dates[loops]) \/ loops = GUARD + 1)
      /\ \A k \in 1..loops - 1 : ~Before(today, dates[k])
  <2> HIDE DEF dates
  <2> QED
    BY LoopsEnd
<1>3. GUARD \in Nat /\ periods \in Nat
  BY CalendarAssumption DEF CalendarInv
<1>4. LaterBy(plan.cadence, dates[loops], nextRun, loops * length)
  <2>1. plan.cadence \in Cadence /\ plan.interval \in Int /\ nextRun \in AnyDates
    BY CalendarAssumption DEF CalendarInv
  <2> HIDE DEF loops
  <2> QED
    BY <1>2, <2>1, DatesAreLater
<1>5. nextRun' = dates[loops] /\ periods' = periods + loops /\ plan' = plan /\ now' = today
  BY <1>1
<1> HIDE DEF dates, loops
<1>6. periods' - periods = loops /\ loops \in Nat
  BY <1>2, <1>3, <1>5
<1>7. dates[loops] \in AnyDates /\ dates[loops].t = nextRun.t
  BY <1>4 DEF LaterBy, DaysAfter, MonthsAfter
<1>8. CalendarInv'
  BY <1>3, <1>5, <1>6, <1>7 DEF CalendarInv
<1>9. plan.cadence = "WEEKLY" =>
        CalendarDay(nextRun') = CalendarDay(nextRun) + (periods' - periods) * (7 * Step(plan.interval))
  BY <1>4, <1>5, <1>6 DEF LaterBy, DaysAfter, Weekly, Length
<1>10. plan.cadence # "WEEKLY" =>
         /\ MonthOf(nextRun') = MonthOf(nextRun)
                + (periods' - periods) * (Months(plan.cadence) * Step(plan.interval))
         /\ nextRun'.d <= nextRun.d
         /\ nextRun'.d >= 28 \/ nextRun'.d = nextRun.d
  BY <1>4, <1>5, <1>6 DEF LaterBy, MonthsAfter, Weekly, Length
<1>11. nextRun'.d <= lastDay(nextRun'.y, nextRun'.m)
  BY <1>5, <1>7, DateParts
<1>12. Before(now', nextRun') \/ periods' - periods = GUARD + 1
  <2>1. CASE Before(today, dates[loops])
    BY <1>5, <2>1
  <2>2. CASE loops = GUARD + 1
    BY <1>6, <2>2
  <2> QED
    BY <1>2, <2>1, <2>2
<1>13. \A k \in 1..(periods' - periods) - 1 :
         ~Before(now', Dates(plan.cadence, plan.interval, nextRun)[k])
  BY <1>2, <1>5, <1>6 DEF dates
<1> QED
  BY <1>5, <1>7, <1>8, <1>9, <1>10, <1>11, <1>12, <1>13 DEF KeptPeriods

\* A sweep moves a schedule on by whole periods (nextRunDate and advancePastNow),
\* whatever its start, its interval and the instant of the sweep, and keeps its time
\* of day: by weeks so many days of the calendar, by months to the months it should
\* visit and never to a day after the one it had.  It ends at the first of these
\* dates that is later than the sweep, unless the guard stopped the loop before.
THEOREM PeriodsStay == CalculationsSpec => PeriodsAreKept
<1>1. CalculationsInit => CalendarInv
  BY CalendarInitInv DEF CalculationsInit
<1>2. CalendarInv /\ [CalculationsNext]_calculationVars
        => CalendarInv' /\ [KeptPeriods]_calendarVars
  <2> SUFFICES ASSUME CalendarInv, [CalculationsNext]_calculationVars
               PROVE  CalendarInv' /\ [KeptPeriods]_calendarVars
    OBVIOUS
  <2>1. AdvancePastNow \/ UNCHANGED calendarVars
    BY DEF CalculationsNext, Only, calculationVars
  <2>2. CASE AdvancePastNow
    BY <2>2, SweepKeepsPeriods
  <2>3. CASE UNCHANGED calendarVars
    BY <2>3 DEF CalendarInv, calendarVars
  <2> QED
    BY <2>1, <2>2, <2>3
<1> QED
  BY <1>1, <1>2, PTL DEF CalculationsSpec, PeriodsAreKept

-----------------------------------------------------------------------------
(***************************************************************************)
(* Sums over finite sets.                                                  *)
(***************************************************************************)

LEMMA SubsetsUpTo ==
  ASSUME NEW S, IsFiniteSet(S), NEW Good,
         \A T \in SUBSET S : (\A t \in T : T \ {t} \in Good) => T \in Good
  PROVE  SUBSET S \subseteq Good
<1> DEFINE Sizes == {n \in 0..Cardinality(S) : \A T \in SUBSET S : Cardinality(T) = n => T \in Good}
<1>1. Cardinality(S) \in Nat
  BY FS_CardinalityType
<1>2. ASSUME NEW T \in SUBSET S
      PROVE  IsFiniteSet(T) /\ Cardinality(T) \in 0..Cardinality(S)
  <2>1. IsFiniteSet(T) /\ Cardinality(T) <= Cardinality(S)
    BY FS_Subset
  <2>2. Cardinality(T) \in Nat
    BY <2>1, FS_CardinalityType
  <2> QED
    BY <1>1, <2>1, <2>2
<1>3. 0 \in Sizes
  <2>1. \A T \in SUBSET S : Cardinality(T) = 0 => T = {}
    BY <1>2, FS_EmptySet
  <2>2. {} \in Good
    OBVIOUS
  <2> QED
    BY <1>1, <2>1, <2>2
<1>4. ASSUME NEW n \in 1..Cardinality(S), n - 1 \in Sizes
      PROVE  n \in Sizes
  <2>1. ASSUME NEW T \in SUBSET S, Cardinality(T) = n, NEW t \in T
        PROVE  T \ {t} \in Good
    <3>1. Cardinality(T \ {t}) = n - 1
      BY <1>2, <2>1, FS_RemoveElement
    <3> QED
      BY <1>4, <3>1
  <2>2. \A T \in SUBSET S : Cardinality(T) = n => T \in Good
    BY <2>1
  <2> QED
    BY <1>1, <2>2
<1> HIDE DEF Sizes
<1>5. 0..Cardinality(S) \subseteq Sizes
  BY <1>1, <1>3, <1>4, UpTo
<1>6. ASSUME NEW T \in SUBSET S PROVE T \in Good
  <2>1. Cardinality(T) \in Sizes
    BY <1>2, <1>5
  <2> QED
    BY <2>1 DEF Sizes
<1> QED
  BY <1>6

NumbersOn(S, of) == \A t \in S : of[t] \in Int

AnyOf(T) == CHOOSE t \in T : TRUE
Summed(f, of, T) == IF T = {} THEN 0 ELSE of[AnyOf(T)] + f[T \ {AnyOf(T)}]

LEMMA AnyOfIsIn ==
  ASSUME NEW T, T # {}
  PROVE  AnyOf(T) \in T
BY DEF AnyOf

SumsUp(f, of, D) == f \in [D -> Int] /\ \A T \in D : f[T] = Summed(f, of, T)

LEMMA SumExists ==
  ASSUME NEW S, IsFiniteSet(S), NEW of, NumbersOn(S, of)
  PROVE  \E f : SumsUp(f, of, SUBSET S)
<1> DEFINE Small(n) == {T \in SUBSET S : Cardinality(T) <= n}
           Sizes == {n \in 0..Cardinality(S) :
                       \E f \in [Small(n) -> Int] : \A T \in Small(n) : f[T] = Summed(f, of, T)}
<1>1. Cardinality(S) \in Nat
  BY FS_CardinalityType
<1>2. ASSUME NEW T \in SUBSET S
      PROVE  IsFiniteSet(T) /\ Cardinality(T) \in Nat /\ Cardinality(T) <= Cardinality(S)
  <2>1. IsFiniteSet(T) /\ Cardinality(T) <= Cardinality(S)
    BY FS_Subset
  <2> QED
    BY <2>1, FS_CardinalityType
<1>3. 0 \in Sizes
  <2>1. \A T \in Small(0) : T = {}
    BY <1>2, FS_EmptySet
  <2> DEFINE zero == [T \in Small(0) |-> 0]
  <2>2. zero \in [Small(0) -> Int] /\ \A T \in Small(0) : zero[T] = 0
    OBVIOUS
  <2>3. \A T \in Small(0) : zero[T] = Summed(zero, of, T)
    <3> HIDE DEF Small, zero
    <3> QED
      BY <2>1, <2>2 DEF Summed
  <2>4. \E f \in [Small(0) -> Int] : \A T \in Small(0) : f[T] = Summed(f, of, T)
    <3> HIDE DEF Small, zero
    <3> QED
      BY <2>2, <2>3
  <2>5. 0 \in 0..Cardinality(S)
    BY <1>1
  <2> HIDE DEF Small
  <2> QED
    BY <2>4, <2>5
<1>4. ASSUME NEW n \in 1..Cardinality(S), n - 1 \in Sizes
      PROVE  n \in Sizes
  <2>1. PICK f \in [Small(n - 1) -> Int] : \A T \in Small(n - 1) : f[T] = Summed(f, of, T)
    BY <1>4
  <2> DEFINE g == [T \in Small(n) |-> Summed(f, of, T)]
  <2>2. ASSUME NEW T \in Small(n), T # {}
        PROVE  AnyOf(T) \in S /\ T \ {AnyOf(T)} \in Small(n - 1)
    <3>1. AnyOf(T) \in T
      BY <2>2, AnyOfIsIn
    <3>2. Cardinality(T \ {AnyOf(T)}) = Cardinality(T) - 1
      BY <1>2, <3>1, FS_RemoveElement
    <3>3. Cardinality(T) <= n /\ Cardinality(T) \in Nat
      BY <1>2
    <3> QED
      BY <3>1, <3>2, <3>3
  <2>3. \A T \in Small(n - 1) : T \in Small(n)
    BY <1>2
  <2> HIDE DEF Small
  <2>4. ASSUME NEW T \in Small(n) PROVE Summed(f, of, T) \in Int
    <3>1. CASE T = {}
      BY <3>1 DEF Summed
    <3>2. CASE T # {}
      <4>1. of[AnyOf(T)] \in Int /\ f[T \ {AnyOf(T)}] \in Int
        BY <2>1, <2>2, <3>2 DEF NumbersOn
      <4> QED
        BY <3>2, <4>1 DEF Summed
    <3> QED
      BY <3>1, <3>2
  <2>5. g \in [Small(n) -> Int]
    BY <2>4
  <2>6. \A T \in Small(n - 1) : g[T] = f[T]
    BY <2>1, <2>3
  <2>7. ASSUME NEW T \in Small(n) PROVE g[T] = Summed(g, of, T)
    <3>1. g[T] = Summed(f, of, T)
      OBVIOUS
    <3> HIDE DEF g
    <3>2. CASE T = {}
      BY <3>1, <3>2 DEF Summed
    <3>3. CASE T # {}
      <4>1. g[T \ {AnyOf(T)}] = f[T \ {AnyOf(T)}]
        BY <2>2, <2>6, <3>3
      <4> QED
        BY <3>1, <3>3, <4>1 DEF Summed
    <3> QED
      BY <3>2, <3>3
  <2> HIDE DEF g
  <2> QED
    BY <2>5, <2>7
<1>5. 0..Cardinality(S) \subseteq Sizes
  <2> HIDE DEF Sizes
  <2> QED
    BY <1>1, <1>3, <1>4, UpTo
<1>6. Cardinality(S) \in Sizes
  <2> HIDE DEF Sizes
  <2> QED
    BY <1>1, <1>5
<1>7. Small(Cardinality(S)) = SUBSET S
  BY <1>2
<1> HIDE DEF Small
<1> QED
  BY <1>6, <1>7 DEF SumsUp

\* sum is the sum of of over every subset of S.
Additive(sum, S, of) ==
  /\ sum \in [SUBSET S -> Int] /\ sum[{}] = 0
  /\ \A T \in SUBSET S : \A t \in T : sum[T] = of[t] + sum[T \ {t}]

LEMMA TotalSums ==
  ASSUME NEW S, IsFiniteSet(S), NEW of, NumbersOn(S, of)
  PROVE  \E sum : Additive(sum, S, of) /\ Total(S, of) = sum[S]
<1> DEFINE sum == CHOOSE sum : sum = [T \in SUBSET S |->
                     IF T = {} THEN 0 ELSE LET t == CHOOSE t \in T : TRUE IN of[t] + sum[T \ {t}]]
<1>0. sum = [T \in SUBSET S |-> Summed(sum, of, T)]
  <2>1. \E f : SumsUp(f, of, SUBSET S)
    <3> HIDE DEF sum
    <3> QED
      BY SumExists
  <2>2. PICK f \in [SUBSET S -> Int] : \A T \in SUBSET S : f[T] = Summed(f, of, T)
    BY <2>1 DEF SumsUp
  <2>3. f = [T \in SUBSET S |-> Summed(f, of, T)]
    <3> HIDE DEF sum
    <3> QED
      BY <2>2
  <2>4. \E g : g = [T \in SUBSET S |->
                      IF T = {} THEN 0 ELSE LET t == CHOOSE t \in T : TRUE IN of[t] + g[T \ {t}]]
    BY <2>3, Zenon DEF Summed, AnyOf
  <2>5. sum = [T \in SUBSET S |->
                 IF T = {} THEN 0 ELSE LET t == CHOOSE t \in T : TRUE IN of[t] + sum[T \ {t}]]
    BY <2>4, Zenon
  <2> HIDE DEF sum
  <2> QED
    BY <2>5, Zenon DEF Summed, AnyOf
<1>2. Total(S, of) = sum[S]
  BY Zenon DEF Total
<1> HIDE DEF sum
<1>1. \A T \in SUBSET S : sum[T] = Summed(sum, of, T)
  BY <1>0, Zenon
<1>3. sum[{}] = 0
  BY <1>1 DEF Summed
<1>4. \A T \in SUBSET S : T # {} => \E t \in T : sum[T] = of[t] + sum[T \ {t}]
  BY <1>1, AnyOfIsIn DEF Summed
<1> DEFINE Whole == {T \in SUBSET S : sum[T] \in Int}
<1>5. SUBSET S \subseteq Whole
  <2>1. ASSUME NEW T \in SUBSET S, \A t \in T : T \ {t} \in Whole
        PROVE  T \in Whole
    <3>1. CASE T = {}
      BY <1>3, <3>1
    <3>2. CASE T # {}
      <4>1. PICK t \in T : sum[T] = of[t] + sum[T \ {t}]
        BY <1>4, <3>2
      <4>2. of[t] \in Int /\ sum[T \ {t}] \in Int
        BY <2>1 DEF NumbersOn
      <4> QED
        BY <4>1, <4>2
    <3> QED
      BY <3>1, <3>2
  <2> HIDE DEF Whole
  <2> QED
    BY <2>1, SubsetsUpTo
<1> DEFINE Good == {T \in SUBSET S : \A t \in T : sum[T] = of[t] + sum[T \ {t}]}
<1>6. ASSUME NEW T \in SUBSET S, \A t \in T : T \ {t} \in Good
      PROVE  T \in Good
  <2>1. ASSUME NEW t \in T PROVE sum[T] = of[t] + sum[T \ {t}]
    <3>1. PICK u \in T : sum[T] = of[u] + sum[T \ {u}]
      BY <1>4
    <3>2. CASE u # t
      <4>1. sum[T \ {u}] = of[t] + sum[(T \ {u}) \ {t}]
        BY <1>6, <3>2
      <4>2. sum[T \ {t}] = of[u] + sum[(T \ {t}) \ {u}]
        BY <1>6, <3>2
      <4>3. (T \ {u}) \ {t} = (T \ {t}) \ {u} /\ (T \ {u}) \ {t} \in SUBSET S
        OBVIOUS
      <4>4. sum[(T \ {u}) \ {t}] \in Int /\ of[t] \in Int /\ of[u] \in Int
        BY <1>5, <4>3 DEF NumbersOn
      <4>5. \A a, b, c \in Int : a + (b + c) = b + (a + c)
        OBVIOUS
      <4>6. sum[T] = of[u] + (of[t] + sum[(T \ {u}) \ {t}])
        BY <3>1, <4>1
      <4>7. sum[T \ {t}] = of[u] + sum[(T \ {u}) \ {t}]
        BY <4>2, <4>3
      <4> QED
        BY <4>4, <4>5, <4>6, <4>7
    <3> QED
      BY <3>1, <3>2
  <2> QED
    BY <2>1
<1>7. SUBSET S \subseteq Good
  <2> HIDE DEF Good
  <2> QED
    BY <1>6, SubsetsUpTo
<1>8. sum \in [SUBSET S -> Int]
  BY <1>0, <1>5
<1>9. Additive(sum, S, of)
  BY <1>3, <1>7, <1>8 DEF Additive
<1> QED
  BY <1>2, <1>9

LEMMA SumsAgree ==
  ASSUME NEW S, IsFiniteSet(S), NEW of, NEW T \in SUBSET S,
         NEW sum, Additive(sum, S, of), NumbersOn(S, of)
  PROVE  Total(T, of) = sum[T]
<1>1. IsFiniteSet(T) /\ NumbersOn(T, of)
  BY FS_Subset DEF NumbersOn
<1>2. PICK part : Additive(part, T, of) /\ Total(T, of) = part[T]
  BY <1>1, TotalSums
<1> DEFINE Good == {U \in SUBSET T : part[U] = sum[U]}
<1>3. ASSUME NEW U \in SUBSET T, \A u \in U : U \ {u} \in Good
      PROVE  U \in Good
  <2>1. CASE U = {}
    BY <1>2, <2>1 DEF Additive
  <2>2. CASE U # {}
    <3>1. PICK u \in U : TRUE
      BY <2>2
    <3>2. part[U] = of[u] + part[U \ {u}] /\ sum[U] = of[u] + sum[U \ {u}]
      BY <1>2 DEF Additive
    <3>3. part[U \ {u}] = sum[U \ {u}]
      BY <1>3
    <3> QED
      BY <3>2, <3>3
  <2> QED
    BY <2>1, <2>2
<1>4. SUBSET T \subseteq Good
  <2> HIDE DEF Good
  <2> QED
    BY <1>1, <1>3, SubsetsUpTo
<1> QED
  BY <1>2, <1>4

LEMMA SumOfDisjoint ==
  ASSUME NEW S, IsFiniteSet(S), NEW of, NumbersOn(S, of), NEW sum, Additive(sum, S, of),
         NEW A \in SUBSET S, NEW B \in SUBSET S, A \cap B = {}
  PROVE  sum[A \cup B] = sum[A] + sum[B]
<1> DEFINE Good == {T \in SUBSET B : sum[A \cup T] = sum[A] + sum[T]}
<1>1. IsFiniteSet(B)
  BY FS_Subset
<1>2. ASSUME NEW T \in SUBSET B, \A t \in T : T \ {t} \in Good
      PROVE  T \in Good
  <2>0. sum[A] \in Int /\ sum[T] \in Int
    BY DEF Additive
  <2>1. CASE T = {}
    <3>1. A \cup T = A /\ sum[T] = 0
      BY <2>1 DEF Additive
    <3>2. sum[A \cup T] = sum[A] + sum[T]
      BY <2>0, <3>1
    <3> QED
      BY <3>2
  <2>2. CASE T # {}
    <3>1. PICK t \in T : TRUE
      BY <2>2
    <3>2. sum[T] = of[t] + sum[T \ {t}]
      BY DEF Additive
    <3>3. (A \cup T) \ {t} = A \cup (T \ {t}) /\ t \in A \cup T /\ A \cup T \in SUBSET S
      OBVIOUS
    <3>4. sum[A \cup T] = of[t] + sum[A \cup (T \ {t})]
      BY <3>3 DEF Additive
    <3>5. sum[A \cup (T \ {t})] = sum[A] + sum[T \ {t}]
      BY <1>2
    <3>6. of[t] \in Int /\ sum[T \ {t}] \in Int
      BY DEF Additive, NumbersOn
    <3>7. \A a, b, c \in Int : a + (b + c) = b + (a + c)
      OBVIOUS
    <3> QED
      BY <2>0, <3>2, <3>4, <3>5, <3>6, <3>7
  <2> QED
    BY <2>1, <2>2
<1>3. SUBSET B \subseteq Good
  <2> HIDE DEF Good
  <2> QED
    BY <1>1, <1>2, SubsetsUpTo
<1> QED
  BY <1>3

LEMMA TotalIsBounded ==
  ASSUME NEW S, IsFiniteSet(S), NEW of, NumbersOn(S, of), NEW c \in Int
  PROVE  /\ Total(S, of) \in Int
         /\ (\A t \in S : of[t] >= c) => Total(S, of) >= c * Cardinality(S)
         /\ (\A t \in S : of[t] <= c) => Total(S, of) <= c * Cardinality(S)
<1>1. PICK sum : Additive(sum, S, of) /\ Total(S, of) = sum[S]
  BY TotalSums
<1> DEFINE Least == {T \in SUBSET S : (\A t \in S : of[t] >= c) => sum[T] >= c * Cardinality(T)}
           Most == {T \in SUBSET S : (\A t \in S : of[t] <= c) => sum[T] <= c * Cardinality(T)}
<1>2. ASSUME NEW T \in SUBSET S
      PROVE  /\ T = {} => sum[T] = 0 /\ c * Cardinality(T) = 0
             /\ \A t \in T : /\ of[t] \in Int /\ sum[T \ {t}] \in Int /\ sum[T] = of[t] + sum[T \ {t}]
                             /\ Cardinality(T \ {t}) \in Int
                             /\ c * Cardinality(T) = c + c * Cardinality(T \ {t})
                             /\ c * Cardinality(T \ {t}) \in Int
  <2>1. IsFiniteSet(T) /\ Cardinality(T) \in Nat
    BY FS_Subset, FS_CardinalityType
  <2>2. ASSUME NEW t \in T
        PROVE  /\ Cardinality(T \ {t}) \in Int /\ c * Cardinality(T) = c + c * Cardinality(T \ {t})
               /\ c * Cardinality(T \ {t}) \in Int
    <3>1. Cardinality(T \ {t}) = Cardinality(T) - 1
      BY <2>1, FS_RemoveElement
    <3>2. \A n \in Int : c * n = c + c * (n - 1) /\ c * (n - 1) \in Int
      OBVIOUS
    <3> QED
      BY <2>1, <3>1, <3>2
  <2>3. T = {} => sum[T] = 0 /\ c * Cardinality(T) = 0
    BY <1>1, FS_EmptySet DEF Additive
  <2>4. \A t \in T : of[t] \in Int /\ sum[T \ {t}] \in Int /\ sum[T] = of[t] + sum[T \ {t}]
    BY <1>1 DEF Additive, NumbersOn
  <2> QED
    BY <2>2, <2>3, <2>4
<1>3. SUBSET S \subseteq Least
  <2>1. ASSUME NEW T \in SUBSET S, \A t \in T : T \ {t} \in Least, \A t \in S : of[t] >= c
        PROVE  sum[T] >= c * Cardinality(T)
    <3>1. CASE T = {}
      BY <1>2, <3>1
    <3>2. CASE T # {}
      <4>1. PICK t \in T : TRUE
        BY <3>2
      <4>2. sum[T \ {t}] >= c * Cardinality(T \ {t}) /\ of[t] >= c
        BY <2>1
      <4> QED
        BY <1>2, <4>2
    <3> QED
      BY <3>1, <3>2
  <2>2. \A T \in SUBSET S : (\A t \in T : T \ {t} \in Least) => T \in Least
    BY <2>1
  <2> HIDE DEF Least
  <2> QED
    BY <2>2, SubsetsUpTo
<1>4. SUBSET S \subseteq Most
  <2>1. ASSUME NEW T \in SUBSET S, \A t \in T : T \ {t} \in Most, \A t \in S : of[t] <= c
        PROVE  sum[T] <= c * Cardinality(T)
    <3>1. CASE T = {}
      BY <1>2, <3>1
    <3>2. CASE T # {}
      <4>1. PICK t \in T : TRUE
        BY <3>2
      <4>2. sum[T \ {t}] <= c * Cardinality(T \ {t}) /\ of[t] <= c
        BY <2>1
      <4> QED
        BY <1>2, <4>2
    <3> QED
      BY <3>1, <3>2
  <2>2. \A T \in SUBSET S : (\A t \in T : T \ {t} \in Most) => T \in Most
    BY <2>1
  <2> HIDE DEF Most
  <2> QED
    BY <2>2, SubsetsUpTo
<1>5. S \in SUBSET S /\ S \in Least /\ S \in Most
  BY <1>3, <1>4
<1>6. sum[S] \in Int
  BY <1>1 DEF Additive
<1> QED
  BY <1>1, <1>5, <1>6

\* h is a times f and b times g.
Combines(S, h, a, f, b, g) == \A t \in S : h[t] = a * f[t] + b * g[t]

LEMMA TotalIsLinear ==
  ASSUME NEW S, IsFiniteSet(S), NEW h, NEW a \in Int, NEW f, NEW b \in Int, NEW g,
         NumbersOn(S, f), NumbersOn(S, g), Combines(S, h, a, f, b, g)
  PROVE  Total(S, h) = a * Total(S, f) + b * Total(S, g)
<1>1. NumbersOn(S, h)
  BY DEF NumbersOn, Combines
<1>2. PICK F : Additive(F, S, f) /\ Total(S, f) = F[S]
  BY TotalSums
<1>3. PICK G : Additive(G, S, g) /\ Total(S, g) = G[S]
  BY TotalSums
<1>4. PICK H : Additive(H, S, h) /\ Total(S, h) = H[S]
  BY <1>1, TotalSums
<1> DEFINE Good == {T \in SUBSET S : H[T] = a * F[T] + b * G[T]}
<1>5. ASSUME NEW T \in SUBSET S, \A t \in T : T \ {t} \in Good
      PROVE  T \in Good
  <2>1. CASE T = {}
    <3>1. F[T] = 0 /\ G[T] = 0 /\ H[T] = 0
      BY <1>2, <1>3, <1>4, <2>1 DEF Additive
    <3> QED
      BY <3>1
  <2>2. CASE T # {}
    <3>1. PICK t \in T : TRUE
      BY <2>2
    <3> DEFINE U == T \ {t}
    <3>2. F[T] = f[t] + F[U] /\ G[T] = g[t] + G[U] /\ H[T] = h[t] + H[U]
      BY <1>2, <1>3, <1>4 DEF Additive
    <3>3. F[U] \in Int /\ G[U] \in Int /\ f[t] \in Int /\ g[t] \in Int
      BY <1>2, <1>3 DEF Additive, NumbersOn
    <3>4. H[U] = a * F[U] + b * G[U] /\ h[t] = a * f[t] + b * g[t]
      BY <1>5 DEF Combines
    <3>5. \A i, j, k, l \in Int : (a * i + b * j) + (a * k + b * l) = a * (i + k) + b * (j + l)
      OBVIOUS
    <3> HIDE DEF U
    <3>6. H[T] = (a * f[t] + b * g[t]) + (a * F[U] + b * G[U])
      BY <3>2, <3>4
    <3>7. H[T] = a * (f[t] + F[U]) + b * (g[t] + G[U])
      BY <3>3, <3>5, <3>6
    <3> QED
      BY <3>2, <3>7
  <2> QED
    BY <2>1, <2>2
<1>6. SUBSET S \subseteq Good
  <2> HIDE DEF Good
  <2> QED
    BY <1>5, SubsetsUpTo
<1> QED
  BY <1>2, <1>3, <1>4, <1>6

LEMMA TotalIsPositive ==
  ASSUME NEW S, IsFiniteSet(S), NEW of, NumbersOn(S, of), \A t \in S : of[t] >= 0,
         NEW t \in S, of[t] >= 1
  PROVE  Total(S, of) >= 1
<1>1. PICK sum : Additive(sum, S, of) /\ Total(S, of) = sum[S]
  BY TotalSums
<1> DEFINE R == S \ {t}
<1>2. IsFiniteSet(R) /\ NumbersOn(R, of) /\ R \in SUBSET S
  BY FS_Subset DEF NumbersOn
<1>3. Total(R, of) = sum[R]
  BY <1>1, <1>2, SumsAgree
<1>4. sum[S] = of[t] + sum[R]
  BY <1>1 DEF Additive
<1>5. \A u \in R : of[u] >= 0
  OBVIOUS
<1>6. Total(R, of) \in Int /\ Total(R, of) >= 0 * Cardinality(R) /\ Cardinality(R) \in Nat
  <2> HIDE DEF R
  <2> QED
    BY <1>2, <1>5, TotalIsBounded, FS_CardinalityType
<1>7. 0 * Cardinality(R) = 0 /\ of[t] \in Int
  BY <1>6 DEF NumbersOn
<1> QED
  BY <1>1, <1>3, <1>4, <1>6, <1>7

-----------------------------------------------------------------------------
(* Days *)

PaidInvoice == [day : Created, cents : Amounts]
ForecastInv == rows \in Seq(PaidInvoice)

LEMMA PaidAreCounted ==
  ASSUME ForecastInv
  PROVE  /\ IsFiniteSet(Window)
         /\ \A n \in Window : rows[n].day \in 0..Days - 1 /\ rows[n].cents \in Nat
<1>1. \A n \in DOMAIN rows : rows[n] \in PaidInvoice
  BY DEF ForecastInv
<1>2. DOMAIN rows = 1..Len(rows) /\ Len(rows) \in Nat
  BY DEF ForecastInv
<1>3. \A p \in PaidInvoice : p.cents \in Nat
  BY ForecastAssumption DEF PaidInvoice
<1>4. IsFiniteSet(DOMAIN rows)
  BY <1>2, FS_Interval
<1>5. Window \subseteq DOMAIN rows
  BY DEF Window
<1>6. IsFiniteSet(Window)
  BY <1>4, <1>5, FS_Subset
<1> QED
  BY <1>1, <1>3, <1>5, <1>6 DEF Window

\* Every invoice of the window is counted on one day.
LEMMA DaysAddUp ==
  ASSUME ForecastInv
  PROVE  /\ bucketDailyRevenue \in [0..Days - 1 -> Nat]
         /\ Sum(bucketDailyRevenue) = Total(Window, [n \in Window |-> rows[n].cents])
<1> DEFINE cents == [n \in Window |-> rows[n].cents]
           Of(x) == {n \in Window : rows[n].day = x}
           points == bucketDailyRevenue
           Until(m) == {n \in Window : rows[n].day < m}
<1>0. Days \in Nat \ {0}
  BY ForecastAssumption
<1>1. IsFiniteSet(Window) /\ NumbersOn(Window, cents) /\ \A n \in Window : cents[n] >= 0
  BY PaidAreCounted DEF NumbersOn
<1>2. PICK sum : Additive(sum, Window, cents) /\ Total(Window, cents) = sum[Window]
  <2> HIDE DEF cents
  <2> QED
    BY <1>1, TotalSums
<1>3. DOMAIN points = 0..Days - 1 /\ \A x \in 0..Days - 1 : points[x] = Total(Of(x), cents)
  BY DEF bucketDailyRevenue
<1>4. ASSUME NEW x \in 0..Days - 1
      PROVE  points[x] = sum[Of(x)] /\ points[x] \in Nat
  <2>1. Of(x) \in SUBSET Window
    OBVIOUS
  <2>2. IsFiniteSet(Of(x)) /\ NumbersOn(Of(x), cents) /\ \A n \in Of(x) : cents[n] >= 0
    <3> HIDE DEF cents
    <3> QED
      BY <1>1, <2>1, FS_Subset DEF NumbersOn
  <2> HIDE DEF cents, Of, points
  <2>3. Total(Of(x), cents) = sum[Of(x)]
    BY <1>1, <1>2, <2>1, SumsAgree
  <2>4. Total(Of(x), cents) \in Int /\ Total(Of(x), cents) >= 0 * Cardinality(Of(x)) /\ Cardinality(Of(x)) \in Nat
    BY <2>2, TotalIsBounded, FS_CardinalityType
  <2>5. 0 * Cardinality(Of(x)) = 0
    BY <2>4
  <2> QED
    BY <1>3, <2>3, <2>4, <2>5
<1>5. points \in [0..Days - 1 -> Nat]
  <2>1. points = [x \in 0..Days - 1 |-> points[x]]
    BY <1>3 DEF bucketDailyRevenue
  <2> HIDE DEF points
  <2> QED
    BY <1>4, <2>1
<1>6. IsFiniteSet(0..Days - 1) /\ NumbersOn(0..Days - 1, points)
  <2>1. IsFiniteSet(0..Days - 1)
    BY <1>0, FS_Interval
  <2> HIDE DEF points, Of
  <2>2. \A x \in 0..Days - 1 : points[x] \in Int
    BY <1>4
  <2> QED
    BY <2>1, <2>2 DEF NumbersOn
<1>7. PICK all : Additive(all, 0..Days - 1, points) /\ Total(0..Days - 1, points) = all[0..Days - 1]
  <2> HIDE DEF points
  <2> QED
    BY <1>6, TotalSums
<1> DEFINE Same == {m \in 0..Days : all[0..m - 1] = sum[Until(m)]}
<1>8. 0 \in Same
  <2>1. 0..0 - 1 = {} /\ Until(0) = {}
    BY PaidAreCounted
  <2>2. all[{}] = 0 /\ sum[{}] = 0
    BY <1>2, <1>7 DEF Additive
  <2> QED
    BY <1>0, <2>1, <2>2
<1>9. ASSUME NEW m \in 1..Days, m - 1 \in Same
      PROVE  m \in Same
  <2> HIDE DEF points, cents
  <2>1. m - 1 \in 0..Days - 1 /\ m \in 0..Days /\ 0..m - 1 \in SUBSET (0..Days - 1) /\ m - 1 \in 0..m - 1
    BY <1>0
  <2>2. (0..m - 1) \ {m - 1} = 0..(m - 1) - 1
    BY <1>0
  <2>3. all[0..m - 1] = points[m - 1] + all[0..(m - 1) - 1]
    BY <1>7, <2>1, <2>2 DEF Additive
  <2>4. /\ Until(m) = Until(m - 1) \cup Of(m - 1) /\ Until(m - 1) \cap Of(m - 1) = {}
        /\ Until(m - 1) \in SUBSET Window /\ Of(m - 1) \in SUBSET Window
    BY PaidAreCounted
  <2>5. all[0..(m - 1) - 1] = sum[Until(m - 1)]
    BY <1>9
  <2>6. points[m - 1] = sum[Of(m - 1)]
    BY <1>4, <2>1
  <2> HIDE DEF Until, Of
  <2>7. sum[Until(m)] = sum[Until(m - 1)] + sum[Of(m - 1)]
    BY <1>1, <1>2, <2>4, SumOfDisjoint
  <2>8. sum[Until(m - 1)] \in Int /\ sum[Of(m - 1)] \in Int
    BY <1>2, <2>4 DEF Additive
  <2> QED
    BY <2>1, <2>3, <2>5, <2>6, <2>7, <2>8
<1>10. 0..Days \subseteq Same
  <2> HIDE DEF Same
  <2> QED
    BY <1>0, <1>8, <1>9, UpTo
<1>11. Until(Days) = Window
  BY <1>0, PaidAreCounted
<1>12. all[0..Days - 1] = sum[Window]
  <2>1. Days \in Same
    <3> HIDE DEF Same
    <3> QED
      BY <1>0, <1>10
  <2> HIDE DEF Until
  <2> QED
    BY <1>11, <2>1
<1>13. Sum(points) = Total(0..Days - 1, points)
  <2> HIDE DEF points
  <2> QED
    BY <1>3 DEF Sum
<1> QED
  BY <1>2, <1>5, <1>7, <1>12, <1>13

-----------------------------------------------------------------------------
(* Rounding and the average *)

LEMMA Quotient ==
  ASSUME NEW a \in Int, NEW d \in Nat \ {0}
  PROVE  /\ a \div d \in Int
         /\ d * (a \div d) <= a
         /\ a < d * ((a \div d) + 1)
OBVIOUS

LEMMA NearestIsBetween ==
  ASSUME NEW n \in Int, NEW unit \in Nat \ {0}, NEW c \in Int
  PROVE  /\ Nearest(n, unit) \in Int
         /\ n >= c * unit => Nearest(n, unit) >= c
         /\ n <= c * unit => Nearest(n, unit) <= c
<1> DEFINE d == 2 * unit
           q == (2 * n + unit) \div d
<1>1. d \in Nat \ {0} /\ 2 * n + unit \in Int
  OBVIOUS
<1>2. q \in Int /\ d * q <= 2 * n + unit /\ 2 * n + unit < d * (q + 1)
  <2> HIDE DEF d
  <2> QED
    BY <1>1, Quotient
<1>3. Nearest(n, unit) = q
  BY DEF Nearest
<1> HIDE DEF q
<1>4. ASSUME n >= c * unit PROVE q >= c
  <2> SUFFICES ASSUME q + 1 <= c PROVE FALSE
    BY <1>2
  <2>1. \A i, j \in Int : i <= j => unit * i <= unit * j
    OBVIOUS
  <2>2. unit * (q + 1) <= unit * c
    BY <1>2, <2>1
  <2>3. d * (q + 1) = 2 * (unit * (q + 1)) /\ unit * c = c * unit
    BY <1>2
  <2> QED
    BY <1>2, <1>4, <2>2, <2>3
<1>5. ASSUME n <= c * unit PROVE q <= c
  <2> SUFFICES ASSUME c + 1 <= q PROVE FALSE
    BY <1>2
  <2>1. \A i, j \in Int : i <= j => unit * i <= unit * j
    OBVIOUS
  <2>2. unit * (c + 1) <= unit * q
    BY <1>2, <2>1
  <2>3. d * q = 2 * (unit * q) /\ unit * (c + 1) = c * unit + unit
    BY <1>2
  <2> QED
    BY <1>2, <1>5, <2>2, <2>3
<1> QED
  BY <1>2, <1>3, <1>4, <1>5

\* The average of the days is between the least and the greatest of them.
LEMMA FlatIsBetween ==
  ASSUME NEW points \in [0..Days - 1 -> Nat]
  PROVE  /\ \E x \in 0..Days - 1 : points[x] <= Flat(points)
         /\ \E x \in 0..Days - 1 : points[x] >= Flat(points)
<1> DEFINE n == Nearest(Sum(points), Days)
<1>0. Days \in Nat \ {0}
  BY ForecastAssumption
<1>1. IsFiniteSet(0..Days - 1) /\ Cardinality(0..Days - 1) = Days /\ NumbersOn(0..Days - 1, points)
  BY <1>0, FS_Interval DEF NumbersOn
<1>2. Sum(points) = Total(0..Days - 1, points)
  BY DEF Sum
<1>3. ASSUME NEW c \in Int
      PROVE  /\ Sum(points) \in Int
             /\ (\A x \in 0..Days - 1 : points[x] >= c) => Sum(points) >= c * Days
             /\ (\A x \in 0..Days - 1 : points[x] <= c) => Sum(points) <= c * Days
  BY <1>1, <1>2, TotalIsBounded
<1>4. Sum(points) \in Int
  BY <1>3
<1>5. ASSUME NEW c \in Int
      PROVE  /\ n \in Int
             /\ (\A x \in 0..Days - 1 : points[x] >= c) => n >= c
             /\ (\A x \in 0..Days - 1 : points[x] <= c) => n <= c
  BY <1>0, <1>3, <1>4, NearestIsBetween
<1> HIDE DEF n
<1>6. n \in Int /\ n >= 0
  <2>1. \A x \in 0..Days - 1 : points[x] >= 0
    OBVIOUS
  <2> QED
    BY <1>5, <2>1
<1>7. Flat(points) = n
  BY <1>6 DEF Flat, Positive, n
<1>8. \E x \in 0..Days - 1 : points[x] <= n
  <2> SUFFICES ASSUME \A x \in 0..Days - 1 : ~(points[x] <= n) PROVE FALSE
    OBVIOUS
  <2>1. \A x \in 0..Days - 1 : points[x] >= n + 1
    BY <1>6
  <2>2. n >= n + 1
    BY <1>5, <1>6, <2>1
  <2> QED
    BY <1>6, <2>2
<1>9. \E x \in 0..Days - 1 : points[x] >= n
  <2> SUFFICES ASSUME \A x \in 0..Days - 1 : ~(points[x] >= n) PROVE FALSE
    OBVIOUS
  <2>1. \A x \in 0..Days - 1 : points[x] <= n - 1
    BY <1>6
  <2>2. n <= n - 1
    BY <1>5, <1>6, <2>1
  <2> QED
    BY <1>6, <2>2
<1> QED
  BY <1>7, <1>8, <1>9

-----------------------------------------------------------------------------
(* The line *)

Ones(S) == [x \in S |-> 1]
Numbers(S) == [x \in S |-> x]
Squares(S) == [x \in S |-> x * x]

LEMMA NumbersAreThere ==
  ASSUME NEW S, S \subseteq Int
  PROVE  NumbersOn(S, Ones(S)) /\ NumbersOn(S, Numbers(S)) /\ NumbersOn(S, Squares(S))
BY DEF NumbersOn, Ones, Numbers, Squares

LEMMA OnesAddUp ==
  ASSUME NEW S, IsFiniteSet(S), S \subseteq Int
  PROVE  Total(S, Ones(S)) = Cardinality(S)
<1>1. \A x \in S : Ones(S)[x] >= 1 /\ Ones(S)[x] <= 1
  BY DEF Ones
<1>2. Cardinality(S) \in Nat
  BY FS_CardinalityType
<1>3. /\ Total(S, Ones(S)) \in Int
      /\ Total(S, Ones(S)) >= 1 * Cardinality(S)
      /\ Total(S, Ones(S)) <= 1 * Cardinality(S)
  <2>0. NumbersOn(S, Ones(S))
    BY NumbersAreThere, Zenon
  <2>1. 1 \in Int
    OBVIOUS
  <2>2. /\ Total(S, Ones(S)) \in Int
        /\ (\A x \in S : Ones(S)[x] >= 1) => Total(S, Ones(S)) >= 1 * Cardinality(S)
        /\ (\A x \in S : Ones(S)[x] <= 1) => Total(S, Ones(S)) <= 1 * Cardinality(S)
    BY <2>0, <2>1, TotalIsBounded, Zenon
  <2> QED
    BY <1>1, <2>2
<1> QED
  BY <1>2, <1>3

LEMMA SquareOfDistance ==
  ASSUME NEW d \in Int, NEW s \in Int, NEW x \in Int
  PROVE  1 * ((d * d) * (x * x) + (-(2 * d * s)) * x) + (s * s) * 1 = (d * x - s) * (d * x - s)
OBVIOUS

LEMMA SumOfSquares ==
  ASSUME NEW d \in Int, NEW s \in Int, NEW t \in Int
  PROVE  1 * ((d * d) * t + (-(2 * d * s)) * s) + (s * s) * d = d * (d * t - s * s)
OBVIOUS

LEMMA SquareIsPositive ==
  ASSUME NEW n \in Int
  PROVE  n * n \in Int /\ n * n >= 0 /\ (n # 0 => n * n >= 1)
OBVIOUS

\* The denominator of the fit: Cardinality(S) times it is the sum of the squares
\* of the distances from the mean, Cardinality(S) times as long.
LEMMA DaysAreSpread ==
  ASSUME NEW S, IsFiniteSet(S), S \subseteq Int, 0 \in S, 1 \in S,
         NEW d, d = Cardinality(S), NEW s, s = Total(S, Numbers(S)), NEW t, t = Total(S, Squares(S))
  PROVE  s \in Int /\ t \in Int /\ d * t - s * s > 0
<1> DEFINE c == -(2 * d * s)
           far == [x \in S |-> (d * d) * Squares(S)[x] + c * Numbers(S)[x]]
           apart == [x \in S |-> 1 * far[x] + (s * s) * Ones(S)[x]]
<1>1. d \in Nat /\ s \in Int /\ t \in Int
  BY NumbersAreThere, FS_CardinalityType, TotalIsBounded
<1>2. c \in Int /\ d * d \in Int /\ s * s \in Int
  BY <1>1
<1>3. \A x \in S : x \in Int /\ Ones(S)[x] = 1 /\ Numbers(S)[x] = x /\ Squares(S)[x] = x * x
  BY DEF Ones, Numbers, Squares
<1>4. Combines(S, far, d * d, Squares(S), c, Numbers(S))
  <2> HIDE DEF c
  <2> QED
    BY DEF Combines
<1>5. Combines(S, apart, 1, far, s * s, Ones(S))
  <2> HIDE DEF far
  <2> QED
    BY DEF Combines
<1>6. \A x \in S : far[x] = (d * d) * (x * x) + c * x /\ apart[x] = 1 * far[x] + (s * s) * 1
  <2> HIDE DEF c
  <2> QED
    BY <1>3
<1> HIDE DEF far, apart
<1>7. NumbersOn(S, far)
  <2>1. ASSUME NEW x \in S PROVE far[x] \in Int
    <3>1. x \in Int /\ x * x \in Int
      BY <1>3
    <3> HIDE DEF c
    <3>2. (d * d) * (x * x) \in Int /\ c * x \in Int
      BY <1>2, <3>1
    <3> QED
      BY <1>6, <3>2
  <2> QED
    BY <2>1 DEF NumbersOn
<1>8. ASSUME NEW x \in S PROVE apart[x] = (d * x - s) * (d * x - s) /\ d * x - s \in Int
  <2>1. x \in Int
    BY <1>3
  <2>2. apart[x] = 1 * ((d * d) * (x * x) + (-(2 * d * s)) * x) + (s * s) * 1
    BY <1>6
  <2> QED
    BY <1>1, <2>1, <2>2, SquareOfDistance
<1>9. Total(S, far) = (d * d) * t + c * s
  <2> HIDE DEF c
  <2>1. NumbersOn(S, Squares(S)) /\ NumbersOn(S, Numbers(S))
    BY NumbersAreThere, Zenon
  <2> DEFINE dd == d * d
  <2>2. dd \in Int /\ c \in Int /\ Combines(S, far, dd, Squares(S), c, Numbers(S))
    BY <1>2, <1>4
  <2> HIDE DEF dd
  <2>3. Total(S, far) = dd * Total(S, Squares(S)) + c * Total(S, Numbers(S))
    BY <2>1, <2>2, TotalIsLinear
  <2> QED
    BY <2>3 DEF dd
<1>10. Total(S, apart) = 1 * Total(S, far) + (s * s) * d
  <2>1. 1 \in Int
    OBVIOUS
  <2>2. NumbersOn(S, Ones(S)) /\ Total(S, Ones(S)) = d
    BY NumbersAreThere, OnesAddUp
  <2> QED
    BY <1>2, <1>5, <1>7, <2>1, <2>2, TotalIsLinear
<1>11. Total(S, apart) >= 1
  <2>1. \A x \in S : apart[x] \in Int /\ apart[x] >= 0 /\ (d * x - s # 0 => apart[x] >= 1)
    BY <1>8, SquareIsPositive
  <2>2. NumbersOn(S, apart) /\ \A x \in S : apart[x] >= 0
    BY <2>1 DEF NumbersOn
  <2>3. d # 0
    BY FS_EmptySet
  <2>4. d * 0 - s # 0 \/ d * 1 - s # 0
    BY <1>1, <2>3
  <2>5. PICK x \in S : d * x - s # 0
    BY <2>4
  <2>6. apart[x] >= 1
    BY <2>1, <2>5
  <2> QED
    BY <2>2, <2>6, TotalIsPositive
<1>12. d * (d * t - s * s) >= 1
  <2>1. Total(S, apart) = 1 * ((d * d) * t + (-(2 * d * s)) * s) + (s * s) * d
    BY <1>9, <1>10
  <2> QED
    BY <1>1, <1>11, <2>1, SumOfSquares
<1>13. \A n \in Int : d * n >= 1 => n > 0
  BY <1>1
<1>14. d * t - s * s \in Int
  BY <1>1
<1> QED
  BY <1>1, <1>12, <1>13, <1>14

LEMMA FittedSlope ==
  ASSUME NEW a \in Int, NEW b \in Int, NEW d \in Int, NEW s \in Int, NEW t \in Int
  PROVE  d * (a * s + b * t) - s * (a * d + b * s) = b * (d * t - s * s)
OBVIOUS

LEMMA FittedIntercept ==
  ASSUME NEW a \in Int, NEW b \in Int, NEW d \in Int, NEW s \in Int, NEW u \in Int
  PROVE  (a * d + b * s) * u - (b * u) * s = (a * d) * u
OBVIOUS

LEMMA FittedLine ==
  ASSUME NEW a \in Int, NEW b \in Int, NEW d \in Int, NEW u \in Int, NEW x \in Int
  PROVE  (a * d) * u + (b * u) * d * x = (u * d) * (a + b * x)
OBVIOUS

\* The trend of days that lie on a line is that line.
LEMMA LineIsFitted ==
  ASSUME NEW points \in [0..Days - 1 -> Int], OnALine(points), NEW trend, trend = fitLinearTrend(points)
  PROVE  /\ UnitOf(trend) \in Nat \ {0}
         /\ \A x \in Int : OnTrend(trend, x) = UnitOf(trend) * LineAt(points, x)
<1> DEFINE S == 0..Days - 1
           a == points[0]
           b == points[1] - points[0]
           s == Total(S, Numbers(S))
           t == Total(S, Squares(S))
           weighted == [x \in S |-> x * points[x]]
           u == Days * t - s * s
<1>0. Days \in Nat \ {0} /\ Days > 1
  BY ForecastAssumption DEF OnALine
<1>1. 0 \in S /\ 1 \in S /\ S \subseteq Int /\ IsFiniteSet(S) /\ Cardinality(S) = Days
  BY <1>0, FS_Interval
<1>2. DOMAIN points = S
  OBVIOUS
<1>3. a \in Int /\ b \in Int
  BY <1>1
<1>4. \A x \in S : points[x] = a + b * x
  BY <1>2 DEF OnALine, LineAt
<1>5. trend = IF u = 0 THEN [unit |-> 1, slope |-> 0, intercept |-> Sum(points)]
              ELSE LET slope == Days * Total(S, weighted) - s * Sum(points)
                   IN [unit |-> u, slope |-> slope, intercept |-> Sum(points) * u - slope * s]
  BY <1>2 DEF fitLinearTrend, Numbers, Squares
<1>6. \A x \in S : weighted[x] = x * points[x]
  OBVIOUS
<1> HIDE DEF S, a, b, weighted
<1>7. s \in Int /\ t \in Int /\ u > 0
  BY <1>1, DaysAreSpread
<1>8. NumbersOn(S, Ones(S)) /\ NumbersOn(S, Numbers(S)) /\ NumbersOn(S, Squares(S))
  BY <1>1, NumbersAreThere, Zenon
<1>9. Sum(points) = a * Days + b * s
  <2>1. Combines(S, points, a, Ones(S), b, Numbers(S))
    <3>1. \A x \in S : Ones(S)[x] = 1 /\ Numbers(S)[x] = x
      BY DEF Ones, Numbers
    <3>2. \A x \in S : points[x] = a * Ones(S)[x] + b * Numbers(S)[x]
      BY <1>3, <1>4, <3>1
    <3> QED
      BY <3>2 DEF Combines
  <2>2. Total(S, points) = a * Total(S, Ones(S)) + b * s
    <3> HIDE DEF s
    <3>1. s = Total(S, Numbers(S))
      BY DEF s
    <3> QED
      BY <1>1, <1>3, <1>8, <2>1, <3>1, TotalIsLinear
  <2>3. Total(S, Ones(S)) = Days
    BY <1>1, OnesAddUp
  <2> QED
    BY <1>2, <2>2, <2>3 DEF Sum
<1>10. Total(S, weighted) = a * s + b * t
  <2>1. Combines(S, weighted, a, Numbers(S), b, Squares(S))
    <3>1. \A x \in S : Squares(S)[x] = x * x /\ Numbers(S)[x] = x /\ x \in Int
      BY <1>1 DEF Squares, Numbers
    <3>2. \A x, i, j \in Int : x * (i + j * x) = i * x + j * (x * x)
      OBVIOUS
    <3>3. \A x \in S : weighted[x] = a * Numbers(S)[x] + b * Squares(S)[x]
      BY <1>3, <1>4, <1>6, <3>1, <3>2
    <3> QED
      BY <3>3 DEF Combines
  <2> QED
    BY <1>1, <1>3, <1>8, <2>1, TotalIsLinear
<1> HIDE DEF s, t
<1>11. u \in Int /\ u # 0
  BY <1>0, <1>7
<1>12. Days * Total(S, weighted) - s * Sum(points) = b * u
  BY <1>0, <1>3, <1>7, <1>9, <1>10, FittedSlope
<1>13. Sum(points) * u - (b * u) * s = (a * Days) * u
  <2> HIDE DEF u
  <2> QED
    BY <1>0, <1>3, <1>7, <1>9, <1>11, FittedIntercept
<1> HIDE DEF u
<1>14. trend = [unit |-> u, slope |-> b * u, intercept |-> (a * Days) * u]
  BY <1>5, <1>11, <1>12, <1>13
<1>15. trend.unit = u /\ trend.slope = b * u /\ trend.intercept = (a * Days) * u
  BY <1>14
<1>16. UnitOf(trend) = u * Days /\ u * Days \in Nat \ {0}
  <2>1. u \in Nat \ {0}
    BY <1>7, <1>11
  <2>2. \A i, j \in Nat \ {0} : i * j \in Nat \ {0}
    OBVIOUS
  <2> QED
    BY <1>0, <1>15, <2>1, <2>2 DEF UnitOf
<1>17. ASSUME NEW x \in Int PROVE OnTrend(trend, x) = (u * Days) * LineAt(points, x)
  <2>1. OnTrend(trend, x) = (a * Days) * u + (b * u) * Days * x
    BY <1>15 DEF OnTrend
  <2>2. LineAt(points, x) = a + b * x
    BY DEF LineAt, a, b
  <2> QED
    BY <1>0, <1>3, <1>11, <2>1, <2>2, FittedLine
<1> QED
  BY <1>16, <1>17

\* Nothing is left for the weekdays, and a line goes on.
LEMMA LineGoesOn ==
  ASSUME NEW points \in [0..Days - 1 -> Int], OnALine(points), NEW i \in Nat
  PROVE  Predicted(points, i) = LineAt(points, Days + i)
<1> DEFINE trend == fitLinearTrend(points)
           x == Days + i
           unit == UnitOf(trend)
           weekday == SameWeekday(x)
           left == [d \in weekday |-> points[d] * UnitOf(trend) - OnTrend(trend, d)]
           n == Cardinality(weekday)
           value == LineAt(points, x)
<1>0. Days \in Nat /\ x \in Int /\ Days > 1
  BY ForecastAssumption DEF OnALine
<1>1. weekday \subseteq 0..Days - 1
  BY DEF SameWeekday
<1>2. IsFiniteSet(weekday) /\ n \in Nat
  <2>1. IsFiniteSet(0..Days - 1)
    BY <1>0, FS_Interval
  <2> QED
    BY <1>1, <2>1, FS_Subset, FS_CardinalityType
<1>3. unit \in Nat \ {0} /\ \A y \in Int : OnTrend(trend, y) = unit * LineAt(points, y)
  <2> HIDE DEF trend
  <2>1. trend = fitLinearTrend(points)
    BY DEF trend
  <2> QED
    BY <2>1, LineIsFitted
<1>4. \A y \in Int : LineAt(points, y) \in Int
  <2>1. points[0] \in Int /\ points[1] \in Int
    BY <1>0
  <2>2. \A y, a, b \in Int : a + (b - a) * y \in Int
    OBVIOUS
  <2> QED
    BY <2>1, <2>2 DEF LineAt
<1>5. ASSUME NEW d \in weekday PROVE left[d] = 0
  <2>1. d \in Int /\ d \in DOMAIN points
    BY <1>0, <1>1
  <2>2. points[d] = LineAt(points, d) /\ OnTrend(trend, d) = unit * LineAt(points, d)
    BY <1>3, <2>1 DEF OnALine
  <2>3. left[d] = points[d] * unit - OnTrend(trend, d)
    OBVIOUS
  <2> HIDE DEF unit, trend, left
  <2>4. \A k, l \in Int : k * l - l * k = 0
    OBVIOUS
  <2> QED
    BY <1>3, <1>4, <2>1, <2>2, <2>3, <2>4
<1>6. weekdaySeasonality(points, trend, x) = Total(weekday, left)
  BY DEF weekdaySeasonality
<1> HIDE DEF trend, unit, weekday, left, value
<1>7. Total(weekday, left) = 0
  <2>1. NumbersOn(weekday, left) /\ (\A d \in weekday : left[d] >= 0) /\ (\A d \in weekday : left[d] <= 0)
    BY <1>5 DEF NumbersOn
  <2>2. 0 \in Int
    OBVIOUS
  <2>3. /\ Total(weekday, left) \in Int
        /\ Total(weekday, left) >= 0 * n /\ Total(weekday, left) <= 0 * n
    BY <1>2, <2>1, <2>2, TotalIsBounded
  <2> QED
    BY <1>2, <2>3
<1>8. OnTrend(trend, x) = unit * value /\ value \in Int
  BY <1>0, <1>3, <1>4 DEF value
<1>9. Predicted(points, i) = IF n = 0 THEN Nearest(unit * value, unit)
                             ELSE Nearest(n * (unit * value) + 0, n * unit)
  BY <1>6, <1>7, <1>8 DEF Predicted, DayOf, trend, unit, weekday
<1>10. ASSUME NEW k \in Int, NEW w \in Nat \ {0}, k = value * w
       PROVE  Nearest(k, w) = value
  <2>1. Nearest(k, w) \in Int /\ Nearest(k, w) >= value /\ Nearest(k, w) <= value
    BY <1>8, <1>10, NearestIsBetween
  <2> QED
    BY <1>8, <2>1
<1>11. CASE n = 0
  <2>1. unit * value \in Int /\ unit * value = value * unit
    BY <1>3, <1>8
  <2>2. Nearest(unit * value, unit) = value
    BY <1>3, <1>10, <2>1
  <2> QED
    BY <1>9, <1>11, <2>2 DEF value
<1>12. CASE n # 0
  <2>1. n * unit \in Nat \ {0} /\ n * (unit * value) + 0 \in Int /\ n * (unit * value) + 0 = value * (n * unit)
    <3>1. \A j, k \in Nat \ {0}, v \in Int :
            j * k \in Nat \ {0} /\ j * (k * v) + 0 \in Int /\ j * (k * v) + 0 = v * (j * k)
      OBVIOUS
    <3> QED
      BY <1>2, <1>3, <1>8, <1>12, <3>1
  <2>2. Nearest(n * (unit * value) + 0, n * unit) = value
    BY <1>10, <2>1
  <2> QED
    BY <1>9, <1>12, <2>2 DEF value
<1> QED
  BY <1>11, <1>12

-----------------------------------------------------------------------------
(* The forecast *)

LEMMA ForecastSteps == CalculationsNext => Pay \/ UNCHANGED rows
BY DEF CalculationsNext, Only

\* For any paid invoices, any length of the history, the week and the horizon:
\* the forecast of days on a line (buildSalesForecast) is the line, to the cent
\* and not below zero; of a history that is too short it is a value between its
\* least and its greatest day; and each invoice of the window is in one day
\* (bucketDailyRevenue).
THEOREM TrendsGoOn == CalculationsSpec => []TrendsContinue
<1>1. CalculationsInit => ForecastInv
  BY DEF CalculationsInit, ForecastInit, ForecastInv
<1>2. ForecastInv /\ [CalculationsNext]_calculationVars => ForecastInv'
  <2> SUFFICES ASSUME ForecastInv, [CalculationsNext]_calculationVars PROVE ForecastInv'
    OBVIOUS
  <2>1. CASE UNCHANGED rows
    BY <2>1 DEF ForecastInv
  <2>2. CASE Pay
    <3>1. PICK day \in Created, cents \in Amounts : rows' = Append(rows, [day |-> day, cents |-> cents])
      BY <2>2 DEF Pay
    <3>2. [day |-> day, cents |-> cents] \in PaidInvoice
      BY DEF PaidInvoice
    <3> QED
      BY <3>1, <3>2 DEF ForecastInv
  <2> QED
    BY <2>1, <2>2, ForecastSteps DEF calculationVars
<1>3. ForecastInv => TrendsContinue
  <2> SUFFICES ASSUME ForecastInv PROVE TrendsContinue
    OBVIOUS
  <2> DEFINE points == bucketDailyRevenue
  <2>1. points \in [0..Days - 1 -> Nat] /\ Sum(points) = Total(Window, [n \in Window |-> rows[n].cents])
    BY DaysAddUp
  <2>2. \A i \in 0..Horizon - 1 : forecast[i] = IF insufficientData(points) THEN Flat(points)
                                               ELSE Positive(Predicted(points, i))
    BY DEF forecast, buildSalesForecast
  <2>3. DOMAIN forecast = 0..Horizon - 1
    BY DEF forecast, buildSalesForecast
  <2> HIDE DEF points
  <2>4. points \in [0..Days - 1 -> Int] /\ DOMAIN points = 0..Days - 1
    BY <2>1
  <2>5. ASSUME insufficientData(points), NEW i \in DOMAIN forecast
        PROVE  /\ \E x \in DOMAIN points : points[x] <= forecast[i]
               /\ \E x \in DOMAIN points : points[x] >= forecast[i]
    BY <2>1, <2>2, <2>3, <2>4, <2>5, FlatIsBetween
  <2>6. ASSUME ~insufficientData(points), OnALine(points), NEW i \in DOMAIN forecast
        PROVE  forecast[i] = Positive(LineAt(points, Days + i))
    <3>1. i \in Nat
      BY <2>3
    <3>2. Predicted(points, i) = LineAt(points, Days + i)
      BY <2>4, <2>6, <3>1, LineGoesOn
    <3> QED
      BY <2>2, <2>3, <2>6, <3>2
  <2> QED
    BY <2>1, <2>5, <2>6 DEF TrendsContinue, points
<1> QED
  BY <1>1, <1>2, <1>3, PTL DEF CalculationsSpec

-----------------------------------------------------------------------------
(***************************************************************************)
(* Conversations: what is in its variables, and what is known of it.       *)
(***************************************************************************)

SetsOfRows == SUBSET Nat
Handling == [at : {"provision", "upsert", "store", "enqueue"}, of : Message, customer : Nat]
Embedding == [at : {"upsert"}, job : {"embed"}, of : Threads, read : SetsOfRows]
Summarizing == [at : {"complete"}, job : {"summary"}, of : Threads, read : SetsOfRows]
CustomerRow ==
  {c \in [address : {Identity[from] : from \in Spellings}, from : Spellings] :
     c.address = Identity[c.from]}
ConversationRow ==
  [exists : BOOLEAN, customer : Nat, summary : SetsOfRows, summaryGeneratedAt : Nat]
MessageRow == [thread : Threads, id : Nat, sentAt : Nat, size : Nat \ {0}]

ConversationTypes ==
  /\ customer \in Seq(CustomerRow)
  /\ conversation \in [Threads -> ConversationRow]
  /\ stored \in Seq(MessageRow)
  /\ webhook \in [Webhooks -> {Idle} \cup Handling]
  /\ embedJobs \in [Threads -> Nat] /\ summaryJobs \in [Threads -> Nat]
  /\ worker \in [Workers -> {Idle} \cup Embedding \cup Summarizing]
  /\ asked \in [Threads -> SetsOfRows]
  /\ clock \in Nat

\* Nothing was sent later than now.
SentBefore ==
  /\ \A i \in DOMAIN stored : stored[i].sentAt <= clock
  /\ \A w \in Webhooks : webhook[w] # Idle => webhook[w].of.sentAt <= clock

-----------------------------------------------------------------------------
(* Customers *)

Who(w) == Identity[webhook[w].of.from]

\* Webhooks that look up one address at once are known to overlap.
LookupsOverlap ==
  \A x, y \in Webhooks :
    x # y /\ At(x, "provision") /\ At(y, "provision") /\ Who(x) = Who(y) => Who(x) \in overlapped

\* Between the lookup and the row that it misses nobody adds it, except a
\* webhook that overlaps.
NoneWasProvisioned ==
  \A x \in Webhooks : At(x, "provision") =>
    \A c \in DOMAIN customer :
      Identity[customer[c].from] = Who(x) => Who(x) \in overlapped \cup {"unknown"}

CustomersInv == LookupsOverlap /\ NoneWasProvisioned /\ OneCustomerPerIdentity

(* Embeddings *)

\* Each message is in the collection, or lost, or somebody will put it there.
EmbeddingDue(i) ==
  \/ i \in vectors \cup lost
  \/ embedJobs[stored[i].thread] > 0
  \/ \E w \in Webhooks : At(w, "enqueue") /\ webhook[w].of.thread = stored[i].thread
  \/ \E w \in Workers : worker[w].at = "upsert" /\ i \in worker[w].read
                          /\ worker[w].of = stored[i].thread

EmbeddingsInv == \A i \in DOMAIN stored : EmbeddingDue(i)

(* Summaries *)

\* What a worker has read, and what a summary is made of, are rows of its thread.
ReadIsStored ==
  \A w \in Workers : worker[w].at = "complete" => worker[w].read \subseteq RowsOf(worker[w].of)

SummaryIsStored == \A t \in Threads : conversation[t].summary \subseteq RowsOf(t)

Covered(t, i) == i \in conversation[t].summary \cup late \/ Omitted(t, i)

\* What a summary does not cover came late, or after it.
SummaryMissesLater ==
  \A t \in Threads : \A i \in RowsOf(t) :
    \/ Covered(t, i)
    \/ conversation[t].summaryGeneratedAt = 0
    \/ stored[i].sentAt > conversation[t].summaryGeneratedAt

\* What was there when a summary was asked for is covered, or will be.
AskedIsDue ==
  \A t \in Threads :
    /\ asked[t] \subseteq RowsOf(t)
    /\ \/ \A i \in asked[t] : Covered(t, i)
       \/ summaryJobs[t] > 0
       \/ \E w \in Workers : worker[w].at = "complete" /\ worker[w].of = t

SummariesInv == ReadIsStored /\ SummaryIsStored /\ SummaryMissesLater /\ AskedIsDue

IInv == ConversationTypes /\ SentBefore /\ CustomersInv /\ EmbeddingsInv /\ SummariesInv
-----------------------------------------------------------------------------
(***************************************************************************)
(* Rows and states.                                                        *)
(***************************************************************************)

LEMMA RowAppended ==
  ASSUME NEW R, NEW s \in Seq(R), NEW r \in R
  PROVE  /\ Append(s, r) \in Seq(R)
         /\ Len(s) + 1 \in Nat /\ Len(s) + 1 \notin DOMAIN s
         /\ DOMAIN Append(s, r) = DOMAIN s \cup {Len(s) + 1}
         /\ \A i \in DOMAIN s : Append(s, r)[i] = s[i] /\ s[i] \in R /\ i \in Nat
         /\ Append(s, r)[Len(s) + 1] = r
  OBVIOUS

LEMMA RowsAreTyped ==
  ASSUME NEW R, NEW s \in Seq(R)
  PROVE  \A i \in DOMAIN s : s[i] \in R /\ i \in Nat
  OBVIOUS

LEMMA StoredRows ==
  ASSUME ConversationTypes, NEW i \in DOMAIN stored
  PROVE  /\ i \in Nat /\ stored[i].thread \in Threads /\ stored[i].sentAt \in Nat
<1>1. stored[i] \in MessageRow /\ i \in Nat
  BY RowsAreTyped DEF ConversationTypes
<1> QED
  BY <1>1 DEF MessageRow

LEMMA HandlingState ==
  ASSUME NEW s \in {Idle} \cup Handling
  PROVE  /\ s # Idle <=> s \in Handling
         /\ s # Idle <=> s.at # "idle"
         /\ s # Idle <=> s.at \in {"provision", "upsert", "store", "enqueue"}
  BY DEF Idle, Handling

LEMMA WorkingState ==
  ASSUME NEW s \in {Idle} \cup Embedding \cup Summarizing
  PROVE  /\ s.at = "upsert" <=> s \in Embedding
         /\ s.at = "complete" <=> s \in Summarizing
         /\ s \in Embedding => s # Idle /\ s.job = "embed"
         /\ s \in Summarizing => s # Idle /\ s.job = "summary"
         /\ s # Idle => s \in Embedding \cup Summarizing
<1>1. s = Idle => s.at = "idle"
  BY DEF Idle
<1>2. s \in Embedding => s.at = "upsert" /\ s.job = "embed"
  BY Zenon DEF Embedding
<1>3. s \in Summarizing => s.at = "complete" /\ s.job = "summary"
  BY Zenon DEF Summarizing
<1>4. CASE s = Idle
  BY <1>1, <1>2, <1>3, <1>4
<1>5. CASE s \in Embedding
  BY <1>1, <1>2, <1>3, <1>5
<1>6. CASE s \in Summarizing
  BY <1>1, <1>2, <1>3, <1>6
<1> QED
  BY <1>4, <1>5, <1>6

-----------------------------------------------------------------------------
(***************************************************************************)
(* What each part of the invariant needs of a step that leaves it alone.   *)
(***************************************************************************)

LookupsGoOn == \A x \in Webhooks : webhook'[x].at = "provision" => webhook'[x] = webhook[x]

LEMMA CustomersStay ==
  ASSUME CustomersInv, customer' = customer, overlapped' = overlapped, LookupsGoOn
  PROVE  CustomersInv'
  BY DEF CustomersInv, LookupsGoOn, LookupsOverlap, NoneWasProvisioned, OneCustomerPerIdentity,
         Who, At

EmbeddingsGoOn ==
  /\ vectors \subseteq vectors' /\ lost \subseteq lost'
  /\ \A t \in Threads : embedJobs[t] > 0 => embedJobs'[t] > 0
  /\ \A x \in Webhooks : webhook[x].at = "enqueue" => webhook'[x] = webhook[x]
  /\ \A w \in Workers : worker[w].at = "upsert" => worker'[w] = worker[w]

LEMMA EmbeddingsStay ==
  ASSUME ConversationTypes, EmbeddingsInv, stored' = stored, EmbeddingsGoOn
  PROVE  EmbeddingsInv'
<1> SUFFICES ASSUME NEW i \in DOMAIN stored
             PROVE  EmbeddingDue(i)'
  BY DEF EmbeddingsInv
<1>1. EmbeddingDue(i)
  BY DEF EmbeddingsInv
<1>2. stored[i].thread \in Threads
  BY StoredRows
<1> QED
  BY <1>1, <1>2 DEF EmbeddingDue, EmbeddingsGoOn, At

SummariesGoOn ==
  /\ late \subseteq late'
  /\ \A t \in Threads : summaryJobs[t] > 0 => summaryJobs'[t] > 0
  /\ \A w \in Workers :
       worker[w].at = "complete" \/ worker'[w].at = "complete" => worker'[w] = worker[w]

\* A message stays covered as long as its summary stands: whether there was room
\* for it depends on rows that do not change.
LEMMA CoveredStays ==
  ASSUME SummaryIsStored, NEW t \in Threads, NEW i \in RowsOf(t), Covered(t, i),
         conversation'[t].summary = conversation[t].summary, late \subseteq late',
         RowsOf(t) \subseteq RowsOf(t)', \A k \in RowsOf(t) : stored'[k] = stored[k]
  PROVE  Covered(t, i)'
<1> DEFINE made == conversation[t].summary
<1>1. made \subseteq RowsOf(t)
  BY DEF SummaryIsStored
<1>2. CASE i \in made \cup late
  BY <1>2 DEF Covered
<1>3. CASE Omitted(t, i)
  <2>1. PICK j \in RowsOf(t) \ made : /\ stored[i].sentAt <= stored[j].sentAt
                                       /\ Chars(made \cup {j}) > CONTEXT_CHARS
    BY <1>3 DEF Omitted
  <2>2. [k \in made \cup {j} |-> stored'[k].size] = [k \in made \cup {j} |-> stored[k].size]
    BY <1>1
  <2>3. Chars(made \cup {j})' = Chars(made \cup {j})
    BY <2>2 DEF Chars
  <2> HIDE DEF made
  <2>4. made # {} /\ \A k \in made : stored'[i].sentAt <= stored'[k].sentAt
    BY <1>1, <1>3 DEF Omitted, made
  <2>5. conversation'[t].summary = made /\ made' = made
    BY DEF made
  <2>6. j \in RowsOf(t)' \ made /\ stored'[i].sentAt <= stored'[j].sentAt
    BY <2>1
  <2>7. Chars(made \cup {j})' > CONTEXT_CHARS
    BY <2>1, <2>3
  <2> QED
    BY <2>4, <2>5, <2>6, <2>7 DEF Covered, Omitted
<1> QED
  BY <1>2, <1>3 DEF Covered

LEMMA SummariesStay ==
  ASSUME ConversationTypes, SummariesInv, SummariesGoOn, stored' = stored, asked' = asked,
         \A t \in Threads :
           /\ conversation'[t].summary = conversation[t].summary
           /\ conversation'[t].summaryGeneratedAt = conversation[t].summaryGeneratedAt
  PROVE  SummariesInv'
<1>1. \A t : RowsOf(t)' = RowsOf(t)
  BY DEF RowsOf
<1>2. ReadIsStored' /\ SummaryIsStored'
  BY <1>1 DEF SummariesInv, SummariesGoOn, ReadIsStored, SummaryIsStored, RowsOf
<1>3. ASSUME NEW t \in Threads, NEW i \in RowsOf(t), Covered(t, i) PROVE Covered(t, i)'
  BY <1>1, <1>3, CoveredStays DEF SummariesInv, SummariesGoOn
<1>4. SummaryMissesLater'
  BY <1>1, <1>3 DEF SummariesInv, SummaryMissesLater
<1>5. AskedIsDue'
  BY <1>1, <1>3 DEF SummariesInv, SummariesGoOn, AskedIsDue
<1> QED
  BY <1>2, <1>4, <1>5 DEF SummariesInv

LEMMA SentStays ==
  ASSUME ConversationTypes, SentBefore, stored' = stored, clock' = clock,
         \A w \in Webhooks : webhook'[w] # Idle => webhook[w] # Idle /\ webhook'[w].of = webhook[w].of
  PROVE  SentBefore'
  BY DEF SentBefore

\* A webhook moves, and the others do not.
LEMMA WebhookMoves ==
  ASSUME ConversationTypes, NEW w \in Webhooks, NEW s \in {Idle} \cup Handling,
         webhook' = [webhook EXCEPT ![w] = s]
  PROVE  /\ webhook' \in [Webhooks -> {Idle} \cup Handling]
         /\ webhook'[w] = s /\ \A x \in Webhooks \ {w} : webhook'[x] = webhook[x]
  BY DEF ConversationTypes

LEMMA WorkerMoves ==
  ASSUME ConversationTypes, NEW w \in Workers,
         NEW s \in {Idle} \cup Embedding \cup Summarizing,
         worker' = [worker EXCEPT ![w] = s]
  PROVE  /\ worker' \in [Workers -> {Idle} \cup Embedding \cup Summarizing]
         /\ worker'[w] = s /\ \A x \in Workers \ {w} : worker'[x] = worker[x]
  BY DEF ConversationTypes
-----------------------------------------------------------------------------
(***************************************************************************)
(* The requests of a channel.                                              *)
(***************************************************************************)

LEMMA TimedMessage ==
  ASSUME NEW m \in Message, NEW time \in Nat, m.sentAt <= time
  PROVE  LET message == IF m.sentAt = 0 THEN [m EXCEPT !.sentAt = time] ELSE m IN
           message \in Message /\ message.from = m.from /\ message.sentAt <= time
  BY DEF Message

LEMMA ReceiveKeepsIInv ==
  ASSUME IInv, NEW w \in Webhooks, NEW m \in Messages, Receive(w, m)
  PROVE  IInv'
<1> DEFINE who == Identity[m.from]
           found == {c \in DOMAIN customer : customer[c].address = who /\ who # "unknown"}
           message == IF m.sentAt = 0 THEN [m EXCEPT !.sentAt = clock] ELSE m
           others == {x \in Webhooks : At(x, "provision")
                                         /\ Identity[webhook[x].of.from] = Identity[m.from]}
<1>1. /\ webhook[w] = Idle /\ m.sentAt <= clock
      /\ UNCHANGED <<customer, conversation, stored, late, indexVars, summaryVars, worker, clock>>
  BY DEF Receive
<1>2. PICK c \in IF found = {} THEN {0} ELSE found :
        /\ webhook' = [webhook EXCEPT ![w] =
             [at |-> IF c = 0 THEN "provision" ELSE "upsert", of |-> message, customer |-> c]]
        /\ overlapped' = overlapped \cup {Identity[m.from] : x \in others}
  BY DEF Receive, normalize
<1> DEFINE s == [at |-> IF c = 0 THEN "provision" ELSE "upsert", of |-> message, customer |-> c]
<1>3. m \in Message /\ clock \in Nat
  BY ConversationsAssumption DEF IInv, ConversationTypes
<1>4. message \in Message /\ message.from = m.from /\ message.sentAt <= clock
  BY <1>1, <1>3, TimedMessage
<1>5. \A d \in DOMAIN customer : d \in Nat \ {0} /\ customer[d] \in CustomerRow
  BY DEF IInv, ConversationTypes
<1>6. c \in Nat /\ (c = 0 => found = {})
  BY <1>5
<1> HIDE DEF message
<1>7. /\ s \in Handling /\ s.at = (IF c = 0 THEN "provision" ELSE "upsert")
      /\ s.of = message
  BY <1>4, <1>6 DEF Handling
<1> HIDE DEF s
<1>8. /\ webhook' \in [Webhooks -> {Idle} \cup Handling]
      /\ webhook'[w] = s /\ \A x \in Webhooks \ {w} : webhook'[x] = webhook[x]
  BY <1>2, <1>7, WebhookMoves DEF IInv, s
<1>9. ConversationTypes'
  BY <1>1, <1>8 DEF IInv, ConversationTypes, indexVars, summaryVars
<1>10. SentBefore'
  BY <1>1, <1>4, <1>7, <1>8 DEF IInv, SentBefore
<1>11. CustomersInv'
  <2>1. overlapped \subseteq overlapped' /\ (others # {} => who \in overlapped')
    BY <1>2
  <2>2. ASSUME NEW x \in Webhooks, webhook'[x].at = "provision"
        PROVE  IF x = w THEN c = 0 /\ Identity[webhook'[x].of.from] = who
               ELSE webhook'[x] = webhook[x] /\ At(x, "provision")
    BY <1>4, <1>7, <1>8, <2>2 DEF At
  <2>3. LookupsOverlap'
    <3> SUFFICES ASSUME NEW x \in Webhooks, NEW y \in Webhooks, x # y,
                        webhook'[x].at = "provision", webhook'[y].at = "provision",
                        Identity[webhook'[x].of.from] = Identity[webhook'[y].of.from]
                 PROVE  Identity[webhook'[x].of.from] \in overlapped'
      BY DEF LookupsOverlap, Who, At
    <3>1. CASE x # w /\ y # w
      BY <2>1, <2>2, <3>1 DEF IInv, CustomersInv, LookupsOverlap, Who
    <3>2. CASE x = w
      BY <2>1, <2>2, <3>2
    <3>3. CASE y = w
      BY <2>1, <2>2, <3>3
    <3> QED
      BY <3>1, <3>2, <3>3
  <2>4. NoneWasProvisioned'
    <3> SUFFICES ASSUME NEW x \in Webhooks, webhook'[x].at = "provision",
                        NEW d \in DOMAIN customer,
                        Identity[customer[d].from] = Identity[webhook'[x].of.from]
                 PROVE  Identity[webhook'[x].of.from] \in overlapped' \cup {"unknown"}
      BY <1>1 DEF NoneWasProvisioned, Who, At
    <3>1. CASE x # w
      BY <2>1, <2>2, <3>1 DEF IInv, CustomersInv, NoneWasProvisioned, Who
    <3>2. CASE x = w
      <4>1. found = {} /\ Identity[customer[d].from] = who
        BY <1>6, <2>2, <3>2
      <4>2. customer[d].address = who
        BY <1>5, <4>1 DEF CustomerRow
      <4> QED
        BY <2>2, <3>2, <4>1, <4>2
    <3> QED
      BY <3>1, <3>2
  <2>5. OneCustomerPerIdentity'
    BY <1>1, <2>1 DEF IInv, CustomersInv, OneCustomerPerIdentity
  <2> QED
    BY <2>3, <2>4, <2>5 DEF CustomersInv
<1>12. webhook[w].at # "enqueue"
  BY <1>1 DEF Idle
<1>13. EmbeddingsInv'
  <2>1. EmbeddingsGoOn
    BY <1>1, <1>8, <1>12 DEF EmbeddingsGoOn, indexVars
  <2> QED
    BY <1>1, <2>1, EmbeddingsStay DEF IInv
<1>14. SummariesInv'
  <2>1. SummariesGoOn
    BY <1>1 DEF SummariesGoOn, summaryVars
  <2> QED
    BY <1>1, <2>1, SummariesStay DEF IInv, summaryVars
<1> QED
  BY <1>9, <1>10, <1>11, <1>13, <1>14 DEF IInv

\* A request that ends, or goes on to a step that is neither of the two that
\* somebody counts on.
LEMMA OnlyWebhooks ==
  ASSUME IInv, NEW w \in Webhooks, NEW s \in {Idle} \cup Handling,
         webhook[w] # Idle => webhook[w].at # "enqueue", s.at # "provision",
         s # Idle => s.of.sentAt <= clock,
         webhook' = [webhook EXCEPT ![w] = s],
         UNCHANGED <<customer, conversation, stored, overlapped, late, indexVars, summaryVars,
                     worker, clock>>
  PROVE  IInv'
<1>1. /\ webhook' \in [Webhooks -> {Idle} \cup Handling]
      /\ webhook'[w] = s /\ \A x \in Webhooks \ {w} : webhook'[x] = webhook[x]
  BY WebhookMoves DEF IInv
<1>2. ConversationTypes'
  BY <1>1 DEF IInv, ConversationTypes, indexVars, summaryVars
<1>3. SentBefore'
  BY <1>1 DEF IInv, SentBefore
<1>4. CustomersInv'
  BY <1>1, CustomersStay DEF IInv, LookupsGoOn
<1>5. EmbeddingsInv'
  <2>1. webhook[w].at # "enqueue"
    BY DEF Idle
  <2>2. EmbeddingsGoOn
    BY <1>1, <2>1 DEF EmbeddingsGoOn, indexVars
  <2> QED
    BY <2>2, EmbeddingsStay DEF IInv
<1>6. SummariesInv'
  <2>1. SummariesGoOn
    BY DEF SummariesGoOn, summaryVars
  <2> QED
    BY <2>1, SummariesStay DEF IInv, summaryVars
<1> QED
  BY <1>2, <1>3, <1>4, <1>5, <1>6 DEF IInv

LEMMA PostKeepsIInv ==
  ASSUME IInv, NEW w \in Webhooks, NEW m \in Messages, Post(w, m)
  PROVE  IInv'
<1>1. PICK c \in {0} \cup DOMAIN customer :
        webhook' = [webhook EXCEPT ![w] = [at |-> "upsert", of |-> m, customer |-> c]]
  BY DEF Post
<1> DEFINE s == [at |-> "upsert", of |-> m, customer |-> c]
<1>2. m \in Message /\ clock \in Nat /\ c \in Nat
  BY ConversationsAssumption DEF IInv, ConversationTypes
<1>3. s \in Handling /\ s.at = "upsert" /\ s.of = m
  BY <1>2 DEF Handling
<1>4. /\ webhook[w] = Idle /\ m.sentAt <= clock /\ webhook' = [webhook EXCEPT ![w] = s]
      /\ UNCHANGED <<customer, conversation, stored, overlapped, late, indexVars, summaryVars,
                     worker, clock>>
  <2>1. m.sentAt \in 1..clock
    BY DEF Post
  <2>2. m.sentAt <= clock
    BY <1>2, <2>1
  <2> QED
    BY <1>1, <2>2, Zenon DEF Post
<1> HIDE DEF s
<1> QED
  BY <1>3, <1>4, OnlyWebhooks

LEMMA RequestState ==
  ASSUME IInv, NEW w \in Webhooks, webhook[w].at # "idle"
  PROVE  /\ webhook[w] \in Handling /\ webhook[w].of \in Message
         /\ webhook[w].of.thread \in Threads /\ webhook[w].of.sentAt <= clock
         /\ webhook[w].customer \in Nat
<1>1. webhook[w] \in Handling /\ webhook[w] # Idle
  BY HandlingState DEF IInv, ConversationTypes
<1> QED
  BY <1>1 DEF Handling, Message, IInv, SentBefore

Steps == {"provision", "upsert", "store", "enqueue"}

LEMMA NextOfHandling ==
  ASSUME NEW s \in Handling, NEW at \in Steps, NEW c \in Nat
  PROVE  /\ LET r == [s EXCEPT !.at = at, !.customer = c] IN
              r \in Handling /\ r.at = at /\ r.of = s.of
         /\ LET r == [s EXCEPT !.at = at] IN
              r \in Handling /\ r.at = at /\ r.of = s.of
  BY DEF Handling, Steps

LEMMA ProvisionKeepsIInv ==
  ASSUME IInv, NEW w \in Webhooks, Provision(w)
  PROVE  IInv'
<1> DEFINE row == [address |-> Who(w), from |-> webhook[w].of.from]
           new == Len(customer) + 1
           s == [webhook[w] EXCEPT !.at = "upsert", !.customer = new]
<1>1. /\ webhook[w].at = "provision"
      /\ customer' = Append(customer, row)
      /\ UNCHANGED <<conversation, stored, overlapped, late, deliveries, indexVars, summaryVars,
                     worker, clock>>
  BY DEF Provision, normalize, Who, At
<1>2. customer \in Seq(CustomerRow) /\ new \in Nat
  BY DEF IInv, ConversationTypes
<1>3. webhook[w] \in Handling /\ webhook[w].of \in Message /\ webhook[w].of.sentAt <= clock
  BY <1>1, RequestState
<1>4. s \in Handling /\ s.at = "upsert" /\ s.of = webhook[w].of
  <2>1. PICK h \in Handling : h = webhook[w]
    BY <1>3
  <2>2. LET r == [h EXCEPT !.at = "upsert", !.customer = new] IN
          r \in Handling /\ r.at = "upsert" /\ r.of = h.of
    BY <1>2 DEF Handling
  <2> QED
    BY <2>1, <2>2
<1>5. webhook' = [webhook EXCEPT ![w] = s]
  <2>1. webhook' = [webhook EXCEPT ![w].at = "upsert", ![w].customer = new]
    BY DEF Provision
  <2>2. webhook \in [Webhooks -> {Idle} \cup Handling]
    BY DEF IInv, ConversationTypes
  <2> QED
    BY <2>1, <2>2, Zenon
<1>6. row \in CustomerRow /\ Identity[row.from] = Who(w)
  BY <1>3 DEF CustomerRow, Message, Who
<1> HIDE DEF row, s
<1>7. /\ customer' \in Seq(CustomerRow)
      /\ DOMAIN customer' = DOMAIN customer \cup {new} /\ customer'[new] = row
      /\ \A c \in DOMAIN customer : customer'[c] = customer[c]
  BY <1>1, <1>2, <1>6, RowAppended
<1> HIDE DEF new
<1>8. /\ webhook' \in [Webhooks -> {Idle} \cup Handling]
      /\ webhook'[w] = s /\ \A x \in Webhooks \ {w} : webhook'[x] = webhook[x]
  BY <1>4, <1>5, WebhookMoves DEF IInv
<1>9. ConversationTypes'
  BY <1>1, <1>7, <1>8 DEF IInv, ConversationTypes, indexVars, summaryVars
<1>10. SentBefore'
  BY <1>1, <1>3, <1>4, <1>8 DEF IInv, SentBefore
<1>11. CustomersInv'
  <2>1. ASSUME NEW x \in Webhooks, webhook'[x].at = "provision"
        PROVE  /\ x # w /\ webhook'[x] = webhook[x] /\ At(x, "provision") /\ At(w, "provision")
               /\ Who(x) = Who(w) => Who(w) \in overlapped
    BY <1>1, <1>4, <1>8, <2>1 DEF At, IInv, CustomersInv, LookupsOverlap
  <2>2. LookupsOverlap'
    BY <1>1, <2>1 DEF IInv, CustomersInv, LookupsOverlap, Who, At
  <2>3. NoneWasProvisioned'
    <3> SUFFICES ASSUME NEW x \in Webhooks, webhook'[x].at = "provision",
                        NEW d \in DOMAIN customer',
                        Identity[customer'[d].from] = Identity[webhook'[x].of.from]
                 PROVE  Identity[webhook'[x].of.from] \in overlapped \cup {"unknown"}
      BY <1>1 DEF NoneWasProvisioned, Who, At
    <3>1. CASE d \in DOMAIN customer
      BY <1>7, <2>1, <3>1 DEF IInv, CustomersInv, NoneWasProvisioned, Who
    <3>2. CASE d = new
      BY <1>6, <1>7, <2>1, <3>2 DEF Who
    <3> QED
      BY <1>7, <3>1, <3>2
  <2>4. ASSUME NEW c \in DOMAIN customer, Identity[customer[c].from] = Who(w)
        PROVE  Who(w) \in overlapped \cup {"unknown"}
    BY <1>1, <2>4 DEF IInv, CustomersInv, NoneWasProvisioned, At
  <2>5. OneCustomerPerIdentity'
    <3> SUFFICES ASSUME NEW c \in DOMAIN customer', NEW d \in DOMAIN customer', c # d,
                        Identity[customer'[c].from] = Identity[customer'[d].from]
                 PROVE  Identity[customer'[c].from] \in overlapped \cup {"unknown"}
      BY <1>1 DEF OneCustomerPerIdentity
    <3>1. CASE c \in DOMAIN customer /\ d \in DOMAIN customer
      BY <1>7, <3>1 DEF IInv, CustomersInv, OneCustomerPerIdentity
    <3>2. CASE c = new /\ d \in DOMAIN customer
      BY <1>6, <1>7, <2>4, <3>2
    <3>3. CASE d = new /\ c \in DOMAIN customer
      BY <1>6, <1>7, <2>4, <3>3
    <3> QED
      BY <1>7, <3>1, <3>2, <3>3
  <2> QED
    BY <2>2, <2>3, <2>5 DEF CustomersInv
<1>12. EmbeddingsInv'
  <2>1. EmbeddingsGoOn
    BY <1>1, <1>8 DEF EmbeddingsGoOn, indexVars
  <2> QED
    BY <1>1, <2>1, EmbeddingsStay DEF IInv
<1>13. SummariesInv'
  <2>1. SummariesGoOn
    BY <1>1 DEF SummariesGoOn, summaryVars
  <2> QED
    BY <1>1, <2>1, SummariesStay DEF IInv, summaryVars
<1> QED
  BY <1>9, <1>10, <1>11, <1>12, <1>13 DEF IInv

LEMMA RequestFailsKeepsIInv ==
  ASSUME IInv, NEW w \in Webhooks, RequestFails(w)
  PROVE  IInv'
<1>1. /\ webhook[w] # Idle /\ webhook' = [webhook EXCEPT ![w] = Idle]
      /\ UNCHANGED <<customer, conversation, stored, overlapped, late, embedJobs,
                     vectors, summaryVars, worker, clock>>
      /\ lost' = IF At(w, "enqueue") THEN lost \cup RowsOf(webhook[w].of.thread) ELSE lost
  BY DEF RequestFails
<1>2. Idle.at = "idle"
  BY DEF Idle
<1>3. /\ webhook' \in [Webhooks -> {Idle} \cup Handling]
      /\ webhook'[w] = Idle /\ \A x \in Webhooks \ {w} : webhook'[x] = webhook[x]
  BY <1>1, WebhookMoves DEF IInv
<1>4. ConversationTypes' /\ SentBefore'
  BY <1>1, <1>3, SentStays DEF IInv, ConversationTypes, summaryVars
<1>5. CustomersInv'
  BY <1>1, <1>2, <1>3, CustomersStay DEF IInv, LookupsGoOn
<1>6. EmbeddingsInv'
  <2>1. CASE ~At(w, "enqueue")
    <3>1. EmbeddingsGoOn
      BY <1>1, <1>3, <2>1 DEF EmbeddingsGoOn, At
    <3> QED
      BY <1>1, <3>1, EmbeddingsStay DEF IInv
  <2>2. CASE At(w, "enqueue")
    <3> SUFFICES ASSUME NEW i \in DOMAIN stored
                 PROVE  EmbeddingDue(i)'
      BY <1>1 DEF EmbeddingsInv
    <3>1. EmbeddingDue(i)
      BY DEF IInv, EmbeddingsInv
    <3>2. lost' = lost \cup RowsOf(webhook[w].of.thread)
      BY <1>1, <2>2
    <3>3. CASE stored[i].thread = webhook[w].of.thread
      BY <3>2, <3>3 DEF EmbeddingDue, RowsOf
    <3>4. CASE stored[i].thread # webhook[w].of.thread
      BY <1>1, <1>3, <3>1, <3>2, <3>4 DEF EmbeddingDue, At
    <3> QED
      BY <3>3, <3>4
  <2> QED
    BY <2>1, <2>2
<1>7. SummariesInv'
  <2>1. SummariesGoOn
    BY <1>1 DEF SummariesGoOn, summaryVars
  <2> QED
    BY <1>1, <2>1, SummariesStay DEF IInv, summaryVars
<1> QED
  BY <1>4, <1>5, <1>6, <1>7 DEF IInv

LEMMA UpsertConversationKeepsIInv ==
  ASSUME IInv, NEW w \in Webhooks, UpsertConversation(w)
  PROVE  IInv'
<1> DEFINE t == webhook[w].of.thread
           c == webhook[w].customer
           s == [webhook[w] EXCEPT !.at = "store"]
<1>1. /\ webhook[w].at = "upsert"
      /\ conversation' = [conversation EXCEPT ![t].exists = TRUE,
                            ![t].customer = IF c = 0 THEN @ ELSE c]
      /\ webhook' = [webhook EXCEPT ![w].at = "store"]
      /\ UNCHANGED <<customer, stored, overlapped, late, deliveries, indexVars, summaryVars,
                     worker, clock>>
  BY DEF UpsertConversation, At
<1>2. webhook[w] \in Handling /\ t \in Threads /\ c \in Nat
  BY <1>1, RequestState
<1>3. s \in Handling /\ s.at = "store" /\ s.of = webhook[w].of
  <2>1. "store" \in Steps
    BY DEF Steps
  <2> QED
    BY <1>2, <2>1, NextOfHandling, Zenon
<1>4. webhook' = [webhook EXCEPT ![w] = s]
  BY <1>1
<1> HIDE DEF s, c, t
<1>5. /\ webhook' \in [Webhooks -> {Idle} \cup Handling]
      /\ webhook'[w] = s /\ \A x \in Webhooks \ {w} : webhook'[x] = webhook[x]
  BY <1>3, <1>4, WebhookMoves DEF IInv
<1>6. /\ conversation' \in [Threads -> ConversationRow]
      /\ \A u \in Threads :
           /\ conversation'[u].summary = conversation[u].summary
           /\ conversation'[u].summaryGeneratedAt = conversation[u].summaryGeneratedAt
  <2>1. conversation \in [Threads -> ConversationRow]
    BY DEF IInv, ConversationTypes
  <2> DEFINE row == conversation[t]
             new == [row EXCEPT !.exists = TRUE, !.customer = IF c = 0 THEN row.customer ELSE c]
  <2>2. row \in ConversationRow
    BY <1>2, <2>1
  <2>3. conversation' = [conversation EXCEPT ![t] = new]
    BY <1>1, <1>2, <2>1, Zenon
  <2>4. new \in ConversationRow /\ new.summary = row.summary
         /\ new.summaryGeneratedAt = row.summaryGeneratedAt
    BY <1>2, <2>2 DEF ConversationRow
  <2> HIDE DEF new
  <2> QED
    BY <1>2, <2>1, <2>3, <2>4
<1>7. ConversationTypes'
  BY <1>1, <1>5, <1>6 DEF IInv, ConversationTypes, indexVars, summaryVars
<1>8. SentBefore'
  BY <1>1, <1>3, <1>5, SentStays DEF IInv, Idle
<1>9. CustomersInv'
  BY <1>1, <1>3, <1>5, CustomersStay DEF IInv, LookupsGoOn
<1>10. EmbeddingsInv'
  <2>1. EmbeddingsGoOn
    BY <1>1, <1>5 DEF EmbeddingsGoOn, indexVars
  <2> QED
    BY <1>1, <2>1, EmbeddingsStay DEF IInv
<1>11. SummariesInv'
  <2>1. SummariesGoOn
    BY <1>1 DEF SummariesGoOn, summaryVars
  <2> QED
    BY <1>1, <1>6, <2>1, SummariesStay DEF IInv, summaryVars
<1> QED
  BY <1>7, <1>8, <1>9, <1>10, <1>11 DEF IInv

LEMMA StoreMessageKeepsIInv ==
  ASSUME IInv, NEW w \in Webhooks, StoreMessage(w)
  PROVE  IInv'
<1> DEFINE m == webhook[w].of
           s == [webhook[w] EXCEPT !.at = "enqueue"]
           row == [thread |-> m.thread, id |-> m.id, sentAt |-> m.sentAt, size |-> m.size]
           new == Len(stored) + 1
<1>1. /\ webhook[w].at = "store"
      /\ IF Duplicate(m) THEN UNCHANGED <<stored, late>>
         ELSE stored' = Append(stored, row) /\ late' = IF IsLate(m) THEN late \cup {new} ELSE late
      /\ webhook' = [webhook EXCEPT ![w].at = "enqueue"]
      /\ UNCHANGED <<customer, conversation, overlapped, indexVars, summaryVars, worker, clock>>
  BY DEF StoreMessage, At
<1>2. /\ webhook[w] \in Handling /\ m \in Message /\ m.thread \in Threads /\ m.sentAt <= clock
      /\ webhook[w] # Idle
  BY <1>1, RequestState DEF Idle
<1>3. s \in Handling /\ s.at = "enqueue" /\ s.of = m
  <2>1. "enqueue" \in Steps
    BY DEF Steps
  <2> QED
    BY <1>2, <2>1, NextOfHandling, Zenon
<1>4. webhook' = [webhook EXCEPT ![w] = s]
  BY <1>1
<1>5. row \in MessageRow /\ row.thread = m.thread /\ row.sentAt = m.sentAt
  BY <1>2 DEF MessageRow, Message
<1> HIDE DEF s, row, m
<1>6. /\ webhook' \in [Webhooks -> {Idle} \cup Handling]
      /\ webhook'[w] = s /\ \A x \in Webhooks \ {w} : webhook'[x] = webhook[x]
  BY <1>3, <1>4, WebhookMoves DEF IInv
<1>7. CustomersInv'
  BY <1>1, <1>3, <1>6, CustomersStay DEF IInv, LookupsGoOn
<1>8. webhook[w].of = m
  BY DEF m
<1>9. CASE Duplicate(m)
  <2>1. UNCHANGED <<stored, late>>
    BY <1>1, <1>9
  <2>2. ConversationTypes'
    BY <1>1, <1>6, <1>3, <2>1 DEF IInv, ConversationTypes, indexVars, summaryVars
  <2>3. SentBefore'
    BY <1>1, <1>2, <1>3, <1>6, <1>8, <2>1, SentStays DEF IInv
  <2>4. EmbeddingsGoOn /\ SummariesGoOn
    BY <1>1, <1>6, <2>1 DEF EmbeddingsGoOn, SummariesGoOn, indexVars, summaryVars
  <2> QED
    BY <1>1, <1>7, <2>1, <2>2, <2>3, <2>4, EmbeddingsStay, SummariesStay DEF IInv, summaryVars
<1>10. CASE ~Duplicate(m)
  <2>1. /\ stored' = Append(stored, row)
        /\ late' = IF IsLate(m) THEN late \cup {new} ELSE late
    BY <1>1, <1>10
  <2>2. stored \in Seq(MessageRow)
    BY DEF IInv, ConversationTypes
  <2>3. /\ stored' \in Seq(MessageRow) /\ new \notin DOMAIN stored /\ new \in Nat
        /\ DOMAIN stored' = DOMAIN stored \cup {new} /\ stored'[new] = row
        /\ \A i \in DOMAIN stored : stored'[i] = stored[i]
    BY <1>5, <2>1, <2>2, RowAppended
  <2> HIDE DEF new
  <2>4. ConversationTypes'
    BY <1>1, <1>3, <1>6, <2>3 DEF IInv, ConversationTypes, indexVars, summaryVars
  <2>5. SentBefore'
    <3>1. \A i \in DOMAIN stored' : stored'[i].sentAt <= clock
      BY <1>2, <1>5, <2>3 DEF IInv, SentBefore
    <3>2. \A x \in Webhooks : webhook'[x] # Idle => webhook'[x].of.sentAt <= clock
      BY <1>2, <1>3, <1>6 DEF IInv, SentBefore
    <3> QED
      BY <1>1, <3>1, <3>2 DEF SentBefore
  <2>6. EmbeddingsInv'
    <3> SUFFICES ASSUME NEW i \in DOMAIN stored'
                 PROVE  EmbeddingDue(i)'
      BY DEF EmbeddingsInv
    <3>1. CASE i = new
      BY <1>3, <1>5, <1>6, <2>3, <3>1 DEF EmbeddingDue, At
    <3>2. CASE i # new
      <4>1. EmbeddingDue(i) /\ stored'[i] = stored[i]
        BY <2>3, <3>2 DEF IInv, EmbeddingsInv
      <4> QED
        BY <1>1, <1>6, <4>1 DEF EmbeddingDue, At, indexVars
    <3> QED
      BY <3>1, <3>2
  <2>7. late \subseteq late' /\ (IsLate(m) => new \in late')
    BY <2>1
  <2>8. ASSUME NEW t \in Threads
        PROVE  RowsOf(t)' = IF t = m.thread THEN RowsOf(t) \cup {new} ELSE RowsOf(t)
    BY <1>5, <2>3 DEF RowsOf
  <2>9. ReadIsStored' /\ SummaryIsStored'
    <3>1. \A t \in Threads : RowsOf(t) \subseteq RowsOf(t)'
      BY <2>8
    <3>2. ASSUME NEW x \in Workers, worker[x].at = "complete"
          PROVE  worker[x].of \in Threads
      <4>1. worker[x] \in Summarizing
        BY <3>2, WorkingState DEF IInv, ConversationTypes
      <4> QED
        BY <4>1 DEF Summarizing
    <3>3. ASSUME NEW x \in Workers, worker'[x].at = "complete", NEW t, t = worker'[x].of
          PROVE  worker'[x].read \subseteq RowsOf(t)'
      BY <1>1, <3>1, <3>2, <3>3 DEF IInv, SummariesInv, ReadIsStored
    <3>4. ReadIsStored'
      BY <3>3 DEF ReadIsStored, RowsOf
    <3>5. SummaryIsStored'
      BY <1>1, <3>1 DEF IInv, SummariesInv, SummaryIsStored
    <3> QED
      BY <3>4, <3>5
  <2>10. ASSUME NEW t \in Threads, NEW i \in RowsOf(t), Covered(t, i)
         PROVE  Covered(t, i)'
    <3>1. RowsOf(t) \subseteq RowsOf(t)' /\ \A k \in RowsOf(t) : stored'[k] = stored[k]
      BY <2>3, <2>8 DEF RowsOf
    <3>2. conversation'[t].summary = conversation[t].summary
      BY <1>1
    <3> QED
      BY <2>7, <2>10, <3>1, <3>2, CoveredStays DEF IInv, SummariesInv
  <2>11. SummaryMissesLater'
    <3> SUFFICES ASSUME NEW t \in Threads, NEW i \in RowsOf(t)'
                 PROVE  \/ Covered(t, i)'
                        \/ conversation[t].summaryGeneratedAt = 0
                        \/ stored'[i].sentAt > conversation[t].summaryGeneratedAt
      BY <1>1 DEF SummaryMissesLater
    <3>1. CASE i \in RowsOf(t)
      <4>1. stored'[i] = stored[i]
        BY <2>3, <3>1 DEF RowsOf
      <4> QED
        BY <2>10, <3>1, <4>1 DEF IInv, SummariesInv, SummaryMissesLater
    <3>2. CASE i = new /\ t = m.thread
      <4>1. stored'[i].sentAt = m.sentAt /\ m.sentAt \in Nat
        BY <1>2, <1>5, <2>3, <3>2 DEF Message
      <4>2. conversation[t].summaryGeneratedAt \in Nat
        BY DEF IInv, ConversationTypes, ConversationRow
      <4> QED
        BY <2>7, <3>2, <4>1, <4>2 DEF IsLate, Covered
    <3> QED
      BY <2>8, <3>1, <3>2
  <2>12. AskedIsDue'
    BY <1>1, <2>8, <2>10 DEF IInv, SummariesInv, AskedIsDue, summaryVars
  <2> QED
    BY <1>7, <2>4, <2>5, <2>6, <2>9, <2>11, <2>12 DEF IInv, SummariesInv
<1> QED
  BY <1>9, <1>10

LEMMA NotifyKeepsIInv ==
  ASSUME IInv, NEW w \in Webhooks, Notify(w)
  PROVE  IInv'
<1> DEFINE t == webhook[w].of.thread
<1>1. /\ webhook[w].at = "enqueue" /\ webhook' = [webhook EXCEPT ![w] = Idle]
      /\ UNCHANGED <<customer, conversation, stored, overlapped, late, vectors, summaryVars,
                     worker, clock>>
      /\ \/ embedJobs' = [embedJobs EXCEPT ![t] = @ + 1] /\ lost' = lost
         \/ lost' = lost \cup RowsOf(t) /\ embedJobs' = embedJobs
  BY DEF Notify, At
<1>2. Idle.at = "idle"
  BY DEF Idle
<1>3. t \in Threads /\ webhook[w] \in Handling
  BY <1>1, RequestState
<1> HIDE DEF t
<1>4. /\ webhook' \in [Webhooks -> {Idle} \cup Handling]
      /\ webhook'[w] = Idle /\ \A x \in Webhooks \ {w} : webhook'[x] = webhook[x]
  BY <1>1, WebhookMoves DEF IInv
<1>5. /\ embedJobs' \in [Threads -> Nat]
      /\ \A u \in Threads : embedJobs[u] > 0 => embedJobs'[u] > 0
      /\ lost \subseteq lost'
      /\ embedJobs'[t] > 0 \/ RowsOf(t) \subseteq lost'
  <2>1. embedJobs \in [Threads -> Nat]
    BY DEF IInv, ConversationTypes
  <2>2. CASE embedJobs' = [embedJobs EXCEPT ![t] = @ + 1] /\ lost' = lost
    BY <1>3, <2>1, <2>2
  <2>3. CASE lost' = lost \cup RowsOf(t) /\ embedJobs' = embedJobs
    BY <2>1, <2>3
  <2> QED
    BY <1>1, <2>2, <2>3
<1>6. ConversationTypes' /\ SentBefore'
  BY <1>1, <1>4, <1>5, SentStays DEF IInv, ConversationTypes, summaryVars
<1>7. CustomersInv'
  BY <1>1, <1>2, <1>4, CustomersStay DEF IInv, LookupsGoOn
<1>8. EmbeddingsInv'
  <2> SUFFICES ASSUME NEW i \in DOMAIN stored
               PROVE  EmbeddingDue(i)'
    BY <1>1 DEF EmbeddingsInv
  <2>1. EmbeddingDue(i) /\ stored[i].thread \in Threads
    BY StoredRows DEF IInv, EmbeddingsInv
  <2>2. CASE stored[i].thread = t
    BY <1>1, <1>5, <2>2 DEF EmbeddingDue, RowsOf
  <2>3. CASE stored[i].thread # t
    BY <1>1, <1>4, <1>5, <2>1, <2>3 DEF EmbeddingDue, At, t
  <2> QED
    BY <2>2, <2>3
<1>9. SummariesInv'
  <2>1. SummariesGoOn
    BY <1>1 DEF SummariesGoOn, summaryVars
  <2> QED
    BY <1>1, <2>1, SummariesStay DEF IInv, summaryVars
<1> QED
  BY <1>6, <1>7, <1>8, <1>9 DEF IInv

-----------------------------------------------------------------------------
(***************************************************************************)
(* The workers.                                                            *)
(***************************************************************************)

LEMMA RowsAreNumbers ==
  ASSUME ConversationTypes, NEW t
  PROVE  RowsOf(t) \in SetsOfRows /\ RowsOf(t) \subseteq DOMAIN stored
  BY StoredRows DEF RowsOf, SetsOfRows

\* The requests do not notice what the workers do.
LEMMA WorkersOnly ==
  ASSUME IInv, UNCHANGED <<customer, stored, webhook, overlapped, clock>>
  PROVE  SentBefore' /\ CustomersInv'
<1>1. SentBefore'
  BY DEF IInv, SentBefore
<1>2. CustomersInv'
  BY CustomersStay DEF IInv, LookupsGoOn
<1> QED
  BY <1>1, <1>2

LEMMA TakeEmbedKeepsIInv ==
  ASSUME IInv, NEW w \in Workers, NEW t \in Threads, TakeEmbed(w, t)
  PROVE  IInv'
<1> DEFINE s == [at |-> "upsert", job |-> "embed", of |-> t, read |-> RowsOf(t)]
<1>1. /\ worker[w] = Idle /\ embedJobs[t] > 0
      /\ embedJobs' = [embedJobs EXCEPT ![t] = @ - 1]
      /\ worker' = [worker EXCEPT ![w] = s]
      /\ UNCHANGED <<threadVars, vectors, lost, summaryVars, clock>>
  BY DEF TakeEmbed
<1>2. /\ s \in Embedding /\ s.at = "upsert" /\ s.read = RowsOf(t) /\ s.of = t
  BY RowsAreNumbers DEF IInv, Embedding
<1> HIDE DEF s
<1>3. /\ worker' \in [Workers -> {Idle} \cup Embedding \cup Summarizing]
      /\ worker'[w] = s /\ \A x \in Workers \ {w} : worker'[x] = worker[x]
  BY <1>1, <1>2, WorkerMoves DEF IInv
<1>4. /\ embedJobs' \in [Threads -> Nat]
      /\ \A u \in Threads \ {t} : embedJobs'[u] = embedJobs[u]
  BY <1>1 DEF IInv, ConversationTypes
<1>5. ConversationTypes'
  BY <1>1, <1>3, <1>4 DEF IInv, ConversationTypes, threadVars, summaryVars
<1>6. SentBefore' /\ CustomersInv'
  BY <1>1, WorkersOnly DEF threadVars
<1>7. worker[w].at = "idle"
  BY <1>1 DEF Idle
<1>8. EmbeddingsInv'
  <2> SUFFICES ASSUME NEW i \in DOMAIN stored
               PROVE  EmbeddingDue(i)'
    BY <1>1 DEF EmbeddingsInv, threadVars
  <2>1. EmbeddingDue(i) /\ stored[i].thread \in Threads
    BY StoredRows DEF IInv, EmbeddingsInv
  <2>2. CASE stored[i].thread = t
    BY <1>1, <1>2, <1>3, <2>2 DEF EmbeddingDue, RowsOf, threadVars
  <2>3. CASE stored[i].thread # t
    BY <1>1, <1>3, <1>4, <1>7, <2>1, <2>3 DEF EmbeddingDue, At, threadVars
  <2> QED
    BY <2>2, <2>3
<1>9. SummariesInv'
  <2>1. SummariesGoOn
    BY <1>1, <1>2, <1>3, <1>7 DEF SummariesGoOn, summaryVars, threadVars
  <2> QED
    BY <1>1, <2>1, SummariesStay DEF IInv, summaryVars, threadVars
<1> QED
  BY <1>5, <1>6, <1>8, <1>9 DEF IInv

LEMMA UpsertVectorsKeepsIInv ==
  ASSUME IInv, NEW w \in Workers, UpsertVectors(w)
  PROVE  IInv'
<1>1. /\ worker[w].at = "upsert" /\ vectors' = vectors \cup worker[w].read
      /\ worker' = [worker EXCEPT ![w] = Idle]
      /\ UNCHANGED <<threadVars, embedJobs, lost, summaryVars, clock>>
  BY DEF UpsertVectors
<1>2. Idle.at = "idle"
  BY DEF Idle
<1>3. /\ worker' \in [Workers -> {Idle} \cup Embedding \cup Summarizing]
      /\ worker'[w] = Idle /\ \A x \in Workers \ {w} : worker'[x] = worker[x]
  BY <1>1, WorkerMoves DEF IInv
<1>4. ConversationTypes'
  BY <1>1, <1>3 DEF IInv, ConversationTypes, threadVars, summaryVars
<1>5. SentBefore' /\ CustomersInv'
  BY <1>1, WorkersOnly DEF threadVars
<1>6. EmbeddingsInv'
  <2> SUFFICES ASSUME NEW i \in DOMAIN stored
               PROVE  EmbeddingDue(i)'
    BY <1>1 DEF EmbeddingsInv, threadVars
  <2>1. EmbeddingDue(i)
    BY DEF IInv, EmbeddingsInv
  <2> QED
    BY <1>1, <1>3, <2>1 DEF EmbeddingDue, At, threadVars
<1>7. SummariesInv'
  <2>1. SummariesGoOn
    BY <1>1, <1>2, <1>3 DEF SummariesGoOn, summaryVars, threadVars
  <2> QED
    BY <1>1, <2>1, SummariesStay DEF IInv, summaryVars, threadVars
<1> QED
  BY <1>4, <1>5, <1>6, <1>7 DEF IInv

LEMMA TakenByAnotherKeepsIInv ==
  ASSUME IInv, NEW t \in Threads, TakenByAnother(t)
  PROVE  IInv'
<1>1. /\ embedJobs[t] > 0 /\ embedJobs' = [embedJobs EXCEPT ![t] = @ - 1]
      /\ lost' = lost \cup RowsOf(t)
      /\ UNCHANGED <<threadVars, vectors, summaryVars, worker, clock>>
  BY DEF TakenByAnother
<1>2. /\ embedJobs' \in [Threads -> Nat]
      /\ \A u \in Threads \ {t} : embedJobs'[u] = embedJobs[u]
  BY <1>1 DEF IInv, ConversationTypes
<1>3. ConversationTypes'
  BY <1>1, <1>2 DEF IInv, ConversationTypes, threadVars, summaryVars
<1>4. SentBefore' /\ CustomersInv'
  BY <1>1, WorkersOnly DEF threadVars
<1>5. EmbeddingsInv'
  <2> SUFFICES ASSUME NEW i \in DOMAIN stored
               PROVE  EmbeddingDue(i)'
    BY <1>1 DEF EmbeddingsInv, threadVars
  <2>1. EmbeddingDue(i) /\ stored[i].thread \in Threads
    BY StoredRows DEF IInv, EmbeddingsInv
  <2>2. CASE stored[i].thread = t
    BY <1>1, <2>2 DEF EmbeddingDue, RowsOf, threadVars
  <2>3. CASE stored[i].thread # t
    BY <1>1, <1>2, <2>1, <2>3 DEF EmbeddingDue, At, threadVars
  <2> QED
    BY <2>2, <2>3
<1>6. SummariesInv'
  <2>1. SummariesGoOn
    BY <1>1 DEF SummariesGoOn, summaryVars, threadVars
  <2> QED
    BY <1>1, <2>1, SummariesStay DEF IInv, summaryVars, threadVars
<1> QED
  BY <1>3, <1>4, <1>5, <1>6 DEF IInv

-----------------------------------------------------------------------------
(***************************************************************************)
(* Summaries.                                                              *)
(***************************************************************************)

\* There is a last message: the times of the messages are bounded by the clock.
LEMMA LastExists ==
  ASSUME IInv, NEW t, RowsOf(t) # {}
  PROVE  \E i \in RowsOf(t) : \A j \in RowsOf(t) : stored[i].sentAt >= stored[j].sentAt
<1> DEFINE S == RowsOf(t)
           Bounds == {n \in Nat : \A i \in S : stored[i].sentAt <= n}
<1>1. \A i \in S : stored[i].sentAt \in Nat /\ stored[i].sentAt <= clock
  BY StoredRows DEF IInv, SentBefore, RowsOf
<1>2. clock \in Bounds
  BY <1>1 DEF IInv, ConversationTypes
<1>3. PICK n \in Bounds : \A b \in Bounds : n <= b
  BY <1>2, LeastExists
<1>4. \E i \in S : stored[i].sentAt = n
  <2> SUFFICES ASSUME \A i \in S : stored[i].sentAt # n
               PROVE  FALSE
    OBVIOUS
  <2>1. PICK j \in S : TRUE
    OBVIOUS
  <2>2. \A i \in S : stored[i].sentAt < n
    BY <1>1, <1>3
  <2>3. n - 1 \in Nat /\ \A i \in S : stored[i].sentAt <= n - 1
    BY <1>1, <1>3, <2>1, <2>2
  <2> QED
    BY <1>3, <2>3
<1> QED
  BY <1>1, <1>3, <1>4

LEMMA SummarizedCovers ==
  ASSUME IInv, NEW t \in Threads, AlreadySummarized(t)
  PROVE  \A i \in RowsOf(t) : Covered(t, i)
<1>1. CASE RowsOf(t) = {}
  BY <1>1
<1>2. CASE RowsOf(t) # {}
  <2> SUFFICES ASSUME NEW i \in RowsOf(t)
               PROVE  Covered(t, i)
    OBVIOUS
  <2> DEFINE last == LastOf(RowsOf(t))
             time == conversation[t].summaryGeneratedAt
  <2>1. time # 0 /\ time >= stored[last].sentAt
    BY <1>2 DEF AlreadySummarized
  <2>2. last \in RowsOf(t) /\ stored[last].sentAt >= stored[i].sentAt
    <3>1. \E j \in RowsOf(t) : \A k \in RowsOf(t) : stored[j].sentAt >= stored[k].sentAt
      BY <1>2, LastExists
    <3> QED
      BY <3>1 DEF LastOf
  <2>4. stored[i].sentAt \in Nat /\ stored[last].sentAt \in Nat
    BY <2>2, StoredRows DEF IInv, RowsOf
  <2>5. time \in Nat
    BY DEF IInv, ConversationTypes, ConversationRow
  <2>6. ~(stored[i].sentAt > time)
    BY <2>1, <2>2, <2>4, <2>5
  <2> QED
    BY <2>1, <2>6 DEF IInv, SummariesInv, SummaryMissesLater
<1> QED
  BY <1>1, <1>2

LEMMA TakeSummaryKeepsIInv ==
  ASSUME IInv, NEW w \in Workers, NEW t \in Threads, TakeSummary(w, t)
  PROVE  IInv'
<1> DEFINE s == [at |-> "complete", job |-> "summary", of |-> t, read |-> RowsOf(t)]
<1>1. /\ worker[w] = Idle /\ summaryJobs[t] > 0
      /\ summaryJobs' = [summaryJobs EXCEPT ![t] = @ - 1]
      /\ worker' = IF AlreadySummarized(t) THEN worker ELSE [worker EXCEPT ![w] = s]
      /\ UNCHANGED <<threadVars, indexVars, asked, clock>>
  BY DEF TakeSummary
<1>2. s \in Summarizing /\ s.at = "complete" /\ s.read = RowsOf(t) /\ s.of = t
  BY RowsAreNumbers DEF IInv, Summarizing
<1> HIDE DEF s
<1>3. worker[w].at = "idle"
  BY <1>1 DEF Idle
<1>4. /\ worker' \in [Workers -> {Idle} \cup Embedding \cup Summarizing]
      /\ \A x \in Workers \ {w} : worker'[x] = worker[x]
      /\ worker'[w] = worker[w] \/ worker'[w] = s
      /\ ~AlreadySummarized(t) => worker'[w] = s
  BY <1>1, <1>2, WorkerMoves DEF IInv, ConversationTypes
<1>5. /\ summaryJobs' \in [Threads -> Nat]
      /\ \A u \in Threads \ {t} : summaryJobs'[u] = summaryJobs[u]
  BY <1>1 DEF IInv, ConversationTypes
<1>6. ConversationTypes'
  BY <1>1, <1>4, <1>5 DEF IInv, ConversationTypes, threadVars, indexVars
<1>7. SentBefore' /\ CustomersInv'
  BY <1>1, WorkersOnly DEF threadVars
<1>8. EmbeddingsInv'
  <2>1. EmbeddingsGoOn
    BY <1>1, <1>3, <1>4 DEF EmbeddingsGoOn, indexVars, threadVars
  <2> QED
    BY <1>1, <2>1, EmbeddingsStay DEF IInv, threadVars
<1>9. \A u : RowsOf(u)' = RowsOf(u)
  BY <1>1 DEF RowsOf, threadVars
<1>10. ReadIsStored' /\ SummaryIsStored'
  <2>1. ASSUME NEW x \in Workers, worker'[x].at = "complete", NEW u, u = worker'[x].of
        PROVE  worker'[x].read \subseteq RowsOf(u)
    <3>1. CASE worker'[x] = worker[x]
      BY <2>1, <3>1 DEF IInv, SummariesInv, ReadIsStored
    <3>2. CASE worker'[x] = s
      BY <1>2, <2>1, <3>2
    <3> QED
      BY <1>4, <3>1, <3>2
  <2>2. ReadIsStored'
    BY <1>1, <1>9, <2>1 DEF ReadIsStored, threadVars, RowsOf
  <2>3. SummaryIsStored'
    BY <1>1, <1>9 DEF IInv, SummariesInv, SummaryIsStored, threadVars
  <2> QED
    BY <2>2, <2>3
<1>11. \A u \in Threads : \A i \in RowsOf(u) : Covered(u, i) => Covered(u, i)'
  BY <1>1, <1>9, CoveredStays DEF IInv, SummariesInv, threadVars
<1>12. SummaryMissesLater'
  BY <1>1, <1>9, <1>11 DEF IInv, SummariesInv, SummaryMissesLater, threadVars
<1>13. AskedIsDue'
  <2> SUFFICES ASSUME NEW u \in Threads
               PROVE  /\ asked[u] \subseteq RowsOf(u)
                      /\ \/ \A i \in asked[u] : Covered(u, i)
                         \/ summaryJobs'[u] > 0
                         \/ \E x \in Workers : worker'[x].at = "complete" /\ worker'[x].of = u
    BY <1>1, <1>9, <1>11 DEF AskedIsDue, threadVars
  <2>1. /\ asked[u] \subseteq RowsOf(u)
        /\ \/ \A i \in asked[u] : Covered(u, i)
           \/ summaryJobs[u] > 0
           \/ \E x \in Workers : worker[x].at = "complete" /\ worker[x].of = u
    BY DEF IInv, SummariesInv, AskedIsDue
  <2>2. CASE u # t
    BY <1>3, <1>4, <1>5, <2>1, <2>2
  <2>3. CASE u = t /\ AlreadySummarized(t)
    BY <2>1, <2>3, SummarizedCovers
  <2>4. CASE u = t /\ ~AlreadySummarized(t)
    BY <1>2, <1>4, <2>1, <2>4
  <2> QED
    BY <2>2, <2>3, <2>4
<1> QED
  BY <1>6, <1>7, <1>8, <1>10, <1>12, <1>13 DEF IInv, SummariesInv

\* What is left out of a window is not newer than what is in it, nor than the
\* first message that did not fit.
LeftOut(S, kept, i) ==
  /\ kept # {} /\ \A k \in kept : stored[i].sentAt <= stored[k].sentAt
  /\ \E j \in S \ kept : /\ stored[i].sentAt <= stored[j].sentAt
                         /\ Chars(kept \cup {j}) > CONTEXT_CHARS

LEMMA WindowLeavesOldest ==
  ASSUME NEW S, NEW kept \in windowTranscript(S), NEW i \in S \ kept
  PROVE  LeftOut(S, kept, i)
<1>1. /\ kept # {} /\ kept \subseteq S
      /\ \A k \in kept, j \in S \ kept : stored[j].sentAt <= stored[k].sentAt
      /\ kept = S \/ \E j \in Latest(S \ kept) : Chars(kept \cup {j}) > CONTEXT_CHARS
  BY DEF windowTranscript
<1>2. PICK j \in Latest(S \ kept) : Chars(kept \cup {j}) > CONTEXT_CHARS
  BY <1>1
<1>3. j \in S \ kept /\ stored[i].sentAt <= stored[j].sentAt
  BY <1>2 DEF Latest
<1> QED
  BY <1>1, <1>2, <1>3 DEF LeftOut

LEMMA WriteSummaryKeepsIInv ==
  ASSUME IInv, NEW w \in Workers, WriteSummary(w)
  PROVE  IInv'
<1> DEFINE t == worker[w].of
           read == worker[w].read
<1>1. /\ worker[w].at = "complete"
      /\ late' = (late \ RowsOf(t)) \cup (RowsOf(t) \ read)
      /\ worker' = [worker EXCEPT ![w] = Idle]
      /\ UNCHANGED <<customer, stored, webhook, overlapped, indexVars, summaryVars, clock>>
  BY DEF WriteSummary
<1>2. PICK kept \in windowTranscript(read) :
        conversation' = [conversation EXCEPT ![t].summary = kept, ![t].summaryGeneratedAt = clock]
  BY DEF WriteSummary
<1> DEFINE new == [conversation[t] EXCEPT !.summary = kept, !.summaryGeneratedAt = clock]
<1>3. worker[w] \in Summarizing
  BY <1>1, WorkingState DEF IInv, ConversationTypes
<1>4. t \in Threads /\ read \in SetsOfRows /\ clock \in Nat
      /\ conversation \in [Threads -> ConversationRow]
  BY <1>3 DEF Summarizing, IInv, ConversationTypes
<1>5. read \subseteq RowsOf(t)
  BY <1>1 DEF IInv, SummariesInv, ReadIsStored
<1>6. kept \subseteq read
  BY DEF windowTranscript
<1> HIDE DEF t, read
<1>7. new \in ConversationRow /\ new.summary = kept
  BY <1>4, <1>6 DEF ConversationRow, SetsOfRows
<1>8. conversation' = [conversation EXCEPT ![t] = new]
  BY <1>2, <1>4, Zenon
<1> HIDE DEF new
<1>9. /\ conversation' \in [Threads -> ConversationRow] /\ conversation'[t] = new
      /\ \A u \in Threads \ {t} : conversation'[u] = conversation[u]
  BY <1>4, <1>7, <1>8
<1>10. Idle.at = "idle"
  BY DEF Idle
<1>11. /\ worker' \in [Workers -> {Idle} \cup Embedding \cup Summarizing]
       /\ worker'[w] = Idle /\ \A x \in Workers \ {w} : worker'[x] = worker[x]
  BY <1>1, WorkerMoves DEF IInv
<1>12. ConversationTypes'
  BY <1>1, <1>9, <1>11 DEF IInv, ConversationTypes, indexVars, summaryVars
<1>13. SentBefore' /\ CustomersInv'
  BY <1>1, WorkersOnly
<1>14. EmbeddingsInv'
  <2>1. EmbeddingsGoOn
    BY <1>1, <1>11 DEF EmbeddingsGoOn, indexVars
  <2> QED
    BY <1>1, <2>1, EmbeddingsStay DEF IInv
<1>15. \A u : RowsOf(u)' = RowsOf(u)
  BY <1>1 DEF RowsOf
<1>16. ReadIsStored' /\ SummaryIsStored'
  <2>1. ReadIsStored'
    BY <1>1, <1>10, <1>11, <1>15 DEF IInv, SummariesInv, ReadIsStored, RowsOf
  <2>2. SummaryIsStored'
    BY <1>5, <1>6, <1>7, <1>9, <1>15 DEF IInv, SummariesInv, SummaryIsStored
  <2> QED
    BY <2>1, <2>2
\* The new summary covers, leaves out or misses every row of its thread.
<1>17. ASSUME NEW u \in Threads, u = t, NEW i \in RowsOf(u) PROVE Covered(u, i)'
  <2>1. CASE i \notin read
    BY <1>1, <1>17, <2>1 DEF Covered
  <2>2. CASE i \in kept
    BY <1>7, <1>9, <1>17, <2>2 DEF Covered
  <2>3. CASE i \in read \ kept
    <3>1. LeftOut(read, kept, i)
      BY <1>2, <2>3, WindowLeavesOldest
    <3>2. PICK j \in read \ kept : /\ stored[i].sentAt <= stored[j].sentAt
                                   /\ Chars(kept \cup {j}) > CONTEXT_CHARS
      BY <3>1 DEF LeftOut
    <3>3. j \in RowsOf(u)' \ kept
      BY <1>5, <1>15, <1>17
    <3>4. Chars(kept \cup {j})' = Chars(kept \cup {j})
      BY <1>1 DEF Chars
    <3>5. conversation'[u].summary = kept
      BY <1>7, <1>9, <1>17
    <3>6. Omitted(u, i)'
      BY <1>1, <3>1, <3>2, <3>3, <3>4, <3>5 DEF Omitted, LeftOut
    <3> QED
      BY <3>6 DEF Covered
  <2> QED
    BY <2>1, <2>2, <2>3
\* Those of other threads stay as they are.
<1>18. ASSUME NEW u \in Threads \ {t}, NEW i \in RowsOf(u), Covered(u, i)
       PROVE  Covered(u, i)'
  <2>1. conversation'[u].summary = conversation[u].summary
    BY <1>9
  <2>2. i \notin RowsOf(t)
    BY DEF RowsOf
  <2>3. CASE i \in conversation[u].summary \cup late
    BY <1>1, <2>1, <2>2, <2>3 DEF Covered
  <2>4. CASE Omitted(u, i)
    <3>1. Omitted(u, i)'
      BY <1>1, <1>15, <2>1, <2>4 DEF Omitted, Chars
    <3> QED
      BY <3>1 DEF Covered
  <2> QED
    BY <1>18, <2>3, <2>4 DEF Covered
<1>19. SummaryMissesLater'
  <2> SUFFICES ASSUME NEW u \in Threads, NEW i \in RowsOf(u)
               PROVE  \/ Covered(u, i)'
                      \/ conversation'[u].summaryGeneratedAt = 0
                      \/ stored[i].sentAt > conversation'[u].summaryGeneratedAt
    BY <1>1, <1>15 DEF SummaryMissesLater
  <2>1. CASE u # t
    BY <1>9, <1>18, <2>1 DEF IInv, SummariesInv, SummaryMissesLater
  <2>2. CASE u = t
    BY <1>17, <2>2
  <2> QED
    BY <2>1, <2>2
<1>20. AskedIsDue'
  <2> SUFFICES ASSUME NEW u \in Threads
               PROVE  /\ asked[u] \subseteq RowsOf(u)
                      /\ \/ \A i \in asked[u] : Covered(u, i)'
                         \/ summaryJobs[u] > 0
                         \/ \E x \in Workers : worker'[x].at = "complete" /\ worker'[x].of = u
    BY <1>1, <1>15 DEF AskedIsDue, summaryVars
  <2>1. /\ asked[u] \subseteq RowsOf(u)
        /\ \/ \A i \in asked[u] : Covered(u, i)
           \/ summaryJobs[u] > 0
           \/ \E x \in Workers : worker[x].at = "complete" /\ worker[x].of = u
    BY DEF IInv, SummariesInv, AskedIsDue
  <2>2. CASE u = t
    BY <1>17, <2>1, <2>2
  <2>3. CASE u # t
    BY <1>11, <1>18, <2>1, <2>3 DEF t
  <2> QED
    BY <2>2, <2>3
<1> QED
  BY <1>12, <1>13, <1>14, <1>16, <1>19, <1>20 DEF IInv, SummariesInv

LEMMA RequestSummaryKeepsIInv ==
  ASSUME IInv, NEW t \in Threads, requestSummary(t)
  PROVE  IInv'
<1>1. /\ UNCHANGED <<threadVars, indexVars, worker, clock>>
      /\ \/ /\ summaryJobs' = [summaryJobs EXCEPT ![t] = @ + 1]
            /\ asked' = [asked EXCEPT ![t] = RowsOf(t)]
         \/ UNCHANGED <<summaryJobs, asked>>
  BY DEF requestSummary
<1>2. SentBefore' /\ CustomersInv'
  BY <1>1, WorkersOnly DEF threadVars
<1>3. EmbeddingsInv'
  <2>1. EmbeddingsGoOn
    BY <1>1 DEF EmbeddingsGoOn, indexVars, threadVars
  <2> QED
    BY <1>1, <2>1, EmbeddingsStay DEF IInv, threadVars
<1>4. CASE UNCHANGED <<summaryJobs, asked>>
  <2>1. ConversationTypes'
    BY <1>1, <1>4 DEF IInv, ConversationTypes, threadVars, indexVars
  <2>2. SummariesGoOn
    BY <1>1, <1>4 DEF SummariesGoOn, threadVars
  <2>3. SummariesInv'
    BY <1>1, <1>4, <2>2, SummariesStay DEF IInv, threadVars
  <2> QED
    BY <1>2, <1>3, <2>1, <2>3 DEF IInv
<1>5. CASE /\ summaryJobs' = [summaryJobs EXCEPT ![t] = @ + 1]
           /\ asked' = [asked EXCEPT ![t] = RowsOf(t)]
  <2>1. /\ summaryJobs' \in [Threads -> Nat] /\ summaryJobs'[t] > 0
        /\ \A u \in Threads \ {t} : summaryJobs'[u] = summaryJobs[u]
    BY <1>5 DEF IInv, ConversationTypes
  <2>2. /\ asked' \in [Threads -> SetsOfRows] /\ asked'[t] = RowsOf(t)
        /\ \A u \in Threads \ {t} : asked'[u] = asked[u]
    BY <1>5, RowsAreNumbers DEF IInv, ConversationTypes
  <2>3. ConversationTypes'
    BY <1>1, <2>1, <2>2 DEF IInv, ConversationTypes, threadVars, indexVars
  <2>4. \A u : RowsOf(u)' = RowsOf(u)
    BY <1>1 DEF RowsOf, threadVars
  <2>5. ReadIsStored' /\ SummaryIsStored'
    BY <1>1, <2>4 DEF IInv, SummariesInv, ReadIsStored, SummaryIsStored, threadVars, RowsOf
  <2>6. \A u \in Threads : \A i \in RowsOf(u) : Covered(u, i) => Covered(u, i)'
    BY <1>1, <2>4, CoveredStays DEF IInv, SummariesInv, threadVars
  <2>7. SummaryMissesLater'
    BY <1>1, <2>4, <2>6 DEF IInv, SummariesInv, SummaryMissesLater, threadVars
  <2>8. AskedIsDue'
    <3> SUFFICES ASSUME NEW u \in Threads
                 PROVE  /\ asked'[u] \subseteq RowsOf(u)
                        /\ \/ \A i \in asked'[u] : Covered(u, i)
                           \/ summaryJobs'[u] > 0
                           \/ \E x \in Workers : worker[x].at = "complete" /\ worker[x].of = u
      BY <1>1, <2>4, <2>6 DEF AskedIsDue, threadVars
    <3>1. CASE u = t
      BY <2>1, <2>2, <3>1
    <3>2. CASE u # t
      BY <2>1, <2>2, <3>2 DEF IInv, SummariesInv, AskedIsDue
    <3> QED
      BY <3>1, <3>2
  <2> QED
    BY <1>2, <1>3, <2>3, <2>5, <2>7, <2>8 DEF IInv, SummariesInv
<1> QED
  BY <1>1, <1>4, <1>5

LEMMA WorkFailsKeepsIInv ==
  ASSUME IInv, NEW w \in Workers, WorkFails(w)
  PROVE  IInv'
<1> DEFINE t == worker[w].of
<1>1. /\ worker[w] # Idle /\ worker' = [worker EXCEPT ![w] = Idle]
      /\ UNCHANGED <<threadVars, vectors, lost, asked, clock>>
      /\ IF worker[w].job = "embed"
         THEN embedJobs' = [embedJobs EXCEPT ![t] = @ + 1] /\ summaryJobs' = summaryJobs
         ELSE summaryJobs' = [summaryJobs EXCEPT ![t] = @ + 1] /\ embedJobs' = embedJobs
  BY DEF WorkFails, Again
<1>2. /\ worker[w] \in Embedding \cup Summarizing
      /\ worker[w].at = "upsert" => worker[w].job = "embed"
      /\ worker[w].at = "complete" => worker[w].job = "summary"
  BY <1>1, WorkingState DEF IInv, ConversationTypes
<1>3. t \in Threads
  BY <1>2 DEF Embedding, Summarizing
<1>4. Idle.at = "idle"
  BY DEF Idle
<1>5. /\ worker' \in [Workers -> {Idle} \cup Embedding \cup Summarizing]
      /\ worker'[w] = Idle /\ \A x \in Workers \ {w} : worker'[x] = worker[x]
  BY <1>1, WorkerMoves DEF IInv
<1>6. embedJobs \in [Threads -> Nat] /\ summaryJobs \in [Threads -> Nat]
  BY DEF IInv, ConversationTypes
<1> HIDE DEF t
<1>7. /\ embedJobs' \in [Threads -> Nat] /\ summaryJobs' \in [Threads -> Nat]
      /\ \A u \in Threads : embedJobs[u] > 0 => embedJobs'[u] > 0
      /\ \A u \in Threads : summaryJobs[u] > 0 => summaryJobs'[u] > 0
      /\ worker[w].at = "upsert" => embedJobs'[t] > 0
      /\ worker[w].at = "complete" => summaryJobs'[t] > 0
  <2>1. CASE worker[w].job = "embed"
    <3>1. embedJobs' = [embedJobs EXCEPT ![t] = @ + 1] /\ summaryJobs' = summaryJobs
      BY <1>1, <2>1
    <3>2. worker[w].at # "complete"
      BY <1>2, <2>1
    <3> QED
      BY <1>3, <1>6, <3>1, <3>2
  <2>2. CASE worker[w].job # "embed"
    <3>1. summaryJobs' = [summaryJobs EXCEPT ![t] = @ + 1] /\ embedJobs' = embedJobs
      BY <1>1, <2>2
    <3>2. worker[w].at # "upsert"
      BY <1>2, <2>2
    <3> QED
      BY <1>3, <1>6, <3>1, <3>2
  <2> QED
    BY <2>1, <2>2
<1>8. ConversationTypes'
  BY <1>1, <1>5, <1>7 DEF IInv, ConversationTypes, threadVars
<1>9. SentBefore' /\ CustomersInv'
  BY <1>1, WorkersOnly DEF threadVars
<1>10. EmbeddingsInv'
  <2> SUFFICES ASSUME NEW i \in DOMAIN stored
               PROVE  EmbeddingDue(i)'
    BY <1>1 DEF EmbeddingsInv, threadVars
  <2>1. EmbeddingDue(i) /\ stored[i].thread \in Threads
    BY StoredRows DEF IInv, EmbeddingsInv
  <2>2. CASE worker[w].at = "upsert" /\ worker[w].of = stored[i].thread
    BY <1>1, <1>7, <2>2 DEF EmbeddingDue, threadVars, t
  <2>3. CASE ~(worker[w].at = "upsert" /\ worker[w].of = stored[i].thread)
    BY <1>1, <1>5, <1>7, <2>1, <2>3 DEF EmbeddingDue, At, threadVars
  <2> QED
    BY <2>2, <2>3
<1>11. \A u : RowsOf(u)' = RowsOf(u)
  BY <1>1 DEF RowsOf, threadVars
<1>12. ReadIsStored' /\ SummaryIsStored'
  BY <1>1, <1>4, <1>5, <1>11
  DEF IInv, SummariesInv, ReadIsStored, SummaryIsStored, threadVars, RowsOf
<1>13. \A u \in Threads : \A i \in RowsOf(u) : Covered(u, i) => Covered(u, i)'
  BY <1>1, <1>11, CoveredStays DEF IInv, SummariesInv, threadVars
<1>14. SummaryMissesLater'
  BY <1>1, <1>11, <1>13 DEF IInv, SummariesInv, SummaryMissesLater, threadVars
<1>15. AskedIsDue'
  <2> SUFFICES ASSUME NEW u \in Threads
               PROVE  /\ asked[u] \subseteq RowsOf(u)
                      /\ \/ \A i \in asked[u] : Covered(u, i)
                         \/ summaryJobs'[u] > 0
                         \/ \E x \in Workers : worker'[x].at = "complete" /\ worker'[x].of = u
    BY <1>1, <1>11, <1>13 DEF AskedIsDue, threadVars
  <2>1. /\ asked[u] \subseteq RowsOf(u)
        /\ \/ \A i \in asked[u] : Covered(u, i)
           \/ summaryJobs[u] > 0
           \/ \E x \in Workers : worker[x].at = "complete" /\ worker[x].of = u
    BY DEF IInv, SummariesInv, AskedIsDue
  <2>2. CASE worker[w].at = "complete" /\ worker[w].of = u
    BY <1>7, <2>1, <2>2 DEF t
  <2>3. CASE ~(worker[w].at = "complete" /\ worker[w].of = u)
    BY <1>5, <1>7, <2>1, <2>3
  <2> QED
    BY <2>2, <2>3
<1> QED
  BY <1>8, <1>9, <1>10, <1>12, <1>14, <1>15 DEF IInv, SummariesInv

LEMMA TimePasses ==
  ASSUME IInv, Tick \/ UNCHANGED vars
  PROVE  IInv'
<1>1. /\ UNCHANGED <<threadVars, indexVars, summaryVars, worker>>
      /\ clock' \in Nat /\ clock' >= clock /\ clock \in Nat
  BY DEF Tick, vars, IInv, ConversationTypes
<1>2. ConversationTypes'
  BY <1>1 DEF IInv, ConversationTypes, threadVars, indexVars, summaryVars
<1>3. SentBefore'
  <2>1. \A i \in DOMAIN stored : stored[i].sentAt \in Nat
    BY StoredRows DEF IInv
  <2>2. \A w \in Webhooks : webhook[w] # Idle => webhook[w].of.sentAt \in Nat
    BY HandlingState DEF IInv, ConversationTypes, Handling, Message
  <2> QED
    BY <1>1, <2>1, <2>2 DEF IInv, SentBefore, threadVars
<1>4. CustomersInv'
  BY <1>1, CustomersStay DEF IInv, threadVars, LookupsGoOn
<1>5. EmbeddingsInv'
  <2>1. EmbeddingsGoOn
    BY <1>1 DEF EmbeddingsGoOn, indexVars, threadVars
  <2> QED
    BY <1>1, <2>1, EmbeddingsStay DEF IInv, threadVars
<1>6. SummariesInv'
  <2>1. SummariesGoOn
    BY <1>1 DEF SummariesGoOn, threadVars, summaryVars
  <2> QED
    BY <1>1, <2>1, SummariesStay DEF IInv, threadVars, summaryVars
<1> QED
  BY <1>2, <1>3, <1>4, <1>5, <1>6 DEF IInv

-----------------------------------------------------------------------------
(***************************************************************************)
(* The specification.                                                      *)
(***************************************************************************)

LEMMA InitIInv ==
  Init => IInv
<1> SUFFICES ASSUME Init
             PROVE  IInv
  OBVIOUS
<1>1. /\ customer = <<>> /\ stored = <<>> /\ DOMAIN customer = {} /\ DOMAIN stored = {}
      /\ conversation = [t \in Threads |-> NoConversation]
      /\ webhook = [w \in Webhooks |-> Idle] /\ worker = [w \in Workers |-> Idle]
      /\ asked = [t \in Threads |-> {}] /\ clock = 1
      /\ embedJobs = [t \in Threads |-> 0] /\ summaryJobs = [t \in Threads |-> 0]
  BY DEF Init
<1>2. ConversationTypes
  <2>1. NoConversation \in ConversationRow
    BY DEF NoConversation, ConversationRow, SetsOfRows
  <2>2. {} \in SetsOfRows
    BY DEF SetsOfRows
  <2> QED
    BY <1>1, <2>1, <2>2 DEF ConversationTypes
<1>3. Idle.at = "idle" /\ \A t : RowsOf(t) = {}
  BY <1>1 DEF Idle, RowsOf
<1>4. SentBefore /\ CustomersInv
  BY <1>1, <1>3 DEF SentBefore, CustomersInv, LookupsOverlap, NoneWasProvisioned, OneCustomerPerIdentity, At
<1>5. EmbeddingsInv /\ SummariesInv
  BY <1>1, <1>3 DEF EmbeddingsInv, SummariesInv, ReadIsStored, SummaryIsStored, NoConversation,
                      SummaryMissesLater, AskedIsDue
<1> QED
  BY <1>2, <1>4, <1>5 DEF IInv

LEMMA NextKeepsIInv ==
  IInv /\ [Next]_vars => IInv'
<1> SUFFICES ASSUME IInv, [Next]_vars
             PROVE  IInv'
  OBVIOUS
<1>1. CASE Tick \/ UNCHANGED vars
  BY <1>1, TimePasses
<1>2. CASE ConnectorController \/ ConversationController
  BY <1>2, ReceiveKeepsIInv, PostKeepsIInv, RequestSummaryKeepsIInv
  DEF ConnectorController, ConversationController, summarize
<1>3. ASSUME NEW w \in Webhooks, receive(w) \/ create(w)
      PROVE  IInv'
  BY <1>3, ProvisionKeepsIInv, RequestFailsKeepsIInv, UpsertConversationKeepsIInv,
     StoreMessageKeepsIInv, NotifyKeepsIInv DEF receive, create
<1>4. ASSUME NEW t \in Threads, TakenByAnother(t)
      PROVE  IInv'
  BY <1>4, TakenByAnotherKeepsIInv
<1>5. ASSUME NEW w \in Workers,
             \/ UpsertVectors(w) \/ WriteSummary(w) \/ WorkFails(w)
             \/ \E t \in Threads : TakeEmbed(w, t) \/ TakeSummary(w, t)
      PROVE  IInv'
  BY <1>5, UpsertVectorsKeepsIInv, WriteSummaryKeepsIInv, WorkFailsKeepsIInv,
     TakeEmbedKeepsIInv, TakeSummaryKeepsIInv
<1> QED
  BY <1>1, <1>2, <1>3, <1>4, <1>5 DEF Next

LEMMA SpecIInv ==
  Spec => []IInv
<1> QED
  BY InitIInv, NextKeepsIInv, PTL DEF Spec

\* Two customers of one address take two webhooks that both found none
\* (ConnectorService.resolveCustomer looks one up and creates it in two calls).
THEOREM AddressesHaveOneCustomer ==
  Spec => []OneCustomerPerIdentity
<1>1. IInv => OneCustomerPerIdentity
  BY DEF IInv, CustomersInv
<1> QED
  BY <1>1, SpecIInv, PTL

\* Redelivered, retried or taken by another processor: when its jobs are done
\* every message of a conversation is in the collection, or its job was lost
\* (ConversationService.create, ConversationEmbeddingProcessor).
THEOREM MessagesAreEmbedded ==
  Spec => []StoredIsEmbedded
<1>1. IInv => StoredIsEmbedded
  <2> SUFFICES ASSUME IInv, NEW t \in Threads, On(t) = {}, embedJobs[t] = 0,
                      Working(t, "embed") = {}, NEW i \in RowsOf(t)
               PROVE  i \in vectors \cup lost
    BY DEF StoredIsEmbedded
  <2>1. EmbeddingDue(i) /\ stored[i].thread = t
    BY DEF IInv, EmbeddingsInv, RowsOf
  <2>2. ASSUME NEW w \in Webhooks, At(w, "enqueue"), webhook[w].of.thread = t
        PROVE  FALSE
    BY <2>2 DEF On, At, Idle
  <2>3. ASSUME NEW w \in Workers, worker[w].at = "upsert", worker[w].of = t
        PROVE  FALSE
    <3>1. worker[w] # Idle /\ worker[w].job = "embed"
      BY <2>3, WorkingState DEF IInv, ConversationTypes
    <3> QED
      BY <2>3, <3>1 DEF Working
  <2> QED
    BY <2>1, <2>2, <2>3 DEF EmbeddingDue
<1> QED
  BY <1>1, SpecIInv, PTL

\* When its jobs are done a summary covers what was there when it was asked for,
\* but the oldest messages that its prompt has no room for, and those that came
\* between the read and the write or later with a time before it
\* (ConversationSummaryWorker.process, windowTranscript).
THEOREM SummariesCoverWhatWasAsked ==
  Spec => []AskedIsCovered
<1>1. IInv => AskedIsCovered
  <2> SUFFICES ASSUME IInv, NEW t \in Threads, summaryJobs[t] = 0, Working(t, "summary") = {},
                      NEW i \in asked[t] \ late
               PROVE  i \in conversation[t].summary \/ Omitted(t, i)
    BY DEF AskedIsCovered
  <2>1. ASSUME NEW w \in Workers, worker[w].at = "complete", worker[w].of = t
        PROVE  FALSE
    <3>1. worker[w] # Idle /\ worker[w].job = "summary"
      BY <2>1, WorkingState DEF IInv, ConversationTypes
    <3> QED
      BY <2>1, <3>1 DEF Working
  <2>2. Covered(t, i)
    BY <2>1 DEF IInv, SummariesInv, AskedIsDue
  <2> QED
    BY <2>2 DEF Covered
<1> QED
  BY <1>1, SpecIInv, PTL
=============================================================================
