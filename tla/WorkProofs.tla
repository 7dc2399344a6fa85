------------------------------ MODULE WorkProofs ------------------------------
(***************************************************************************)
(* Theorems about Work, for any number of processes, rules, entities,      *)
(* tasks and recommendations.                                              *)
(***************************************************************************)
EXTENDS Work, SequenceTheorems, FiniteSetTheorems, TLAPS

Keys == Signals \cup {"none"}
Pairs == Rules \X Entities

TaskRow ==
  [status : TaskStatuses, key : Keys, by : {<<>>} \cup Pairs, reopened : Nat]
RecommendationRow ==
  [product : Products, status : {"PENDING", "ORDERED", "DISMISSED"}, resolved : Nat,
   announced : BOOLEAN]

SetsOfRows == SUBSET Nat
ProductLists == Seq(Products)
Questions == ProductLists \ {<<>>}

Planning ==
  {s \in [job : {"plan"}, at : {"find", "create"}, todo : Seq(Keys)] : s.todo # <<>>}
Sweeping == [job : {"sweep"}, at : {"read", "complete"}, todo : SUBSET Nat]
RuleCopies == UNION {[active -> Editions] : active \in SUBSET Rules}
RulingSteps == {"fetch", "find", "fire"}
SetsOfPairs == SUBSET Pairs
SetsOfKinds == SUBSET TriggerEntities
PairOrNone == {<<>>} \cup Pairs
RulingRecords ==
  [job : {"rules"}, at : RulingSteps, rules : RuleCopies, left : SetsOfKinds,
   todo : SetsOfPairs, pair : PairOrNone, own : SetsOfRows]
CopiesCover(s) == \A x \in s.todo : x[1] \in DOMAIN s.rules
Ruling == {s \in RulingRecords : CopiesCover(s) /\ (s.at = "fire" => s.pair \in s.todo)}

BuyingSteps == {"find", "create", "notify"}
Buying ==
  {s \in [job : {"recommend"}, at : BuyingSteps, todo : ProductLists, new : SetsOfRows] :
     s.at # "notify" => s.todo \in Questions}
Resolving == [job : {"resolve"}, of : Nat, to : {"ORDERED", "DISMISSED"}]

ProcStates == {Idle} \cup Planning \cup Sweeping \cup Ruling \cup Buying

WorkTypes ==
  /\ task \in Seq(TaskRow) /\ Len(task) <= MaxTasks
  /\ proc \in [Processes -> ProcStates]
  /\ "rules" \in kinds => rule \in [Rules -> Editions]
  /\ runs \subseteq Pairs
  /\ notices \in [Pairs -> Nat]
  /\ recommendation \in Seq(RecommendationRow)
  /\ request \in [Requests -> {Idle} \cup Resolving]

-----------------------------------------------------------------------------
(* Planned tasks *)

\* Two plans in progress share the signals that overlapped, and no others.
SharedKeysOverlap ==
  \A p, q \in Processes :
    /\ p # q /\ proc[p].job = "plan" /\ proc[q].job = "plan"
    => KeysOf(proc[p].todo) \cap KeysOf(proc[q].todo) \subseteq overlapped

\* Between findFirst and create no task about the signal was opened, except by
\* a plan that overlaps or by somebody who reopened it.
NoneWasOpened ==
  \A p \in Processes : proc[p].job = "plan" /\ proc[p].at = "create" =>
    \A i \in Rows :
      Head(proc[p].todo) # "none" /\ Open(i) /\ task[i].key = Head(proc[p].todo) =>
        task[i].key \in overlapped \/ task[i].reopened > 0

PlansInv == SharedKeysOverlap /\ NoneWasOpened /\ OneOpenTaskPerSignal

(* Rules *)

\* The tasks a sweep of the rules has fetched are rows.
FetchedAreRows ==
  \A p \in Processes : proc[p].job = "rules" =>
    \A x \in proc[p].todo : Trigger[x[1]] = "TASK" => x[2] \in Rows

RulesInv == FetchedAreRows /\ NoCascade

(* Purchases *)

SharedProductsPair ==
  \A p, q \in Processes :
    /\ p # q
    /\ proc[p].job = "recommend" /\ proc[p].at # "notify"
    /\ proc[q].job = "recommend" /\ proc[q].at # "notify"
    => Asked(p) \cap Asked(q) \subseteq paired

\* Between findFirst and create no recommendation of the product appeared,
\* except by a sweep that asked about it at once.
NoneIsPending ==
  \A p \in Processes : proc[p].job = "recommend" /\ proc[p].at = "create" =>
    \A i \in Recommendations :
      /\ recommendation[i].status = "PENDING"
      /\ recommendation[i].product = Head(proc[p].todo)
      => recommendation[i].product \in paired

PurchasesInv == SharedProductsPair /\ NoneIsPending /\ OnePendingPerProduct

(* Requests *)

\* A request that is alone with its recommendation finds it as it loaded it.
RequestsInv ==
  /\ \A q \in Requests : request[q] # Idle =>
       /\ request[q].of \in Recommendations
       /\ request[q].of \notin raced => recommendation[request[q].of].status = "PENDING"
  /\ \A q, r \in Requests :
       q # r /\ request[q] # Idle /\ request[r] # Idle /\ request[q].of = request[r].of =>
         request[q].of \in raced
  /\ \A i \in Recommendations : i \notin raced =>
       /\ recommendation[i].status = "PENDING" => recommendation[i].resolved = 0
       /\ recommendation[i].resolved <= 1

IInv ==
  WorkTypes /\ PlansInv /\ FiresOncePerEntity /\ RulesInv /\ PurchasesInv /\ RequestsInv

-----------------------------------------------------------------------------
(***************************************************************************)
(* Sequences of rows, and the states of a process.                         *)
(***************************************************************************)

LEMMA AppendedRow ==
  ASSUME NEW R, NEW s \in Seq(R), NEW r \in R
  PROVE  /\ Append(s, r) \in Seq(R)
         /\ Len(Append(s, r)) = Len(s) + 1
         /\ DOMAIN s = 1..Len(s) /\ DOMAIN Append(s, r) = 1..(Len(s) + 1)
         /\ \A i \in DOMAIN s : Append(s, r)[i] = s[i]
         /\ Append(s, r)[Len(s) + 1] = r
  OBVIOUS

LEMMA ChangedRow ==
  ASSUME NEW R, NEW s \in Seq(R), NEW i \in DOMAIN s, NEW r \in R
  PROVE  /\ [s EXCEPT ![i] = r] \in Seq(R)
         /\ DOMAIN [s EXCEPT ![i] = r] = DOMAIN s
         /\ Len([s EXCEPT ![i] = r]) = Len(s)
  BY ExceptSeq

LEMMA RestOfSeq ==
  ASSUME NEW S, NEW s \in Seq(S), s # <<>>
  PROVE  /\ Head(s) \in S /\ Head(s) \in {s[n] : n \in DOMAIN s}
         /\ Tail(s) \in Seq(S)
         /\ Len(s) # 1 => Tail(s) # <<>>
         /\ Len(s) > 1 => Tail(s) # <<>>
         /\ {Tail(s)[n] : n \in DOMAIN Tail(s)} \subseteq {s[n] : n \in DOMAIN s}
<1>1. Len(s) \in Nat \ {0} /\ DOMAIN s = 1..Len(s) /\ Head(s) = s[1]
  OBVIOUS
<1>2. /\ Tail(s) \in Seq(S) /\ Len(Tail(s)) = Len(s) - 1
      /\ DOMAIN Tail(s) = 1..(Len(s) - 1)
      /\ \A n \in 1..(Len(s) - 1) : Tail(s)[n] = s[n + 1]
  BY <1>1
<1>3. \A n \in 1..(Len(s) - 1) : n + 1 \in 1..Len(s)
  BY <1>1
<1>4. Len(s) # 1 => Tail(s) # <<>>
  BY <1>1, <1>2
<1>5. Len(s) > 1 => Tail(s) # <<>>
  <2>1. \A n \in Nat : n > 1 => n # 1
    OBVIOUS
  <2> QED
    BY <1>1, <1>4, <2>1, Zenon
<1>6. Head(s) \in S
  BY <1>1
<1> QED
  BY <1>1, <1>2, <1>3, <1>4, <1>5, <1>6

\* A process is at work on the job its record names.
LEMMA JobOfState ==
  ASSUME NEW s \in ProcStates
  PROVE  /\ s.job = "plan" => s \in Planning
         /\ s.job = "sweep" => s \in Sweeping
         /\ s.job = "rules" => s \in Ruling
         /\ s.job = "recommend" => s \in Buying
         /\ Idle.job = "none"
<1>1. Idle.job = "none"
  BY DEF Idle
<1>2. s \in Planning => s.job = "plan"
  BY Zenon DEF Planning
<1>3. s \in Sweeping => s.job = "sweep"
  BY Zenon DEF Sweeping
<1>4. s \in Ruling => s.job = "rules"
  BY Zenon DEF Ruling, RulingRecords
<1>5. s \in Buying => s.job = "recommend"
  BY Zenon DEF Buying
<1> QED
  BY <1>1, <1>2, <1>3, <1>4, <1>5 DEF ProcStates

LEMMA BecomesState ==
  ASSUME proc \in [Processes -> ProcStates], NEW p \in Processes, NEW s \in ProcStates,
         Becomes(p, s)
  PROVE  /\ proc' \in [Processes -> ProcStates]
         /\ proc'[p] = s
         /\ \A q \in Processes \ {p} : proc'[q] = proc[q]
  BY DEF Becomes

LEMMA RestOfPlan ==
  ASSUME NEW p \in Processes, proc[p] \in Planning
  PROVE  /\ PlanRest(p) \in ProcStates
         /\ PlanRest(p).job = "plan" =>
              /\ PlanRest(p).at = "find"
              /\ KeysOf(PlanRest(p).todo) \subseteq KeysOf(proc[p].todo)
<1> DEFINE s == proc[p]
<1>1. s \in [job : {"plan"}, at : {"find", "create"}, todo : Seq(Keys)] /\ s.todo # <<>>
  BY DEF Planning
<1>2. CASE Len(s.todo) = 1
  BY <1>2 DEF PlanRest, ProcStates, Idle
<1>3. CASE Len(s.todo) # 1
  <2>1. PlanRest(p) = [s EXCEPT !.at = "find", !.todo = Tail(s.todo)]
    BY <1>3 DEF PlanRest
  <2>2. /\ Tail(s.todo) \in Seq(Keys) /\ Tail(s.todo) # <<>>
        /\ KeysOf(Tail(s.todo)) \subseteq KeysOf(s.todo)
    BY <1>1, <1>3, RestOfSeq DEF KeysOf
  <2>3. /\ PlanRest(p) \in Planning /\ PlanRest(p).at = "find"
        /\ PlanRest(p).todo = Tail(s.todo)
    BY <1>1, <2>1, <2>2 DEF Planning
  <2> QED
    BY <2>2, <2>3 DEF ProcStates
<1> QED
  BY <1>2, <1>3

LEMMA BuyingRecord ==
  ASSUME NEW A, NEW S, NEW N, NEW s \in [job : {"recommend"}, at : A, todo : S, new : N],
         NEW at \in A, NEW todo \in S, NEW new \in N
  PROVE  LET t == [s EXCEPT !.at = at, !.todo = todo, !.new = new] IN
           /\ t \in [job : {"recommend"}, at : A, todo : S, new : N]
           /\ t.job = "recommend" /\ t.at = at /\ t.todo = todo
  OBVIOUS

LEMMA FieldsOfBuying ==
  ASSUME NEW s \in Buying
  PROVE  /\ s.job = "recommend" /\ s.at \in BuyingSteps
         /\ s.todo \in ProductLists /\ s.new \in SetsOfRows
         /\ s.at # "notify" => s.todo \in Questions
  BY Zenon DEF Buying

BuyingNext(s, at, todo, new) == [s EXCEPT !.at = at, !.todo = todo, !.new = new]

LEMMA NextOfBuying ==
  ASSUME NEW s \in Buying, NEW at \in BuyingSteps,
         NEW todo \in ProductLists, NEW new \in SetsOfRows, at # "notify" => todo \in Questions
  PROVE  /\ BuyingNext(s, at, todo, new) \in ProcStates
         /\ BuyingNext(s, at, todo, new).job = "recommend"
         /\ BuyingNext(s, at, todo, new).at = at
         /\ BuyingNext(s, at, todo, new).todo = todo
<1> DEFINE records == [job : {"recommend"}, at : BuyingSteps, todo : ProductLists,
                       new : SetsOfRows]
           t == BuyingNext(s, at, todo, new)
<1>1. s \in records
  BY DEF Buying
<1>2. t \in records /\ t.job = "recommend" /\ t.at = at /\ t.todo = todo
  BY <1>1, BuyingRecord, Zenon DEF BuyingNext
<1>3. t \in Buying
  BY <1>2, Zenon DEF Buying
<1> QED
  BY <1>2, <1>3, Zenon DEF ProcStates

LEMMA CreatingState ==
  ASSUME NEW s \in Buying, s.at # "notify"
  PROVE  LET t == [s EXCEPT !.at = "create"] IN
           t \in ProcStates /\ t.job = "recommend" /\ t.at = "create" /\ t.todo = s.todo
<1> DEFINE t == [s EXCEPT !.at = "create"]
           records == [job : {"recommend"}, at : BuyingSteps, todo : ProductLists,
                       new : SetsOfRows]
<1>1. s \in records /\ s.todo \in Questions
  BY Zenon DEF Buying
<1>2. "create" \in BuyingSteps
  BY DEF BuyingSteps
<1>3. t \in records /\ t.job = "recommend" /\ t.at = "create" /\ t.todo = s.todo
  BY <1>1, <1>2
<1> HIDE DEF t, records
<1>4. t \in Buying
  BY <1>1, <1>3, Zenon DEF Buying, records
<1> QED
  BY <1>3, <1>4, Zenon DEF t, ProcStates

LEMMA RestOfAnswer ==
  ASSUME NEW p \in Processes, proc[p] \in Buying, proc[p].at # "notify", NEW new \in SetsOfRows
  PROVE  /\ AnswerRest(p, new) \in ProcStates
         /\ AnswerRest(p, new).job \in {"recommend", "none"}
         /\ AnswerRest(p, new).job = "recommend" /\ AnswerRest(p, new).at # "notify" =>
              /\ AnswerRest(p, new).at = "find"
              /\ {AnswerRest(p, new).todo[n] : n \in DOMAIN AnswerRest(p, new).todo}
                   \subseteq Asked(p)
<1>1. PICK s \in Buying : s = proc[p]
  OBVIOUS
<1>2. s.todo \in ProductLists /\ s.todo # <<>>
  BY <1>1, FieldsOfBuying DEF Questions
<1>3. Asked(p) = {s.todo[n] : n \in DOMAIN s.todo}
  BY <1>1 DEF Asked
<1>4. CASE Len(s.todo) > 1
  <2>1. AnswerRest(p, new) = BuyingNext(s, "find", Tail(s.todo), new)
    BY <1>1, <1>4 DEF AnswerRest, BuyingNext
  <2>2. /\ Tail(s.todo) \in ProductLists /\ Tail(s.todo) # <<>>
        /\ {Tail(s.todo)[n] : n \in DOMAIN Tail(s.todo)} \subseteq Asked(p)
    BY <1>2, <1>3, <1>4, RestOfSeq DEF ProductLists
  <2>3. "find" \in BuyingSteps
    BY DEF BuyingSteps
  <2>4. PICK rest \in ProductLists : rest = Tail(s.todo) /\ rest \in Questions
    BY <2>2 DEF Questions
  <2>5. AnswerRest(p, new) = BuyingNext(s, "find", rest, new)
    BY <2>1, <2>4
  <2>6. /\ AnswerRest(p, new) \in ProcStates /\ AnswerRest(p, new).job = "recommend"
        /\ AnswerRest(p, new).at = "find"
        /\ AnswerRest(p, new).todo = rest
    BY <2>3, <2>4, <2>5, NextOfBuying
  <2> QED
    BY <2>2, <2>4, <2>6
<1>5. CASE ~(Len(s.todo) > 1) /\ new # {}
  <2>1. AnswerRest(p, new) = BuyingNext(s, "notify", <<>>, new)
    BY <1>1, <1>5 DEF AnswerRest, BuyingNext
  <2>2. "notify" \in BuyingSteps /\ <<>> \in ProductLists
    BY DEF BuyingSteps, ProductLists
  <2>3. /\ AnswerRest(p, new) \in ProcStates /\ AnswerRest(p, new).job = "recommend"
        /\ AnswerRest(p, new).at = "notify"
    BY <2>1, <2>2, NextOfBuying
  <2> QED
    BY <2>3
<1>6. CASE ~(Len(s.todo) > 1) /\ new = {}
  BY <1>1, <1>6 DEF AnswerRest, ProcStates, Idle
<1> QED
  BY <1>4, <1>5, <1>6

LEMMA RulingRecord ==
  ASSUME NEW A, NEW C, NEW L, NEW T, NEW P, NEW O,
         NEW s \in [job : {"rules"}, at : A, rules : C, left : L, todo : T, pair : P, own : O],
         NEW at \in A, NEW left \in L, NEW todo \in T, NEW pair \in P, NEW own \in O
  PROVE  /\ LET t == [s EXCEPT !.at = at] IN
              /\ t \in [job : {"rules"}, at : A, rules : C, left : L, todo : T, pair : P, own : O]
              /\ t.at = at /\ t.rules = s.rules /\ t.todo = s.todo /\ t.own = s.own
         /\ LET t == [s EXCEPT !.left = left, !.own = own, !.todo = todo] IN
              /\ t \in [job : {"rules"}, at : A, rules : C, left : L, todo : T, pair : P, own : O]
              /\ t.rules = s.rules /\ t.todo = todo /\ t.own = own
         /\ LET t == [s EXCEPT !.todo = todo] IN
              /\ t \in [job : {"rules"}, at : A, rules : C, left : L, todo : T, pair : P, own : O]
              /\ t.rules = s.rules /\ t.todo = todo /\ t.own = s.own
         /\ LET t == [s EXCEPT !.at = at, !.pair = pair] IN
              /\ t \in [job : {"rules"}, at : A, rules : C, left : L, todo : T, pair : P, own : O]
              /\ t.at = at /\ t.pair = pair
              /\ t.rules = s.rules /\ t.todo = s.todo /\ t.own = s.own
         /\ LET t == [s EXCEPT !.todo = todo, !.pair = pair, !.own = own] IN
              /\ t \in [job : {"rules"}, at : A, rules : C, left : L, todo : T, pair : P, own : O]
              /\ t.rules = s.rules /\ t.todo = todo /\ t.own = own
  OBVIOUS

LEMMA RulingAt ==
  ASSUME NEW s \in RulingRecords, CopiesCover(s), NEW at \in RulingSteps, at # "fire"
  PROVE  LET t == [s EXCEPT !.at = at] IN
           /\ t \in ProcStates
           /\ t.job = "rules" /\ t.at = at /\ t.todo = s.todo /\ t.own = s.own
<1> DEFINE t == [s EXCEPT !.at = at]
<1>1. t \in RulingRecords /\ t.at = at /\ t.rules = s.rules /\ t.todo = s.todo /\ t.own = s.own
  BY RulingRecord, Zenon DEF RulingRecords
<1> HIDE DEF t
<1>2. t \in Ruling /\ t.job = "rules"
  BY <1>1, Zenon DEF Ruling, CopiesCover, RulingRecords
<1> QED
  BY <1>1, <1>2 DEF t, ProcStates

\* The sweep goes on to the rest of its pairs, to another kind, or ends.
LEMMA GoesOn ==
  ASSUME proc \in [Processes -> ProcStates], NEW p \in Processes,
         NEW s \in RulingRecords, CopiesCover(s), Going(p, s)
  PROVE  /\ proc' \in [Processes -> ProcStates]
         /\ \A q \in Processes \ {p} : proc'[q] = proc[q]
         /\ proc'[p].job \in {"rules", "none"}
         /\ proc'[p].job = "rules" =>
              proc'[p].at # "fire" /\ proc'[p].todo = s.todo /\ proc'[p].own = s.own
<1>1. "find" \in RulingSteps /\ "fetch" \in RulingSteps
  BY DEF RulingSteps
<1>2. CASE s.todo # {}
  <2> DEFINE t == [s EXCEPT !.at = "find"]
  <2>1. Becomes(p, t)
    BY <1>2 DEF Going
  <2>2. t \in ProcStates /\ t.job = "rules" /\ t.at = "find" /\ t.todo = s.todo /\ t.own = s.own
    BY <1>1, RulingAt, Zenon
  <2> HIDE DEF t
  <2> QED
    BY <2>1, <2>2, BecomesState
<1>3. CASE s.todo = {} /\ s.left # {}
  <2> DEFINE t == [s EXCEPT !.at = "fetch"]
  <2>1. Becomes(p, t)
    BY <1>3 DEF Going
  <2>2. t \in ProcStates /\ t.job = "rules" /\ t.at = "fetch" /\ t.todo = s.todo /\ t.own = s.own
    BY <1>1, RulingAt, Zenon
  <2> HIDE DEF t
  <2> QED
    BY <2>1, <2>2, BecomesState
<1>4. CASE s.todo = {} /\ s.left = {}
  <2>1. Becomes(p, Idle)
    BY <1>4 DEF Going
  <2>2. Idle \in ProcStates /\ Idle.job = "none"
    BY DEF ProcStates, Idle
  <2> QED
    BY <2>1, <2>2, BecomesState
<1> QED
  BY <1>2, <1>3, <1>4

LEMMA TypedTasks ==
  ASSUME NEW t \in Seq(TaskRow)
  PROVE  /\ DOMAIN t = 1..Len(t) /\ Len(t) \in Nat
         /\ \A i \in DOMAIN t :
              /\ t[i] \in TaskRow /\ t[i].reopened \in Nat
              /\ t[i].by \in {<<>>} \cup Pairs
<1>1. DOMAIN t = 1..Len(t) /\ Len(t) \in Nat /\ \A i \in DOMAIN t : t[i] \in TaskRow
  OBVIOUS
<1>2. \A r \in TaskRow : r.reopened \in Nat /\ r.by \in {<<>>} \cup Pairs
  BY DEF TaskRow
<1> QED
  BY <1>1, <1>2, Zenon

LEMMA TypedRecommendations ==
  ASSUME NEW t \in Seq(RecommendationRow)
  PROVE  /\ DOMAIN t = 1..Len(t) /\ Len(t) \in Nat
         /\ \A i \in DOMAIN t : t[i] \in RecommendationRow /\ t[i].resolved \in Nat
<1>1. DOMAIN t = 1..Len(t) /\ Len(t) \in Nat /\ \A i \in DOMAIN t : t[i] \in RecommendationRow
  OBVIOUS
<1>2. \A r \in RecommendationRow : r.resolved \in Nat
  BY DEF RecommendationRow
<1> QED
  BY <1>1, <1>2, Zenon

-----------------------------------------------------------------------------
(***************************************************************************)
(* What a step that is about something else leaves to each part of the     *)
(* invariant.                                                              *)
(***************************************************************************)

PlansGoOn ==
  \A q \in Processes : proc'[q].job = "plan" =>
    /\ proc[q].job = "plan" /\ KeysOf(proc'[q].todo) \subseteq KeysOf(proc[q].todo)
    /\ proc'[q].at = "create" => proc'[q] = proc[q]

TasksGoOn ==
  \A i \in Rows' : task'[i].key # "none" /\ Open(i)' =>
    /\ i \in Rows /\ task'[i].key = task[i].key
    /\ (Open(i) /\ task'[i].reopened = task[i].reopened) \/ task'[i].reopened > 0

RunsGoOn ==
  runs' = runs /\ notices' = notices /\ \A x \in Pairs : TasksOf(x)' = TasksOf(x)

SweepsGoOn ==
  \A q \in Processes : proc'[q].job = "rules" =>
    /\ proc[q].job = "rules"
    /\ proc'[q].todo \subseteq proc[q].todo /\ proc'[q].own \subseteq proc[q].own

PurchasesGoOn ==
  \A q \in Processes : proc'[q].job = "recommend" /\ proc'[q].at # "notify" =>
    /\ proc[q].job = "recommend" /\ proc[q].at # "notify"
    /\ Asked(q)' \subseteq Asked(q)
    /\ proc'[q].at = "create" => proc'[q] = proc[q]

PendingGoesOn ==
  \A i \in Recommendations' : recommendation'[i].status = "PENDING" =>
    /\ i \in Recommendations /\ recommendation[i].status = "PENDING"
    /\ recommendation'[i].product = recommendation[i].product

StatusesGoOn ==
  \A i \in Recommendations' :
    \/ /\ i \in Recommendations
       /\ recommendation'[i].status = recommendation[i].status
       /\ recommendation'[i].resolved = recommendation[i].resolved
    \/ /\ i \notin Recommendations
       /\ recommendation'[i].status = "PENDING" /\ recommendation'[i].resolved = 0

LEMMA PlansStay ==
  ASSUME WorkTypes, WorkTypes', PlansInv, PlansGoOn, TasksGoOn, overlapped' = overlapped
  PROVE  PlansInv'
<1>1. SharedKeysOverlap'
  <2> SUFFICES ASSUME NEW p \in Processes, NEW q \in Processes, p # q,
                      proc'[p].job = "plan", proc'[q].job = "plan"
               PROVE  KeysOf(proc'[p].todo) \cap KeysOf(proc'[q].todo) \subseteq overlapped
    BY DEF SharedKeysOverlap, KeysOf
  <2>1. /\ proc[p].job = "plan" /\ KeysOf(proc'[p].todo) \subseteq KeysOf(proc[p].todo)
        /\ proc[q].job = "plan" /\ KeysOf(proc'[q].todo) \subseteq KeysOf(proc[q].todo)
    BY DEF PlansGoOn
  <2>2. KeysOf(proc[p].todo) \cap KeysOf(proc[q].todo) \subseteq overlapped
    BY <2>1 DEF PlansInv, SharedKeysOverlap
  <2> QED
    BY <2>1, <2>2
<1>2. \A i \in Rows' : task'[i].reopened \in Nat
  <2>1. task' \in Seq(TaskRow)
    BY DEF WorkTypes
  <2> QED
    BY <2>1, TypedTasks DEF Rows
<1>3. NoneWasOpened'
  <2> SUFFICES ASSUME NEW p \in Processes, proc'[p].job = "plan", proc'[p].at = "create",
                      NEW i \in Rows', Head(proc'[p].todo) # "none", Open(i)',
                      task'[i].key = Head(proc'[p].todo)
               PROVE  task'[i].key \in overlapped \/ task'[i].reopened > 0
    BY DEF NoneWasOpened
  <2>1. proc[p].job = "plan" /\ proc'[p] = proc[p]
    BY DEF PlansGoOn
  <2>2. /\ i \in Rows /\ task'[i].key = task[i].key
        /\ (Open(i) /\ task'[i].reopened = task[i].reopened) \/ task'[i].reopened > 0
    BY DEF TasksGoOn
  <2> QED
    BY <2>1, <2>2 DEF PlansInv, NoneWasOpened
<1>4. OneOpenTaskPerSignal'
  <2> SUFFICES ASSUME NEW i \in Rows', NEW j \in Rows', i # j, Open(i)', Open(j)',
                      task'[i].key # "none", task'[i].key = task'[j].key
               PROVE  task'[i].key \in overlapped \/ task'[i].reopened + task'[j].reopened > 0
    BY DEF OneOpenTaskPerSignal
  <2>1. /\ i \in Rows /\ task'[i].key = task[i].key
        /\ (Open(i) /\ task'[i].reopened = task[i].reopened) \/ task'[i].reopened > 0
    BY DEF TasksGoOn
  <2>2. /\ j \in Rows /\ task'[j].key = task[j].key
        /\ (Open(j) /\ task'[j].reopened = task[j].reopened) \/ task'[j].reopened > 0
    BY DEF TasksGoOn
  <2>3. CASE task'[i].reopened > 0 \/ task'[j].reopened > 0
    BY <1>2, <2>3
  <2>4. CASE ~(task'[i].reopened > 0 \/ task'[j].reopened > 0)
    BY <2>1, <2>2, <2>4 DEF PlansInv, OneOpenTaskPerSignal
  <2> QED
    BY <2>3, <2>4
<1> QED
  BY <1>1, <1>3, <1>4 DEF PlansInv

LEMMA RunsStay ==
  ASSUME FiresOncePerEntity, RunsGoOn
  PROVE  FiresOncePerEntity'
  BY DEF FiresOncePerEntity, RunsGoOn, Pairs

LEMMA SweepsStay ==
  ASSUME RulesInv, SweepsGoOn, Rows \subseteq Rows'
  PROVE  RulesInv'
  BY DEF RulesInv, FetchedAreRows, NoCascade, SweepsGoOn

LEMMA PurchasesStay ==
  ASSUME PurchasesInv, PurchasesGoOn, PendingGoesOn, paired' = paired
  PROVE  PurchasesInv'
<1>1. SharedProductsPair'
  BY DEF PurchasesInv, SharedProductsPair, PurchasesGoOn
<1>2. NoneIsPending'
  BY DEF PurchasesInv, NoneIsPending, PurchasesGoOn, PendingGoesOn
<1>3. OnePendingPerProduct'
  BY DEF PurchasesInv, OnePendingPerProduct, PendingGoesOn
<1> QED
  BY <1>1, <1>2, <1>3 DEF PurchasesInv

LEMMA RequestsStay ==
  ASSUME RequestsInv, StatusesGoOn, Recommendations \subseteq Recommendations',
         UNCHANGED <<request, raced>>
  PROVE  RequestsInv'
<1>1. ASSUME NEW q \in Requests, request'[q] # Idle
      PROVE  /\ request'[q].of \in Recommendations'
             /\ request'[q].of \notin raced' => recommendation'[request'[q].of].status = "PENDING"
  BY <1>1 DEF RequestsInv, StatusesGoOn
<1>2. ASSUME NEW q \in Requests, NEW r \in Requests, q # r, request'[q] # Idle,
             request'[r] # Idle, request'[q].of = request'[r].of
      PROVE  request'[q].of \in raced'
  BY <1>2 DEF RequestsInv
<1>3. ASSUME NEW i \in Recommendations', i \notin raced'
      PROVE  /\ recommendation'[i].status = "PENDING" => recommendation'[i].resolved = 0
             /\ recommendation'[i].resolved <= 1
  BY <1>3 DEF RequestsInv, StatusesGoOn
<1> QED
  BY <1>1, <1>2, <1>3 DEF RequestsInv

\* A process that works on one job leaves the other jobs' parts alone.
LEMMA OtherJobsGoOn ==
  ASSUME NEW p \in Processes, \A q \in Processes \ {p} : proc'[q] = proc[q]
  PROVE  /\ proc'[p].job # "plan" => PlansGoOn
         /\ proc'[p].job # "rules" => SweepsGoOn
         /\ proc'[p].job # "recommend" => PurchasesGoOn
<1>1. ASSUME proc'[p].job # "plan" PROVE PlansGoOn
  BY <1>1 DEF PlansGoOn
<1>2. ASSUME proc'[p].job # "rules" PROVE SweepsGoOn
  BY <1>2 DEF SweepsGoOn
<1>3. ASSUME proc'[p].job # "recommend" PROVE PurchasesGoOn
  BY <1>3 DEF PurchasesGoOn, Asked
<1> QED
  BY <1>1, <1>2, <1>3

LEMMA SameRows ==
  /\ task' = task => TasksGoOn /\ Rows \subseteq Rows'
  /\ UNCHANGED <<task, runs, notices>> => RunsGoOn
  /\ recommendation' = recommendation =>
       PendingGoesOn /\ StatusesGoOn /\ Recommendations \subseteq Recommendations'
<1>1. ASSUME task' = task PROVE TasksGoOn /\ Rows \subseteq Rows'
  BY <1>1 DEF TasksGoOn, Rows, Open
<1>2. ASSUME UNCHANGED <<task, runs, notices>> PROVE RunsGoOn
  BY <1>2 DEF RunsGoOn, TasksOf, Rows
<1>3. ASSUME recommendation' = recommendation
      PROVE  PendingGoesOn /\ StatusesGoOn /\ Recommendations \subseteq Recommendations'
  BY <1>3 DEF PendingGoesOn, StatusesGoOn, Recommendations
<1> QED
  BY <1>1, <1>2, <1>3

\* What the step of a process leaves to the parts it is not about.
LEMMA OtherParts ==
  ASSUME IInv, WorkTypes', NEW p \in Processes, \A q \in Processes \ {p} : proc'[q] = proc[q]
  PROVE  /\ proc'[p].job # "plan" /\ TasksGoOn /\ overlapped' = overlapped => PlansInv'
         /\ RunsGoOn => FiresOncePerEntity'
         /\ proc'[p].job # "rules" /\ Rows \subseteq Rows' => RulesInv'
         /\ proc'[p].job # "recommend" /\ PendingGoesOn /\ paired' = paired => PurchasesInv'
         /\ /\ StatusesGoOn /\ Recommendations \subseteq Recommendations'
            /\ UNCHANGED <<request, raced>>
            => RequestsInv'
  BY OtherJobsGoOn, PlansStay, RunsStay, SweepsStay, PurchasesStay, RequestsStay DEF IInv

\* A step of a process that only goes on with its own job.
LEMMA OnlyProcesses ==
  ASSUME IInv, NEW p \in Processes, \A q \in Processes \ {p} : proc'[q] = proc[q],
         proc' \in [Processes -> ProcStates],
         UNCHANGED <<kinds, task, rule, runs, notices, recommendation, request, raced>>
  PROVE  /\ WorkTypes'
         /\ proc'[p].job # "plan" /\ overlapped' = overlapped => PlansInv'
         /\ FiresOncePerEntity'
         /\ proc'[p].job # "rules" => RulesInv'
         /\ proc'[p].job # "recommend" /\ paired' = paired => PurchasesInv'
         /\ RequestsInv'
<1>1. WorkTypes'
  BY DEF IInv, WorkTypes
<1> QED
  BY <1>1, SameRows, OtherParts

-----------------------------------------------------------------------------
(***************************************************************************)
(* The planner.                                                            *)
(***************************************************************************)

LEMMA BeginPlanKeepsIInv ==
  ASSUME IInv, NEW p \in Processes, BeginPlan(p), UNCHANGED <<workflowVars, purchaseVars>>
  PROVE  IInv'
<1>1. PICK plan \in Plans({k \in Signals : HasSignal(k)}) :
        /\ Becomes(p, [job |-> "plan", at |-> "find", todo |-> plan])
        /\ overlapped' = overlapped \cup
             {k \in KeysOf(plan) : \E q \in Processes \ {p} :
                 proc[q].job = "plan" /\ k \in KeysOf(proc[q].todo)}
  BY DEF BeginPlan
<1>2. plan \in Seq(Keys) /\ plan # <<>>
  <2>1. PICK n \in 1..MaxPlan : plan \in [1..n -> {k \in Signals : HasSignal(k)} \cup {"none"}]
    BY DEF Plans
  <2>2. n \in Nat /\ plan \in [1..n -> Keys]
    BY <2>1, TasksAssumption DEF Keys
  <2>3. plan # <<>>
    BY <2>1, TasksAssumption
  <2> QED
    BY <2>2, <2>3
<1> DEFINE s == [job |-> "plan", at |-> "find", todo |-> plan]
<1>3. s \in ProcStates /\ s.job = "plan" /\ s.at = "find" /\ s.todo = plan
  BY <1>2 DEF ProcStates, Planning
<1> HIDE DEF s
<1>4. /\ proc' \in [Processes -> ProcStates] /\ proc'[p] = s
      /\ \A q \in Processes \ {p} : proc'[q] = proc[q]
  BY <1>1, <1>3, BecomesState DEF s, IInv, WorkTypes
<1>5. UNCHANGED <<kinds, task, rule, runs, notices, recommendation, request, raced, paired>>
  BY DEF BeginPlan, workflowVars, purchaseVars
<1>6. /\ WorkTypes' /\ FiresOncePerEntity' /\ RulesInv' /\ PurchasesInv' /\ RequestsInv'
  BY <1>3, <1>4, <1>5, OnlyProcesses
<1>7. SharedKeysOverlap'
  <2> SUFFICES ASSUME NEW q \in Processes, NEW r \in Processes, q # r,
                      proc'[q].job = "plan", proc'[r].job = "plan"
               PROVE  KeysOf(proc'[q].todo) \cap KeysOf(proc'[r].todo) \subseteq overlapped'
    BY DEF SharedKeysOverlap, KeysOf
  <2>1. CASE q # p /\ r # p
    BY <1>1, <1>4, <2>1 DEF IInv, PlansInv, SharedKeysOverlap
  <2>2. ASSUME NEW o \in Processes \ {p}, proc[o].job = "plan"
        PROVE  KeysOf(plan) \cap KeysOf(proc[o].todo) \subseteq overlapped'
    BY <1>1, <2>2
  <2>3. CASE q = p
    BY <1>3, <1>4, <2>2, <2>3
  <2>4. CASE r = p
    BY <1>3, <1>4, <2>2, <2>4
  <2> QED
    BY <2>1, <2>3, <2>4
<1>8. NoneWasOpened'
  BY <1>1, <1>3, <1>4, <1>5 DEF IInv, PlansInv, NoneWasOpened, Rows, Open
<1>9. OneOpenTaskPerSignal'
  BY <1>1, <1>5 DEF IInv, PlansInv, OneOpenTaskPerSignal, Rows, Open
<1> QED
  BY <1>6, <1>7, <1>8, <1>9 DEF IInv, PlansInv

LEMMA FindDuplicateKeepsIInv ==
  ASSUME IInv, NEW p \in Processes, FindDuplicate(p), UNCHANGED <<workflowVars, purchaseVars>>
  PROVE  IInv'
<1> DEFINE key == Head(proc[p].todo)
           existing == {i \in Rows : task[i].status \in OPEN_TASK_STATUSES /\ task[i].key = key}
<1>1. proc[p] \in Planning /\ proc[p].job = "plan"
  BY JobOfState DEF FindDuplicate, IInv, WorkTypes
<1>2. UNCHANGED <<kinds, task, rule, runs, notices, recommendation, request, raced, paired,
                  overlapped>>
  BY DEF FindDuplicate, workflowVars, purchaseVars
<1>3. CASE key # "none" /\ existing # {}
  <2>1. Becomes(p, PlanRest(p))
    BY <1>3 DEF FindDuplicate
  <2>2. /\ proc' \in [Processes -> ProcStates] /\ proc'[p] = PlanRest(p)
        /\ \A q \in Processes \ {p} : proc'[q] = proc[q]
    BY <1>1, <2>1, BecomesState, RestOfPlan DEF IInv, WorkTypes
  <2>3. PlanRest(p).job \in {"plan", "none"}
    BY <1>1 DEF PlanRest, Idle, Planning
  <2>4. PlansGoOn
    BY <1>1, <2>2, RestOfPlan DEF PlansGoOn
  <2>5. /\ WorkTypes' /\ FiresOncePerEntity' /\ RulesInv' /\ PurchasesInv' /\ RequestsInv'
    BY <1>2, <2>2, <2>3, OnlyProcesses
  <2>6. PlansInv'
    BY <1>2, <2>4, <2>5, PlansStay, SameRows DEF IInv
  <2> QED
    BY <2>5, <2>6 DEF IInv
<1>4. CASE ~(key # "none" /\ existing # {})
  <2> DEFINE s == [proc[p] EXCEPT !.at = "create"]
  <2>1. Becomes(p, s)
    BY <1>4 DEF FindDuplicate
  <2>2. s \in ProcStates /\ s.job = "plan" /\ s.at = "create" /\ s.todo = proc[p].todo
    BY <1>1 DEF ProcStates, Planning
  <2> HIDE DEF s
  <2>3. /\ proc' \in [Processes -> ProcStates] /\ proc'[p] = s
        /\ \A q \in Processes \ {p} : proc'[q] = proc[q]
    BY <2>1, <2>2, BecomesState DEF IInv, WorkTypes
  <2>4. /\ WorkTypes' /\ FiresOncePerEntity' /\ RulesInv' /\ PurchasesInv' /\ RequestsInv'
    BY <1>2, <2>2, <2>3, OnlyProcesses
  <2>5. SharedKeysOverlap'
    BY <1>1, <1>2, <2>2, <2>3 DEF IInv, PlansInv, SharedKeysOverlap
  <2>6. NoneWasOpened'
    <3> SUFFICES ASSUME NEW q \in Processes, proc'[q].job = "plan", proc'[q].at = "create",
                        NEW i \in Rows, Head(proc'[q].todo) # "none", Open(i),
                        task[i].key = Head(proc'[q].todo)
                 PROVE  task[i].key \in overlapped \/ task[i].reopened > 0
      BY <1>2 DEF NoneWasOpened, Rows, Open
    <3>1. CASE q = p
      <4>1. existing = {}
        BY <1>4, <2>2, <2>3, <3>1
      <4> QED
        BY <2>2, <2>3, <3>1, <4>1 DEF Open, OPEN_TASK_STATUSES
    <3>2. CASE q # p
      BY <2>3, <3>2 DEF IInv, PlansInv, NoneWasOpened
    <3> QED
      BY <3>1, <3>2
  <2>7. OneOpenTaskPerSignal'
    BY <1>2 DEF IInv, PlansInv, OneOpenTaskPerSignal, Rows, Open
  <2> QED
    BY <2>4, <2>5, <2>6, <2>7 DEF IInv, PlansInv
<1> QED
  BY <1>3, <1>4

LEMMA ToIdle ==
  ASSUME IInv, NEW p \in Processes, Becomes(p, Idle)
  PROVE  /\ proc' \in [Processes -> ProcStates]
         /\ proc'[p].job = "none" /\ \A q \in Processes \ {p} : proc'[q] = proc[q]
  BY BecomesState DEF IInv, WorkTypes, ProcStates, Idle

LEMMA PlanThrowsKeepsIInv ==
  ASSUME IInv, NEW p \in Processes, PlanThrows(p), UNCHANGED <<workflowVars, purchaseVars>>
  PROVE  IInv'
<1>1. Becomes(p, Idle)
  BY DEF PlanThrows
<1>2. UNCHANGED <<kinds, task, rule, runs, notices, recommendation, request, raced, paired,
                  overlapped>>
  BY DEF PlanThrows, workflowVars, purchaseVars
<1> QED
  BY <1>1, <1>2, ToIdle, OnlyProcesses DEF IInv

\* A row is added to tasks: what it leaves alone, whatever it is.
LEMMA TaskAdded ==
  ASSUME IInv, ~Full, NEW key \in Keys, NEW by \in {<<>>} \cup Pairs,
         task' = Append(task, NewTask(key, by))
  PROVE  /\ task' \in Seq(TaskRow) /\ Len(task') <= MaxTasks
         /\ Rows = 1..Len(task) /\ Rows' = 1..(Len(task) + 1) /\ Len(task) \in Nat
         /\ \A i \in Rows : task'[i] = task[i]
         /\ task'[Len(task) + 1] = NewTask(key, by)
<1>1. NewTask(key, by) \in TaskRow
  BY DEF NewTask, TaskRow, TaskStatuses
<1>2. task \in Seq(TaskRow) /\ Len(task) \in Nat /\ MaxTasks \in Nat
  BY TasksAssumption DEF IInv, WorkTypes
<1>3. /\ task' \in Seq(TaskRow) /\ Len(task') = Len(task) + 1
      /\ Rows = 1..Len(task) /\ Rows' = 1..(Len(task) + 1)
      /\ \A i \in Rows : task'[i] = task[i]
      /\ task'[Len(task) + 1] = NewTask(key, by)
  BY <1>1, <1>2, AppendedRow DEF Rows
<1>4. Len(task) + 1 <= MaxTasks
  BY <1>2 DEF Full
<1> QED
  BY <1>2, <1>3, <1>4

LEMMA CreatePlannedKeepsIInv ==
  ASSUME IInv, NEW p \in Processes, CreatePlanned(p), UNCHANGED <<workflowVars, purchaseVars>>
  PROVE  IInv'
<1> DEFINE key == Head(proc[p].todo)
           new == Len(task) + 1
<1>1. proc[p] \in Planning /\ proc[p].job = "plan" /\ proc[p].at = "create"
  BY JobOfState DEF CreatePlanned, IInv, WorkTypes
<1>2. key \in Keys /\ (key # "none" => key \in KeysOf(proc[p].todo))
  <2>1. proc[p].todo \in Seq(Keys) /\ proc[p].todo # <<>>
    BY <1>1 DEF Planning
  <2> QED
    BY <2>1, RestOfSeq DEF KeysOf
<1>3. /\ ~Full /\ task' = Append(task, NewTask(key, <<>>)) /\ Becomes(p, PlanRest(p))
      /\ UNCHANGED <<kinds, rule, runs, notices, recommendation, request, raced, paired,
                     overlapped>>
  BY DEF CreatePlanned, workflowVars, purchaseVars
<1> HIDE DEF key
<1>4. /\ task' \in Seq(TaskRow) /\ Len(task') <= MaxTasks
      /\ Rows = 1..Len(task) /\ Rows' = 1..new /\ Len(task) \in Nat
      /\ \A i \in Rows : task'[i] = task[i]
      /\ task'[new] = NewTask(key, <<>>)
  BY <1>2, <1>3, TaskAdded
<1>5. /\ proc' \in [Processes -> ProcStates] /\ proc'[p] = PlanRest(p)
      /\ \A q \in Processes \ {p} : proc'[q] = proc[q]
  BY <1>1, <1>3, BecomesState, RestOfPlan DEF IInv, WorkTypes
<1>6. PlanRest(p).job \in {"plan", "none"}
  BY <1>1 DEF PlanRest, Idle, Planning
<1>7. PlansGoOn
  BY <1>1, <1>5, RestOfPlan DEF PlansGoOn
<1>8. WorkTypes'
  BY <1>3, <1>4, <1>5 DEF IInv, WorkTypes
<1>9. RunsGoOn
  <2>1. \A x \in Pairs : x # <<>>
    BY DEF Pairs
  <2>2. task'[new].by = <<>>
    BY <1>4 DEF NewTask
  <2>3. \A x \in Pairs : {i \in Rows' : task'[i].by = x} = {i \in Rows : task[i].by = x}
    <3> SUFFICES ASSUME NEW x \in Pairs, NEW i \in 1..new
                 PROVE  task'[i].by = x <=> i \in 1..Len(task) /\ task[i].by = x
      BY <1>4
    <3> QED
      BY <1>4, <2>1, <2>2
  <2> QED
    BY <1>3, <2>3 DEF RunsGoOn, TasksOf
<1>10. FiresOncePerEntity' /\ RulesInv' /\ PurchasesInv' /\ RequestsInv'
  <2>1. Rows \subseteq Rows'
    BY <1>4
  <2> QED
    BY <1>3, <1>5, <1>6, <1>8, <1>9, <2>1, OtherParts, SameRows
<1>11. SharedKeysOverlap'
  <2> SUFFICES ASSUME NEW q \in Processes, NEW r \in Processes, q # r,
                      proc'[q].job = "plan", proc'[r].job = "plan"
               PROVE  KeysOf(proc'[q].todo) \cap KeysOf(proc'[r].todo) \subseteq overlapped
    BY <1>3 DEF SharedKeysOverlap, KeysOf
  <2> QED
    BY <1>7 DEF IInv, PlansInv, SharedKeysOverlap, PlansGoOn
<1>12. \A i \in Rows : Open(i) /\ task[i].key = key /\ key # "none" =>
         key \in overlapped \/ task[i].reopened > 0
  BY <1>1 DEF IInv, PlansInv, NoneWasOpened, key
<1>13. NoneWasOpened'
  <2> SUFFICES ASSUME NEW q \in Processes, proc'[q].job = "plan", proc'[q].at = "create",
                      NEW i \in 1..new, Head(proc'[q].todo) # "none",
                      task'[i].status \in {"TODO", "IN_PROGRESS"},
                      task'[i].key = Head(proc'[q].todo)
               PROVE  task'[i].key \in overlapped \/ task'[i].reopened > 0
    BY <1>3, <1>4 DEF NoneWasOpened, Open
  <2>1. q # p /\ proc'[q] = proc[q]
    BY <1>1, <1>5, <1>6, RestOfPlan
  <2>2. CASE i # new
    <3>1. i \in Rows /\ task'[i] = task[i]
      BY <1>4, <2>2
    <3> QED
      BY <2>1, <3>1 DEF IInv, PlansInv, NoneWasOpened, Open
  <2>3. CASE i = new
    <3>1. task'[i].key = key
      BY <1>4, <2>3 DEF NewTask
    <3>2. proc[q] \in Planning
      BY <2>1, JobOfState DEF IInv, WorkTypes
    <3>3. key \in KeysOf(proc[q].todo)
      <4>1. proc[q].todo \in Seq(Keys) /\ proc[q].todo # <<>>
        BY <3>2 DEF Planning
      <4> QED
        BY <2>1, <3>1, <4>1, RestOfSeq DEF KeysOf
    <3>4. key \in KeysOf(proc[p].todo)
      BY <1>2, <2>1, <3>1
    <3> QED
      BY <1>1, <2>1, <3>1, <3>3, <3>4 DEF IInv, PlansInv, SharedKeysOverlap
  <2> QED
    BY <2>2, <2>3
<1>14. OneOpenTaskPerSignal'
  <2> SUFFICES ASSUME NEW i \in 1..new, NEW j \in 1..new, i # j,
                      task'[i].status \in {"TODO", "IN_PROGRESS"},
                      task'[j].status \in {"TODO", "IN_PROGRESS"},
                      task'[i].key # "none", task'[i].key = task'[j].key
               PROVE  task'[i].key \in overlapped \/ task'[i].reopened + task'[j].reopened > 0
    BY <1>3, <1>4 DEF OneOpenTaskPerSignal, Open
  <2>1. \A k \in 1..new : task'[k].reopened \in Nat
    BY <1>4, TypedTasks DEF Rows
  <2>2. CASE i # new /\ j # new
    <3>1. i \in Rows /\ task'[i] = task[i] /\ j \in Rows /\ task'[j] = task[j]
      BY <1>4, <2>2
    <3> QED
      BY <3>1 DEF IInv, PlansInv, OneOpenTaskPerSignal, Open
  <2>3. ASSUME NEW k \in 1..new, k # new, task'[k].key = task'[new].key, task'[k].key # "none",
               task'[k].status \in {"TODO", "IN_PROGRESS"}
        PROVE  task'[k].key \in overlapped \/ task'[k].reopened > 0
    <3>1. k \in Rows /\ task'[k] = task[k]
      BY <1>4, <2>3
    <3>2. task'[new].key = key
      BY <1>4 DEF NewTask
    <3> QED
      BY <1>12, <2>3, <3>1, <3>2 DEF Open
  <2>4. CASE i = new
    BY <2>1, <2>3, <2>4
  <2>5. CASE j = new
    BY <2>1, <2>3, <2>5
  <2> QED
    BY <2>2, <2>4, <2>5
<1> QED
  BY <1>8, <1>10, <1>11, <1>13, <1>14 DEF IInv, PlansInv

-----------------------------------------------------------------------------
(***************************************************************************)
(* The auto-completion sweep, people and the other modules.                *)
(***************************************************************************)

LEMMA ChangedTask ==
  ASSUME IInv, NEW i \in Rows, NEW r \in TaskRow, r.by = task[i].by,
         task' = [task EXCEPT ![i] = r]
  PROVE  /\ task' \in Seq(TaskRow) /\ Len(task') <= MaxTasks /\ Rows' = Rows
         /\ task'[i] = r /\ \A j \in Rows \ {i} : task'[j] = task[j]
         /\ \A x \in Pairs : TasksOf(x)' = TasksOf(x)
<1>1. /\ task' \in Seq(TaskRow) /\ Len(task') = Len(task) /\ Len(task) <= MaxTasks
      /\ DOMAIN task' = DOMAIN task
  BY ChangedRow DEF Rows, IInv, WorkTypes
<1>2. task'[i] = r /\ \A j \in Rows \ {i} : task'[j] = task[j]
  BY <1>1 DEF Rows
<1>3. \A x \in Pairs : TasksOf(x)' = TasksOf(x)
  BY <1>1, <1>2 DEF TasksOf, Rows
<1> QED
  BY <1>1, <1>2, <1>3 DEF Rows

LEMMA BeginSweepKeepsIInv ==
  ASSUME IInv, NEW p \in Processes, BeginSweep(p), UNCHANGED <<workflowVars, purchaseVars>>
  PROVE  IInv'
<1>1. PICK batch \in FindMany(OpenTasks, BatchSize) :
        Becomes(p, [job |-> "sweep", at |-> "read",
                    todo |-> {i \in batch : task[i].key # "none"}])
  BY DEF BeginSweep
<1> DEFINE s == [job |-> "sweep", at |-> "read", todo |-> {i \in batch : task[i].key # "none"}]
<1>2. batch \subseteq Nat
  <2>1. batch \subseteq Rows
    BY DEF FindMany, OpenTasks
  <2> QED
    BY <2>1, TypedTasks DEF Rows, IInv, WorkTypes
<1>3. s \in ProcStates /\ s.job = "sweep"
  BY <1>2 DEF ProcStates, Sweeping
<1> HIDE DEF s
<1>4. /\ proc' \in [Processes -> ProcStates] /\ proc'[p] = s
      /\ \A q \in Processes \ {p} : proc'[q] = proc[q]
  BY <1>1, <1>3, BecomesState DEF s, IInv, WorkTypes
<1>5. UNCHANGED <<kinds, task, rule, runs, notices, recommendation, request, raced, paired,
                  overlapped>>
  BY DEF BeginSweep, workflowVars, purchaseVars
<1> QED
  BY <1>3, <1>4, <1>5, OnlyProcesses DEF IInv

LEMMA ReadSignalsKeepsIInv ==
  ASSUME IInv, NEW p \in Processes, ReadSignals(p), UNCHANGED <<workflowVars, purchaseVars>>
  PROVE  IInv'
<1> DEFINE resolved == {i \in proc[p].todo : Resolved(task[i].key)}
           s == [job |-> "sweep", at |-> "complete", todo |-> resolved]
<1>1. UNCHANGED <<kinds, task, rule, runs, notices, recommendation, request, raced, paired,
                  overlapped>>
  BY DEF ReadSignals, workflowVars, purchaseVars
<1>2. CASE resolved = {}
  <2>1. Becomes(p, Idle)
    BY <1>2 DEF ReadSignals
  <2> QED
    BY <1>1, <2>1, ToIdle, OnlyProcesses DEF IInv
<1>3. CASE resolved # {}
  <2>1. Becomes(p, s)
    BY <1>3 DEF ReadSignals
  <2>2. proc[p] \in Sweeping
    BY JobOfState DEF ReadSignals, IInv, WorkTypes
  <2>3. s \in ProcStates /\ s.job = "sweep"
    BY <2>2 DEF ProcStates, Sweeping
  <2> HIDE DEF s
  <2>4. /\ proc' \in [Processes -> ProcStates] /\ proc'[p] = s
        /\ \A q \in Processes \ {p} : proc'[q] = proc[q]
    BY <2>1, <2>3, BecomesState DEF IInv, WorkTypes
  <2> QED
    BY <1>1, <2>3, <2>4, OnlyProcesses DEF IInv
<1> QED
  BY <1>2, <1>3

LEMMA RestOfSweep ==
  ASSUME IInv, NEW p \in Processes, proc[p].job = "sweep", NEW i, Becomes(p, SweepRest(p, i))
  PROVE  /\ proc' \in [Processes -> ProcStates] /\ proc'[p].job \in {"sweep", "none"}
         /\ \A q \in Processes \ {p} : proc'[q] = proc[q]
<1>1. proc[p] \in Sweeping
  BY JobOfState DEF IInv, WorkTypes
<1>2. CASE proc[p].todo = {i}
  BY <1>2, ToIdle DEF SweepRest
<1>3. CASE proc[p].todo # {i}
  <2> DEFINE s == [proc[p] EXCEPT !.todo = proc[p].todo \ {i}]
  <2>1. Becomes(p, s)
    BY <1>3 DEF SweepRest
  <2>2. s \in ProcStates /\ s.job = "sweep"
    BY <1>1 DEF ProcStates, Sweeping
  <2> HIDE DEF s
  <2> QED
    BY <2>1, <2>2, BecomesState DEF IInv, WorkTypes
<1> QED
  BY <1>2, <1>3

LEMMA CompleteFailsKeepsIInv ==
  ASSUME IInv, NEW p \in Processes, CompleteFails(p), UNCHANGED <<workflowVars, purchaseVars>>
  PROVE  IInv'
<1>1. UNCHANGED <<kinds, task, rule, runs, notices, recommendation, request, raced, paired,
                  overlapped>>
  BY DEF CompleteFails, workflowVars, purchaseVars
<1>2. PICK i : Becomes(p, SweepRest(p, i))
  BY DEF CompleteFails
<1>3. proc[p].job = "sweep"
  BY DEF CompleteFails
<1> QED
  BY <1>1, <1>2, <1>3, RestOfSweep, OnlyProcesses DEF IInv

\* A change of a task that opens none without saying so.
LEMMA TaskMoves ==
  ASSUME IInv, WorkTypes', TasksGoOn, Rows' = Rows,
         \A x \in Pairs : TasksOf(x)' = TasksOf(x),
         \/ proc' = proc
         \/ \E p \in Processes : /\ \A q \in Processes \ {p} : proc'[q] = proc[q]
                                 /\ proc'[p].job \in {"sweep", "none"},
         UNCHANGED <<runs, notices, recommendation, request, raced, paired, overlapped>>
  PROVE  IInv'
<1>1. RunsGoOn
  BY DEF RunsGoOn
<1>2. PlansGoOn /\ SweepsGoOn /\ PurchasesGoOn
  <2>1. CASE proc' = proc
    BY <2>1 DEF PlansGoOn, SweepsGoOn, PurchasesGoOn, Asked
  <2>2. CASE \E p \in Processes : /\ \A q \in Processes \ {p} : proc'[q] = proc[q]
                                  /\ proc'[p].job \in {"sweep", "none"}
    BY <2>2, OtherJobsGoOn
  <2> QED
    BY <2>1, <2>2
<1> QED
  BY <1>1, <1>2, PlansStay, RunsStay, SweepsStay, PurchasesStay, RequestsStay, SameRows DEF IInv

LEMMA CompleteKeepsIInv ==
  ASSUME IInv, NEW p \in Processes, Complete(p), UNCHANGED <<workflowVars, purchaseVars>>
  PROVE  IInv'
<1>1. PICK i : /\ task' = IF Open(i) THEN [task EXCEPT ![i].status = "DONE"] ELSE task
               /\ Becomes(p, SweepRest(p, i))
  BY DEF Complete
<1>2. UNCHANGED <<kinds, rule, runs, notices, recommendation, request, raced, paired,
                  overlapped>>
  BY DEF Complete, workflowVars, purchaseVars
<1>3. /\ proc' \in [Processes -> ProcStates] /\ proc'[p].job \in {"sweep", "none"}
      /\ \A q \in Processes \ {p} : proc'[q] = proc[q]
  BY <1>1, RestOfSweep DEF Complete
<1>4. CASE task' = task
  BY <1>2, <1>3, <1>4, OnlyProcesses DEF IInv
<1>5. CASE i \in Rows /\ Open(i)
  <2> DEFINE r == [task[i] EXCEPT !.status = "DONE"]
  <2>1. task[i] \in TaskRow
    BY <1>5, TypedTasks DEF Rows, IInv, WorkTypes
  <2>2. r \in TaskRow /\ r.by = task[i].by /\ r.status = "DONE"
    BY <2>1 DEF TaskRow, TaskStatuses
  <2>3. task' = [task EXCEPT ![i] = r]
    BY <1>1, <1>5 DEF IInv, WorkTypes
  <2> HIDE DEF r
  <2>4. /\ task' \in Seq(TaskRow) /\ Len(task') <= MaxTasks /\ Rows' = Rows
        /\ task'[i] = r /\ \A j \in Rows \ {i} : task'[j] = task[j]
        /\ \A x \in Pairs : TasksOf(x)' = TasksOf(x)
    BY <1>5, <2>2, <2>3, ChangedTask
  <2>5. WorkTypes'
    BY <1>2, <1>3, <2>4 DEF IInv, WorkTypes
  <2>6. TasksGoOn
    BY <2>2, <2>4 DEF TasksGoOn, Open
  <2> QED
    BY <1>2, <1>3, <2>4, <2>5, <2>6, TaskMoves
<1>6. CASE i \notin Rows /\ Open(i)
  <2>1. task' = task
    BY <1>1, <1>6 DEF Rows, IInv, WorkTypes
  <2> QED
    BY <1>4, <2>1
<1> QED
  BY <1>1, <1>4, <1>5, <1>6

LEMMA TaskRecord ==
  ASSUME NEW S, NEW K, NEW B, NEW N, NEW t \in [status : S, key : K, by : B, reopened : N],
         NEW status \in S, NEW n \in N
  PROVE  LET r == [t EXCEPT !.status = status, !.reopened = n] IN
           /\ r \in [status : S, key : K, by : B, reopened : N]
           /\ r.by = t.by /\ r.key = t.key /\ r.status = status /\ r.reopened = n
  OBVIOUS

LEMMA UpdateStatusKeepsIInv ==
  ASSUME IInv, NEW i \in Rows, NEW status \in TaskStatuses, UpdateStatus(i, status),
         UNCHANGED <<workflowVars, purchaseVars>>
  PROVE  IInv'
<1> DEFINE opens == ~Open(i) /\ status \in {"TODO", "IN_PROGRESS"}
           r == [task[i] EXCEPT !.status = status,
                   !.reopened = IF opens THEN task[i].reopened + 1 ELSE task[i].reopened]
<1>1. task[i] \in TaskRow /\ task[i].reopened \in Nat
  BY TypedTasks DEF Rows, IInv, WorkTypes
<1>2. /\ r \in TaskRow /\ r.by = task[i].by /\ r.key = task[i].key /\ r.status = status
      /\ r.reopened = IF opens THEN task[i].reopened + 1 ELSE task[i].reopened
  <2>1. (IF opens THEN task[i].reopened + 1 ELSE task[i].reopened) \in Nat
    BY <1>1
  <2> QED
    BY <1>1, <2>1, TaskRecord, Zenon DEF TaskRow
<1>3. task' = [task EXCEPT ![i] = r]
  <2>1. task \in Seq(TaskRow) /\ i \in DOMAIN task
    BY DEF IInv, WorkTypes, Rows
  <2>2. task' = [task EXCEPT ![i].status = status,
                  ![i].reopened = IF opens THEN @ + 1 ELSE @]
    BY DEF UpdateStatus
  <2>3. \A j \in DOMAIN task : task'[j] = IF j = i THEN r ELSE task[j]
    BY <1>1, <2>1, <2>2 DEF TaskRow
  <2>4. task' = [j \in DOMAIN task |-> task'[j]]
    BY <2>1, <2>2
  <2> QED
    BY <2>1, <2>3, <2>4
<1> HIDE DEF r
<1>4. /\ task' \in Seq(TaskRow) /\ Len(task') <= MaxTasks /\ Rows' = Rows
      /\ task'[i] = r /\ \A j \in Rows \ {i} : task'[j] = task[j]
      /\ \A x \in Pairs : TasksOf(x)' = TasksOf(x)
  BY <1>2, <1>3, ChangedTask
<1>5. UNCHANGED <<kinds, rule, runs, notices, recommendation, request, raced, paired, proc,
                  overlapped>>
  BY DEF UpdateStatus, workflowVars, purchaseVars
<1>6. WorkTypes'
  BY <1>4, <1>5 DEF IInv, WorkTypes
<1>7. TasksGoOn
  <2> SUFFICES ASSUME NEW j \in Rows, task'[j].key # "none", Open(j)'
               PROVE  /\ task'[j].key = task[j].key
                      /\ \/ Open(j) /\ task'[j].reopened = task[j].reopened
                         \/ task'[j].reopened > 0
    BY <1>4 DEF TasksGoOn
  <2>1. CASE j # i
    BY <1>4, <2>1 DEF Open
  <2>2. CASE j = i /\ opens
    BY <1>1, <1>2, <1>4, <2>2
  <2>3. CASE j = i /\ ~opens
    BY <1>2, <1>4, <2>3 DEF Open
  <2> QED
    BY <2>1, <2>2, <2>3
<1> QED
  BY <1>4, <1>5, <1>6, <1>7, TaskMoves

LEMMA OthersKeepIInv ==
  ASSUME IInv,
         UNCHANGED <<kinds, task, proc, overlapped, runs, notices, purchaseVars>>,
         \/ rule' = rule
         \/ \E r \in Rules : UpdateRule(r)
  PROVE  IInv'
<1>1. WorkTypes'
  <2>1. "rules" \in kinds' => rule' \in [Rules -> Editions]
    BY DEF UpdateRule, IInv, WorkTypes
  <2> QED
    BY <2>1 DEF purchaseVars, IInv, WorkTypes
<1> QED
  BY <1>1, SameRows, TaskMoves DEF purchaseVars, TasksOf, Rows

-----------------------------------------------------------------------------
(***************************************************************************)
(* The sweep of the rules.                                                 *)
(***************************************************************************)

LEMMA RulingState ==
  ASSUME IInv, NEW p \in Processes, proc[p].job = "rules"
  PROVE  /\ proc[p] \in RulingRecords /\ CopiesCover(proc[p])
         /\ proc[p].todo \in SetsOfPairs /\ proc[p].left \in SetsOfKinds
         /\ proc[p].own \in SetsOfRows
         /\ proc[p].rules \in RuleCopies
         /\ proc[p].at = "fire" => proc[p].pair \in proc[p].todo
<1>1. proc[p] \in Ruling
  BY JobOfState DEF IInv, WorkTypes
<1>2. \A s \in Ruling : /\ s \in RulingRecords /\ CopiesCover(s)
                        /\ s.at = "fire" => s.pair \in s.todo
  BY DEF Ruling
<1>3. \A s \in RulingRecords : /\ s.todo \in SetsOfPairs /\ s.left \in SetsOfKinds
                               /\ s.own \in SetsOfRows /\ s.rules \in RuleCopies
  BY Zenon DEF RulingRecords
<1> QED
  BY <1>1, <1>2, <1>3, Zenon

LEMMA BeginRulesKeepsIInv ==
  ASSUME IInv, NEW p \in Processes, BeginRules(p), UNCHANGED purchaseVars
  PROVE  IInv'
<1>1. PICK active \in SUBSET Rules :
        Becomes(p, [job |-> "rules", at |-> "fetch", rules |-> [r \in active |-> rule[r]],
                    left |-> KindsOf(active), todo |-> {}, pair |-> <<>>, own |-> {}])
  BY DEF BeginRules, FindMany
<1> DEFINE s == [job |-> "rules", at |-> "fetch", rules |-> [r \in active |-> rule[r]],
                 left |-> KindsOf(active), todo |-> {}, pair |-> <<>>, own |-> {}]
<1>2. "rules" \in kinds
  BY DEF BeginRules, Begin, Requested
<1>3. /\ [r \in active |-> rule[r]] \in RuleCopies
      /\ KindsOf(active) \in SetsOfKinds
      /\ {} \in SetsOfPairs /\ <<>> \in PairOrNone /\ {} \in SetsOfRows
      /\ "fetch" \in RulingSteps
  <2>1. rule \in [Rules -> Editions]
    BY <1>2 DEF IInv, WorkTypes
  <2>2. [r \in active |-> rule[r]] \in [active -> Editions]
    BY <2>1
  <2>3. [r \in active |-> rule[r]] \in RuleCopies
    BY <2>2 DEF RuleCopies
  <2>4. KindsOf(active) \in SetsOfKinds
    BY WorkflowsAssumption DEF KindsOf, SetsOfKinds
  <2> QED
    BY <2>3, <2>4 DEF SetsOfPairs, PairOrNone, SetsOfRows, RulingSteps
<1>4. s \in RulingRecords
  BY <1>3 DEF RulingRecords
<1>5. s.job = "rules" /\ s.at = "fetch" /\ s.todo = {}
  BY Zenon
<1> HIDE DEF s
<1>6. s \in ProcStates
  <2>1. CopiesCover(s) /\ s.at # "fire"
    BY <1>5 DEF CopiesCover
  <2> QED
    BY <1>4, <2>1 DEF Ruling, ProcStates
<1>7. /\ proc' \in [Processes -> ProcStates] /\ proc'[p] = s
      /\ \A q \in Processes \ {p} : proc'[q] = proc[q]
  BY <1>1, <1>6, BecomesState DEF s, IInv, WorkTypes
<1>8. UNCHANGED <<kinds, task, rule, runs, notices, recommendation, request, raced, paired,
                  overlapped>>
  BY DEF BeginRules, workflowVars, purchaseVars
<1>9. /\ WorkTypes' /\ FiresOncePerEntity' /\ PlansInv' /\ PurchasesInv' /\ RequestsInv'
  BY <1>5, <1>7, <1>8, OnlyProcesses
<1>10. RulesInv'
  BY <1>5, <1>7, <1>8 DEF IInv, RulesInv, FetchedAreRows, NoCascade, Rows
<1> QED
  BY <1>9, <1>10 DEF IInv

\* A step of the sweep that leaves the rows alone.
LEMMA OnlyGoesOn ==
  ASSUME IInv, NEW p \in Processes, NEW s \in RulingRecords, CopiesCover(s), Going(p, s),
         \A x \in s.todo : Trigger[x[1]] = "TASK" => x[2] \in Rows /\ x[2] \notin s.own,
         UNCHANGED <<kinds, task, overlapped, workflowVars, purchaseVars>>
  PROVE  IInv'
<1>1. /\ proc' \in [Processes -> ProcStates] /\ \A q \in Processes \ {p} : proc'[q] = proc[q]
      /\ proc'[p].job \in {"rules", "none"}
      /\ proc'[p].job = "rules" => proc'[p].todo = s.todo /\ proc'[p].own = s.own
  BY GoesOn DEF IInv, WorkTypes
<1>2. UNCHANGED <<kinds, task, rule, runs, notices, recommendation, request, raced, paired,
                  overlapped>>
  BY DEF workflowVars, purchaseVars
<1>3. /\ WorkTypes' /\ FiresOncePerEntity' /\ PlansInv' /\ PurchasesInv' /\ RequestsInv'
  BY <1>1, <1>2, OnlyProcesses
<1>4. RulesInv'
  <2>1. ASSUME NEW q \in Processes, proc'[q].job = "rules", NEW x \in proc'[q].todo,
               Trigger[x[1]] = "TASK"
        PROVE  x[2] \in Rows /\ x[2] \notin proc'[q].own
    BY <1>1, <2>1 DEF IInv, RulesInv, FetchedAreRows, NoCascade
  <2> QED
    BY <1>2, <2>1 DEF RulesInv, FetchedAreRows, NoCascade, Rows
<1> QED
  BY <1>3, <1>4 DEF IInv

LEMMA FetchEntitiesKeepsIInv ==
  ASSUME IInv, NEW p \in Processes, FetchEntities(p), UNCHANGED purchaseVars
  PROVE  IInv'
<1>1. proc[p].job = "rules"
  BY DEF FetchEntities, At
<1>2. PICK kind \in proc[p].left : \E fetched \in FindMany(OfKind(kind), EntityBatchSize) :
        LET copies == proc[p].rules IN
          Going(p, [proc[p] EXCEPT !.left = @ \ {kind}, !.own = {},
                      !.todo = {x \in (DOMAIN copies) \X fetched :
                        Trigger[x[1]] = kind /\ evaluateConditions(copies[x[1]], x[2])}])
  BY DEF FetchEntities
<1>3. PICK fetched \in SUBSET OfKind(kind) :
        Going(p, [proc[p] EXCEPT !.left = @ \ {kind}, !.own = {},
                    !.todo = {x \in (DOMAIN proc[p].rules) \X fetched :
                      Trigger[x[1]] = kind /\ evaluateConditions(proc[p].rules[x[1]], x[2])}])
  BY <1>2 DEF FindMany
<1> DEFINE todo == {x \in (DOMAIN proc[p].rules) \X fetched :
                      Trigger[x[1]] = kind /\ evaluateConditions(proc[p].rules[x[1]], x[2])}
           left == proc[p].left \ {kind}
           own == {}
           s == [proc[p] EXCEPT !.left = left, !.own = own, !.todo = todo]
<1>4. kind \in TriggerEntities
  BY <1>1, RulingState DEF SetsOfKinds
<1>5. OfKind(kind) \subseteq Entities /\ (kind = "TASK" => OfKind(kind) = Rows)
  <2>1. Rows \subseteq 1..MaxTasks
    <3>1. Rows = 1..Len(task) /\ Len(task) \in Nat /\ Len(task) <= MaxTasks
      BY TypedTasks DEF Rows, IInv, WorkTypes
    <3> QED
      BY <3>1, TasksAssumption
  <2> QED
    BY <1>4, <2>1 DEF OfKind, Entities, Signals, TriggerEntities
<1>6. DOMAIN proc[p].rules \subseteq Rules
  BY <1>1, RulingState DEF RuleCopies
<1>7. todo \in SetsOfPairs /\ left \in SetsOfKinds /\ own \in SetsOfRows
  <2>1. todo \subseteq Pairs
    BY <1>5, <1>6 DEF Pairs
  <2> QED
    BY <1>1, <2>1, RulingState DEF SetsOfPairs, SetsOfKinds, SetsOfRows
<1>8. \A x \in todo : x[1] \in DOMAIN proc[p].rules /\ Trigger[x[1]] = kind /\ x[2] \in fetched
  OBVIOUS
<1>9. Going(p, s)
  BY <1>3
<1> HIDE DEF todo, left, own
<1>10. s \in RulingRecords /\ s.rules = proc[p].rules /\ s.todo = todo /\ s.own = own
  <2>1. proc[p] \in RulingRecords
    BY <1>1, RulingState
  <2> QED
    BY <1>7, <2>1, RulingRecord, Zenon DEF RulingRecords
<1> HIDE DEF s
<1>11. CopiesCover(s)
  BY <1>8, <1>10 DEF CopiesCover
<1>12. \A x \in s.todo : Trigger[x[1]] = "TASK" => x[2] \in Rows /\ x[2] \notin s.own
  BY <1>5, <1>8, <1>10 DEF own
<1>13. UNCHANGED <<kinds, task, overlapped, workflowVars, purchaseVars>>
  BY DEF FetchEntities
<1> QED
  BY <1>9, <1>10, <1>11, <1>12, <1>13, OnlyGoesOn

LEMMA FindRunKeepsIInv ==
  ASSUME IInv, NEW p \in Processes, FindRun(p), UNCHANGED purchaseVars
  PROVE  IInv'
<1>1. proc[p].job = "rules"
  BY DEF FindRun, At
<1>2. /\ proc[p] \in RulingRecords /\ CopiesCover(proc[p]) /\ proc[p].todo \subseteq Pairs
      /\ proc[p].todo \in SetsOfPairs /\ proc[p].own \in SetsOfRows
  BY <1>1, RulingState DEF SetsOfPairs
<1>3. PICK x \in proc[p].todo :
        IF x \in runs THEN Going(p, [proc[p] EXCEPT !.todo = @ \ {x}])
        ELSE Becomes(p, [proc[p] EXCEPT !.at = "fire", !.pair = x])
  BY DEF FindRun
<1>4. UNCHANGED <<kinds, task, overlapped, workflowVars, purchaseVars>>
  BY DEF FindRun
<1>5. \A y \in proc[p].todo : Trigger[y[1]] = "TASK" => y[2] \in Rows /\ y[2] \notin proc[p].own
  BY <1>1 DEF IInv, RulesInv, FetchedAreRows, NoCascade
<1>6. CASE x \in runs
  <2> DEFINE todo == proc[p].todo \ {x}
             s == [proc[p] EXCEPT !.todo = todo]
  <2>1. todo \in SetsOfPairs
    BY <1>2 DEF SetsOfPairs
  <2>2. Going(p, s)
    BY <1>3, <1>6
  <2> HIDE DEF todo
  <2>3. s \in RulingRecords /\ s.rules = proc[p].rules /\ s.todo = todo /\ s.own = proc[p].own
    BY <1>2, <2>1, RulingRecord, Zenon DEF RulingRecords
  <2> HIDE DEF s
  <2>4. CopiesCover(s)
    BY <1>2, <2>3 DEF CopiesCover, todo
  <2>5. \A y \in s.todo : Trigger[y[1]] = "TASK" => y[2] \in Rows /\ y[2] \notin s.own
    BY <1>5, <2>3 DEF todo
  <2> QED
    BY <1>4, <2>2, <2>3, <2>4, <2>5, OnlyGoesOn
<1>7. CASE x \notin runs
  <2> DEFINE at == "fire"
             s == [proc[p] EXCEPT !.at = at, !.pair = x]
  <2>1. x \in PairOrNone /\ at \in RulingSteps
    BY <1>2 DEF PairOrNone, RulingSteps
  <2>2. Becomes(p, s)
    BY <1>3, <1>7
  <2> HIDE DEF at
  <2>3. /\ s \in RulingRecords /\ s.at = at /\ s.pair = x
        /\ s.rules = proc[p].rules /\ s.todo = proc[p].todo /\ s.own = proc[p].own
    BY <1>2, <2>1, RulingRecord, Zenon DEF RulingRecords
  <2> HIDE DEF s
  <2>4. s \in ProcStates
    BY <1>2, <2>3 DEF CopiesCover, Ruling, ProcStates
  <2>5. s.job = "rules"
    BY <2>3, Zenon DEF RulingRecords
  <2>6. /\ proc' \in [Processes -> ProcStates] /\ proc'[p] = s
        /\ \A q \in Processes \ {p} : proc'[q] = proc[q]
    BY <2>2, <2>4, BecomesState DEF IInv, WorkTypes
  <2>7. /\ WorkTypes' /\ FiresOncePerEntity' /\ PlansInv' /\ PurchasesInv' /\ RequestsInv'
    BY <1>4, <2>5, <2>6, OnlyProcesses DEF workflowVars, purchaseVars
  <2>8. SweepsGoOn
    BY <1>1, <2>3, <2>6 DEF SweepsGoOn
  <2>9. RulesInv'
    BY <1>4, <2>8, SameRows, SweepsStay DEF IInv
  <2> QED
    BY <2>7, <2>9 DEF IInv
<1> QED
  BY <1>6, <1>7

\* What firing a rule, or failing to, makes of the sweep.
LEMMA FiredGoesOn ==
  ASSUME IInv, NEW p \in Processes, proc[p].job = "rules", NEW new \in SetsOfRows, Fired(p, new)
  PROVE  \E s \in RulingRecords :
           /\ CopiesCover(s) /\ Going(p, s)
           /\ s.todo \subseteq proc[p].todo
           /\ s.own \subseteq proc[p].own \cup new
<1> DEFINE todo == Remaining(p, new)
           pair == <<>>
           own == IF Trigger[proc[p].pair[1]] = "TASK" THEN proc[p].own \cup new ELSE proc[p].own
           s == [proc[p] EXCEPT !.todo = todo, !.pair = pair, !.own = own]
<1>1. /\ proc[p] \in RulingRecords /\ CopiesCover(proc[p])
      /\ proc[p].todo \in SetsOfPairs /\ proc[p].own \in SetsOfRows
  BY RulingState
<1>2. todo \in SetsOfPairs /\ pair \in PairOrNone /\ own \in SetsOfRows
  BY <1>1 DEF SetsOfPairs, PairOrNone, SetsOfRows, Remaining
<1>3. Going(p, s)
  BY DEF Fired
<1>4. todo \subseteq proc[p].todo /\ own \subseteq proc[p].own \cup new
  BY DEF Remaining
<1> HIDE DEF todo, pair, own
<1>5. s \in RulingRecords /\ s.rules = proc[p].rules /\ s.todo = todo /\ s.own = own
  BY <1>1, <1>2, RulingRecord, Zenon DEF RulingRecords
<1> HIDE DEF s
<1>6. CopiesCover(s)
  BY <1>1, <1>4, <1>5 DEF CopiesCover
<1> QED
  BY <1>3, <1>4, <1>5, <1>6

LEMMA FireFailsKeepsIInv ==
  ASSUME IInv, NEW p \in Processes, FireFails(p), UNCHANGED purchaseVars
  PROVE  IInv'
<1>1. proc[p].job = "rules" /\ Fired(p, {}) /\ {} \in SetsOfRows
  BY DEF FireFails, At, SetsOfRows
<1>2. PICK s \in RulingRecords :
        CopiesCover(s) /\ Going(p, s) /\ s.todo \subseteq proc[p].todo /\ s.own \subseteq proc[p].own
  BY <1>1, FiredGoesOn
<1>3. \A x \in s.todo : Trigger[x[1]] = "TASK" => x[2] \in Rows /\ x[2] \notin s.own
  BY <1>1, <1>2 DEF IInv, RulesInv, FetchedAreRows, NoCascade
<1>4. UNCHANGED <<kinds, task, overlapped, workflowVars, purchaseVars>>
  BY DEF FireFails
<1> QED
  BY <1>2, <1>3, <1>4, OnlyGoesOn

LEMMA OneAtMost ==
  ASSUME NEW S, S = {} \/ \E i : S = {i}
  PROVE  Cardinality(S) <= 1
<1>1. Cardinality({}) = 0 /\ \A i : Cardinality({i}) = 1
  BY FS_EmptySet, FS_Singleton
<1>2. CASE S = {}
  BY <1>1, <1>2
<1>3. CASE \E i : S = {i}
  <2>1. PICK i : S = {i}
    BY <1>3
  <2>2. Cardinality(S) = 1
    BY <1>1, <2>1, Zenon
  <2> QED
    BY <2>2
<1> QED
  BY <1>2, <1>3

LEMMA NothingWasFired ==
  ASSUME IInv, NEW x \in Pairs, x \notin runs
  PROVE  TasksOf(x) = {} /\ notices[x] = 0
<1>1. TasksOf(x) = {} /\ ~(notices[x] > 0)
  BY DEF IInv, FiresOncePerEntity, Pairs
<1>2. notices[x] \in Nat
  BY DEF IInv, WorkTypes
<1> QED
  BY <1>1, <1>2

LEMMA FireKeepsIInv ==
  ASSUME IInv, NEW p \in Processes, Fire(p), UNCHANGED purchaseVars
  PROVE  IInv'
<1> DEFINE x == proc[p].pair
           actions == proc[p].rules[x[1]].actions
           new == IF "CREATE_TASK" \in actions THEN {Len(task) + 1} ELSE {}
<1>1. proc[p].job = "rules" /\ proc[p].at = "fire"
  BY DEF Fire, At
<1>2. /\ x \in proc[p].todo /\ x \in Pairs /\ CopiesCover(proc[p])
      /\ proc[p].rules \in RuleCopies
  BY <1>1, RulingState DEF SetsOfPairs
<1>3. actions \subseteq ActionTypes /\ actions # {}
  <2>1. x[1] \in DOMAIN proc[p].rules
    BY <1>2 DEF CopiesCover
  <2>2. proc[p].rules[x[1]] \in Editions
    BY <1>2, <2>1 DEF RuleCopies
  <2> QED
    BY <2>2, WorkflowsAssumption DEF validateActions
<1>4. /\ x \notin runs /\ (new # {} => ~Full)
      /\ runs' = runs \cup {x}
      /\ task' = IF new # {} THEN Append(task, NewTask("none", x)) ELSE task
      /\ notices' = IF "SEND_NOTIFICATION" \in actions
                    THEN [notices EXCEPT ![x] = @ + 1] ELSE notices
      /\ Fired(p, new)
  BY DEF Fire, Unique
<1>5. UNCHANGED <<kinds, overlapped, rule, recommendation, request, raced, paired>>
  BY DEF Fire, purchaseVars
<1>6. task \in Seq(TaskRow) /\ Rows = 1..Len(task) /\ Len(task) \in Nat /\ Len(task) <= MaxTasks
  BY TypedTasks DEF Rows, IInv, WorkTypes
<1>7. new \in SetsOfRows
  BY <1>6 DEF SetsOfRows
<1> HIDE DEF x, actions
<1>8. /\ task' \in Seq(TaskRow) /\ Len(task') <= MaxTasks
      /\ Rows \subseteq Rows' /\ Rows' = Rows \cup new
      /\ \A i \in Rows : task'[i] = task[i]
      /\ \A i \in new : i \notin Rows /\ task'[i] = NewTask("none", x)
  <2>1. CASE "CREATE_TASK" \in actions
    <3>1. ~Full /\ task' = Append(task, NewTask("none", x))
      BY <1>4, <2>1
    <3>2. "none" \in Keys /\ x \in {<<>>} \cup Pairs
      BY <1>2 DEF Keys
    <3> QED
      BY <1>6, <2>1, <3>1, <3>2, TaskAdded
  <2>2. CASE "CREATE_TASK" \notin actions
    BY <1>4, <1>6, <2>2 DEF Rows
  <2> QED
    BY <2>1, <2>2
<1>9. PICK s \in RulingRecords :
        /\ CopiesCover(s) /\ Going(p, s) /\ s.todo \subseteq proc[p].todo
        /\ s.own \subseteq proc[p].own \cup new
  BY <1>1, <1>4, <1>7, FiredGoesOn
<1>10. /\ proc' \in [Processes -> ProcStates] /\ \A q \in Processes \ {p} : proc'[q] = proc[q]
       /\ proc'[p].job \in {"rules", "none"}
       /\ proc'[p].job = "rules" => proc'[p].todo = s.todo /\ proc'[p].own = s.own
  BY <1>9, GoesOn DEF IInv, WorkTypes
<1>11. notices' \in [Pairs -> Nat] /\ runs' \subseteq Pairs
  BY <1>2, <1>4 DEF IInv, WorkTypes
<1>12. WorkTypes'
  BY <1>5, <1>8, <1>10, <1>11 DEF IInv, WorkTypes
<1>13. TasksGoOn
  BY <1>8 DEF TasksGoOn, NewTask, Open
<1>14. PlansInv' /\ PurchasesInv' /\ RequestsInv'
  BY <1>5, <1>10, <1>12, <1>13, OtherParts, SameRows
<1>15. RulesInv'
  <2>1. ASSUME NEW q \in Processes, proc'[q].job = "rules", NEW y \in proc'[q].todo,
               Trigger[y[1]] = "TASK"
        PROVE  y[2] \in Rows' /\ y[2] \notin proc'[q].own
    <3>1. CASE q = p
      <4>1. y \in proc[p].todo /\ proc'[p].own \subseteq proc[p].own \cup new
        BY <1>9, <1>10, <2>1, <3>1
      <4>2. y[2] \in Rows /\ y[2] \notin proc[p].own
        BY <1>1, <2>1, <4>1 DEF IInv, RulesInv, FetchedAreRows, NoCascade
      <4> QED
        BY <1>8, <3>1, <4>1, <4>2
    <3>2. CASE q # p
      BY <1>8, <1>10, <2>1, <3>2 DEF IInv, RulesInv, FetchedAreRows, NoCascade
    <3> QED
      BY <3>1, <3>2
  <2> QED
    BY <2>1 DEF RulesInv, FetchedAreRows, NoCascade
<1>16. FiresOncePerEntity'
  <2> SUFFICES ASSUME NEW y \in Pairs
               PROVE  /\ Cardinality(TasksOf(y)') <= 1 /\ notices'[y] <= 1
                      /\ (TasksOf(y)' # {} \/ notices'[y] > 0) <=> y \in runs'
    BY DEF FiresOncePerEntity, Pairs
  <2>1. TasksOf(y)' = {i \in Rows' : task'[i].by = y}
    BY DEF TasksOf
  <2>2. \A i \in new : task'[i].by = x
    BY <1>8 DEF NewTask
  <2>3. CASE y # x
    <3>1. TasksOf(y)' = TasksOf(y)
      BY <1>8, <2>1, <2>2, <2>3 DEF TasksOf
    <3>2. notices'[y] = notices[y] /\ (y \in runs' <=> y \in runs)
      BY <1>4, <2>3 DEF IInv, WorkTypes
    <3> QED
      BY <3>1, <3>2 DEF IInv, FiresOncePerEntity, Pairs
  <2>4. CASE y = x
    <3>1. TasksOf(x) = {} /\ notices[x] = 0
      BY <1>2, <1>4, NothingWasFired
    <3>2. TasksOf(y)' = new
      BY <1>8, <2>1, <2>2, <2>4, <3>1 DEF TasksOf
    <3>3. Cardinality(new) <= 1
      BY OneAtMost
    <3>4. notices'[x] = IF "SEND_NOTIFICATION" \in actions THEN 1 ELSE 0
      BY <1>2, <1>4, <3>1 DEF IInv, WorkTypes
    <3>5. new # {} \/ notices'[x] > 0
      <4>1. "CREATE_TASK" \in actions \/ "SEND_NOTIFICATION" \in actions
        BY <1>3 DEF ActionTypes
      <4>2. CASE "CREATE_TASK" \in actions
        BY <4>2
      <4>3. CASE "SEND_NOTIFICATION" \in actions
        BY <3>4, <4>3
      <4> QED
        BY <4>1, <4>2, <4>3
    <3>6. x \in runs'
      BY <1>4
    <3> QED
      BY <2>4, <3>2, <3>3, <3>4, <3>5, <3>6
  <2> QED
    BY <2>3, <2>4
<1> QED
  BY <1>12, <1>14, <1>15, <1>16 DEF IInv

-----------------------------------------------------------------------------
(***************************************************************************)
(* Purchase recommendations.                                               *)
(***************************************************************************)

LEMMA BuyingState ==
  ASSUME IInv, NEW p \in Processes, proc[p].job = "recommend"
  PROVE  /\ proc[p] \in Buying /\ proc[p].new \in SetsOfRows
         /\ proc[p].at # "notify" => Head(proc[p].todo) \in Products /\ Head(proc[p].todo) \in Asked(p)
<1>1. proc[p] \in Buying
  BY JobOfState DEF IInv, WorkTypes
<1>2. proc[p].new \in SetsOfRows /\ (proc[p].at # "notify" => proc[p].todo \in Questions)
  BY <1>1, FieldsOfBuying
<1>3. ASSUME proc[p].at # "notify"
      PROVE  Head(proc[p].todo) \in Products /\ Head(proc[p].todo) \in Asked(p)
  <2>1. proc[p].todo \in Seq(Products) /\ proc[p].todo # <<>>
    BY <1>2, <1>3 DEF Questions, ProductLists
  <2> QED
    BY <2>1, RestOfSeq DEF Asked
<1> QED
  BY <1>1, <1>2, <1>3

LEMMA BeginRecommendKeepsIInv ==
  ASSUME IInv, NEW p \in Processes, BeginRecommend(p), UNCHANGED workflowVars
  PROVE  IInv'
<1>1. PICK products \in SUBSET Products : \E answer \in Answers(products) :
        /\ Becomes(p, [job |-> "recommend", at |-> "find", todo |-> answer, new |-> {}])
        /\ paired' = paired \cup
             {k \in products : \E q \in Processes \ {p} :
                proc[q].job = "recommend" /\ proc[q].at # "notify" /\ k \in Asked(q)}
  BY DEF BeginRecommend, FindMany, Below
<1>2. PICK answer \in Answers(products) :
        /\ Becomes(p, [job |-> "recommend", at |-> "find", todo |-> answer, new |-> {}])
        /\ paired' = paired \cup
             {k \in products : \E q \in Processes \ {p} :
                proc[q].job = "recommend" /\ proc[q].at # "notify" /\ k \in Asked(q)}
  BY <1>1
<1>3. PICK n \in 1..MaxPlan : answer \in [1..n -> products]
  BY DEF Answers
<1>4. answer \in Questions /\ {answer[m] : m \in DOMAIN answer} \subseteq products
  <2>1. n \in Nat /\ n # 0
    BY <1>3, TasksAssumption
  <2>2. answer \in Seq(Products)
    BY <1>3, <2>1
  <2>3. answer # <<>>
    BY <1>3, <2>1
  <2> QED
    BY <1>3, <2>2, <2>3 DEF Questions, ProductLists
<1> DEFINE s == [job |-> "recommend", at |-> "find", todo |-> answer, new |-> {}]
<1>5. s.job = "recommend" /\ s.at = "find" /\ s.todo = answer
  BY Zenon
<1>6. s \in ProcStates
  <2>1. answer \in ProductLists /\ {} \in SetsOfRows /\ "find" \in BuyingSteps
    BY <1>4 DEF Questions, SetsOfRows, BuyingSteps
  <2>2. s \in [job : {"recommend"}, at : BuyingSteps, todo : ProductLists, new : SetsOfRows]
    BY <2>1
  <2> HIDE DEF s
  <2> QED
    BY <1>4, <1>5, <2>2 DEF Buying, ProcStates
<1> HIDE DEF s
<1>7. /\ proc' \in [Processes -> ProcStates] /\ proc'[p] = s
      /\ \A q \in Processes \ {p} : proc'[q] = proc[q]
  BY <1>2, <1>6, BecomesState DEF s, IInv, WorkTypes
<1>8. UNCHANGED <<kinds, task, rule, runs, notices, recommendation, request, raced, overlapped>>
  BY DEF BeginRecommend, workflowVars
<1>9. WorkTypes' /\ FiresOncePerEntity' /\ RulesInv' /\ PlansInv' /\ RequestsInv'
  BY <1>5, <1>7, <1>8, OnlyProcesses
<1>10. SharedProductsPair'
  <2>1. Asked(p)' \subseteq products
    BY <1>4, <1>5, <1>7 DEF Asked
  <2>2. \A q \in Processes \ {p} : Asked(q)' = Asked(q)
    BY <1>7 DEF Asked
  <2>3. ASSUME NEW o \in Processes \ {p}, proc[o].job = "recommend", proc[o].at # "notify"
        PROVE  Asked(p)' \cap Asked(o) \subseteq paired'
    BY <1>2, <2>1, <2>3
  <2> SUFFICES ASSUME NEW q \in Processes, NEW r \in Processes, q # r,
                      proc'[q].job = "recommend", proc'[q].at # "notify",
                      proc'[r].job = "recommend", proc'[r].at # "notify"
               PROVE  Asked(q)' \cap Asked(r)' \subseteq paired'
    BY DEF SharedProductsPair
  <2>4. CASE q # p /\ r # p
    BY <1>2, <1>7, <2>2, <2>4 DEF IInv, PurchasesInv, SharedProductsPair
  <2>5. CASE q = p
    BY <1>7, <2>2, <2>3, <2>5
  <2>6. CASE r = p
    BY <1>7, <2>2, <2>3, <2>6
  <2> QED
    BY <2>4, <2>5, <2>6
<1>11. NoneIsPending'
  BY <1>2, <1>5, <1>7, <1>8 DEF IInv, PurchasesInv, NoneIsPending, Recommendations
<1>12. OnePendingPerProduct'
  BY <1>2, <1>8 DEF IInv, PurchasesInv, OnePendingPerProduct, Recommendations
<1> QED
  BY <1>9, <1>10, <1>11, <1>12 DEF IInv, PurchasesInv

LEMMA FindPendingKeepsIInv ==
  ASSUME IInv, NEW p \in Processes, FindPending(p), UNCHANGED workflowVars
  PROVE  IInv'
<1> DEFINE k == Head(proc[p].todo)
           existing == {i \in Recommendations : Pending(p, i) /\ recommendation[i].product = k}
<1>1. proc[p].job = "recommend" /\ proc[p].at = "find"
  BY DEF FindPending, Recommending
<1>2. proc[p] \in Buying /\ proc[p].at # "notify" /\ proc[p].new \in SetsOfRows
  BY <1>1, BuyingState
<1>3. UNCHANGED <<kinds, task, rule, runs, notices, recommendation, request, raced, paired,
                  overlapped>>
  BY DEF FindPending, workflowVars, purchaseVars
<1>4. CASE existing # {}
  <2>1. Becomes(p, AnswerRest(p, proc[p].new))
    BY <1>4 DEF FindPending
  <2> DEFINE s == AnswerRest(p, proc[p].new)
  <2>2. /\ s \in ProcStates
        /\ s.job = "recommend" /\ s.at # "notify" =>
             s.at = "find" /\ {s.todo[n] : n \in DOMAIN s.todo} \subseteq Asked(p)
    BY <1>2, RestOfAnswer DEF SetsOfRows
  <2>3. s.job \in {"recommend", "none"}
    BY <1>2, RestOfAnswer DEF SetsOfRows
  <2> HIDE DEF s
  <2>4. /\ proc' \in [Processes -> ProcStates] /\ proc'[p] = s
        /\ \A q \in Processes \ {p} : proc'[q] = proc[q]
    BY <2>1, <2>2, BecomesState DEF s, IInv, WorkTypes
  <2>5. WorkTypes' /\ FiresOncePerEntity' /\ RulesInv' /\ PlansInv' /\ RequestsInv'
    BY <1>3, <2>3, <2>4, OnlyProcesses
  <2>6. PurchasesGoOn
    BY <1>1, <2>2, <2>4 DEF PurchasesGoOn, Asked
  <2>7. PurchasesInv'
    BY <1>3, <2>6, SameRows, PurchasesStay DEF IInv
  <2> QED
    BY <2>5, <2>7 DEF IInv
<1>5. CASE existing = {}
  <2> DEFINE s == [proc[p] EXCEPT !.at = "create"]
  <2>1. Becomes(p, s)
    BY <1>5 DEF FindPending
  <2>2. /\ s \in ProcStates /\ s.job = "recommend" /\ s.at = "create"
        /\ s.todo = proc[p].todo
    BY <1>2, CreatingState
  <2> HIDE DEF s
  <2>3. /\ proc' \in [Processes -> ProcStates] /\ proc'[p] = s
        /\ \A q \in Processes \ {p} : proc'[q] = proc[q]
    BY <2>1, <2>2, BecomesState DEF IInv, WorkTypes
  <2>4. WorkTypes' /\ FiresOncePerEntity' /\ RulesInv' /\ PlansInv' /\ RequestsInv'
    BY <1>3, <2>2, <2>3, OnlyProcesses
  <2>5. SharedProductsPair'
    BY <1>1, <1>3, <2>2, <2>3 DEF IInv, PurchasesInv, SharedProductsPair, Asked
  <2>6. NoneIsPending'
    <3> SUFFICES ASSUME NEW q \in Processes, proc'[q].job = "recommend", proc'[q].at = "create",
                        NEW i \in Recommendations, recommendation[i].status = "PENDING",
                        recommendation[i].product = Head(proc'[q].todo)
                 PROVE  recommendation[i].product \in paired
      BY <1>3 DEF NoneIsPending, Recommendations
    <3>1. CASE q = p
      BY <1>5, <2>2, <2>3, <3>1 DEF Pending
    <3>2. CASE q # p
      BY <2>3, <3>2 DEF IInv, PurchasesInv, NoneIsPending
    <3> QED
      BY <3>1, <3>2
  <2>7. OnePendingPerProduct'
    BY <1>3 DEF IInv, PurchasesInv, OnePendingPerProduct, Recommendations
  <2> QED
    BY <2>4, <2>5, <2>6, <2>7 DEF IInv, PurchasesInv
<1> QED
  BY <1>4, <1>5

LEMMA RecommendFailsKeepsIInv ==
  ASSUME IInv, NEW p \in Processes, RecommendFails(p), UNCHANGED workflowVars
  PROVE  IInv'
<1>1. Becomes(p, Idle)
  BY DEF RecommendFails
<1>2. UNCHANGED <<kinds, task, rule, runs, notices, recommendation, request, raced, paired,
                  overlapped>>
  BY DEF RecommendFails, workflowVars, purchaseVars
<1> QED
  BY <1>1, <1>2, ToIdle, OnlyProcesses DEF IInv

LEMMA CreateRecommendationKeepsIInv ==
  ASSUME IInv, NEW p \in Processes, CreateRecommendation(p), UNCHANGED workflowVars
  PROVE  IInv'
<1> DEFINE k == Head(proc[p].todo)
           row == NewRecommendation(k)
           new == Len(recommendation) + 1
           mine == proc[p].new \cup {new}
           s == AnswerRest(p, mine)
<1>1. proc[p].job = "recommend" /\ proc[p].at = "create"
  BY DEF CreateRecommendation, Recommending
<1>2. /\ proc[p] \in Buying /\ proc[p].new \in SetsOfRows
      /\ k \in Products /\ k \in Asked(p)
  BY <1>1, BuyingState
<1>3. recommendation' = Append(recommendation, row) /\ Becomes(p, s)
  BY DEF CreateRecommendation
<1>4. UNCHANGED <<kinds, task, rule, runs, notices, request, raced, paired, overlapped>>
  BY DEF CreateRecommendation, workflowVars
<1>5. row \in RecommendationRow
  BY <1>2 DEF NewRecommendation, RecommendationRow
<1>6. row.product = k /\ row.status = "PENDING" /\ row.resolved = 0
  BY DEF NewRecommendation
<1>7. recommendation \in Seq(RecommendationRow) /\ Len(recommendation) \in Nat
  BY DEF IInv, WorkTypes
<1> HIDE DEF row
<1>8. /\ recommendation' \in Seq(RecommendationRow)
      /\ Recommendations = 1..Len(recommendation) /\ Recommendations' = 1..new
      /\ \A i \in Recommendations : recommendation'[i] = recommendation[i]
      /\ recommendation'[new] = row
  BY <1>3, <1>5, <1>7, AppendedRow DEF Recommendations
<1>9. mine \in SetsOfRows /\ proc[p].at # "notify"
  BY <1>1, <1>2, <1>7 DEF SetsOfRows
<1> HIDE DEF mine
<1>10. /\ s \in ProcStates /\ s.job \in {"recommend", "none"}
       /\ s.job = "recommend" /\ s.at # "notify" =>
            s.at = "find" /\ {s.todo[n] : n \in DOMAIN s.todo} \subseteq Asked(p)
  BY <1>2, <1>9, RestOfAnswer, Zenon
<1>11. /\ proc' \in [Processes -> ProcStates] /\ proc'[p] = s
       /\ \A q \in Processes \ {p} : proc'[q] = proc[q]
  BY <1>3, <1>10, BecomesState DEF IInv, WorkTypes
<1> HIDE DEF s
<1>12. WorkTypes'
  BY <1>4, <1>8, <1>11 DEF IInv, WorkTypes
<1>13. StatusesGoOn /\ Recommendations \subseteq Recommendations'
  <2>1. ASSUME NEW i \in 1..new
        PROVE  \/ /\ i \in 1..Len(recommendation)
                  /\ recommendation'[i] = recommendation[i]
               \/ i \notin 1..Len(recommendation) /\ recommendation'[i] = row
    BY <1>7, <1>8
  <2> QED
    BY <1>6, <1>7, <1>8, <2>1 DEF StatusesGoOn
<1>14. FiresOncePerEntity' /\ PlansInv' /\ RulesInv' /\ RequestsInv'
  BY <1>4, <1>10, <1>11, <1>12, <1>13, OtherParts, SameRows
<1>15. PurchasesGoOn
  BY <1>1, <1>10, <1>11 DEF PurchasesGoOn, Asked
<1>16. SharedProductsPair'
  BY <1>4, <1>15 DEF IInv, PurchasesInv, SharedProductsPair, PurchasesGoOn
<1>17. \A i \in Recommendations :
         recommendation[i].status = "PENDING" /\ recommendation[i].product = k => k \in paired
  BY <1>1 DEF IInv, PurchasesInv, NoneIsPending
<1>18. NoneIsPending'
  <2> SUFFICES ASSUME NEW q \in Processes, proc'[q].job = "recommend", proc'[q].at = "create",
                      NEW i \in 1..new, recommendation'[i].status = "PENDING",
                      recommendation'[i].product = Head(proc'[q].todo)
               PROVE  recommendation'[i].product \in paired
    BY <1>4, <1>8 DEF NoneIsPending
  <2>1. q # p /\ proc'[q] = proc[q]
    BY <1>10, <1>11
  <2>2. CASE i # new
    <3>1. i \in Recommendations /\ recommendation'[i] = recommendation[i]
      BY <1>7, <1>8, <2>2
    <3> QED
      BY <2>1, <3>1 DEF IInv, PurchasesInv, NoneIsPending
  <2>3. CASE i = new
    <3>1. recommendation'[i].product = k
      BY <1>6, <1>8, <2>3
    <3>2. k \in Asked(q)
      BY <2>1, <3>1, BuyingState
    <3> QED
      BY <1>1, <1>2, <2>1, <3>1, <3>2 DEF IInv, PurchasesInv, SharedProductsPair
  <2> QED
    BY <2>2, <2>3
<1>19. OnePendingPerProduct'
  <2> SUFFICES ASSUME NEW i \in 1..new, NEW j \in 1..new, i # j,
                      recommendation'[i].product = recommendation'[j].product,
                      recommendation'[i].status = "PENDING", recommendation'[j].status = "PENDING"
               PROVE  recommendation'[i].product \in paired
    BY <1>4, <1>8 DEF OnePendingPerProduct
  <2>1. \A o \in 1..new : o # new =>
          o \in Recommendations /\ recommendation'[o] = recommendation[o]
    BY <1>7, <1>8
  <2>2. CASE i # new /\ j # new
    BY <2>1, <2>2 DEF IInv, PurchasesInv, OnePendingPerProduct
  <2>3. CASE i = new
    BY <1>6, <1>8, <1>17, <2>1, <2>3
  <2>4. CASE j = new
    BY <1>6, <1>8, <1>17, <2>1, <2>4
  <2> QED
    BY <2>2, <2>3, <2>4
<1> QED
  BY <1>12, <1>14, <1>16, <1>18, <1>19 DEF IInv, PurchasesInv

LEMMA NotifyRecommendationsKeepsIInv ==
  ASSUME IInv, NEW p \in Processes, NotifyRecommendations(p), UNCHANGED workflowVars
  PROVE  IInv'
<1>1. /\ recommendation' = [i \in Recommendations |->
           IF i \in proc[p].new THEN [recommendation[i] EXCEPT !.announced = TRUE]
           ELSE recommendation[i]]
      /\ Becomes(p, Idle)
  BY DEF NotifyRecommendations
<1>2. UNCHANGED <<kinds, task, rule, runs, notices, request, raced, paired, overlapped>>
  BY DEF NotifyRecommendations, workflowVars
<1>3. /\ recommendation \in Seq(RecommendationRow) /\ Len(recommendation) \in Nat
      /\ Recommendations = 1..Len(recommendation)
      /\ \A i \in Recommendations : recommendation[i] \in RecommendationRow
  BY TypedRecommendations DEF Recommendations, IInv, WorkTypes
<1>4. ASSUME NEW r \in RecommendationRow
      PROVE  LET t == [r EXCEPT !.announced = TRUE] IN
               /\ t \in RecommendationRow /\ t.product = r.product /\ t.status = r.status
               /\ t.resolved = r.resolved
  BY DEF RecommendationRow
<1>5. Recommendations' = Recommendations
  BY <1>1 DEF Recommendations
<1>6. ASSUME NEW i \in Recommendations
      PROVE  /\ recommendation'[i] \in RecommendationRow
             /\ recommendation'[i].product = recommendation[i].product
             /\ recommendation'[i].status = recommendation[i].status
             /\ recommendation'[i].resolved = recommendation[i].resolved
  <2>1. CASE i \in proc[p].new
    <3>1. recommendation'[i] = [recommendation[i] EXCEPT !.announced = TRUE]
      BY <1>1, <2>1
    <3> QED
      BY <1>3, <1>4, <3>1
  <2>2. CASE i \notin proc[p].new
    BY <1>1, <1>3, <2>2
  <2> QED
    BY <2>1, <2>2
<1>7. recommendation' \in Seq(RecommendationRow)
  <2>1. recommendation' = [i \in 1..Len(recommendation) |-> recommendation'[i]]
    BY <1>1, <1>3
  <2> QED
    BY <1>3, <1>6, <2>1
<1>8. /\ proc' \in [Processes -> ProcStates]
      /\ proc'[p].job = "none" /\ \A q \in Processes \ {p} : proc'[q] = proc[q]
  BY <1>1, ToIdle
<1>9. WorkTypes'
  BY <1>2, <1>7, <1>8 DEF IInv, WorkTypes
<1>10. StatusesGoOn /\ PendingGoesOn
  BY <1>5, <1>6 DEF StatusesGoOn, PendingGoesOn
<1> QED
  BY <1>2, <1>5, <1>8, <1>9, <1>10, OtherParts, SameRows DEF IInv

-----------------------------------------------------------------------------
(***************************************************************************)
(* Requests.                                                               *)
(***************************************************************************)

LEMMA ResolvingState ==
  ASSUME IInv, NEW q \in Requests, request[q] # Idle
  PROVE  request[q] \in Resolving
  BY DEF IInv, WorkTypes

LEMMA LoadKeepsIInv ==
  ASSUME IInv, NEW q \in Requests, NEW i \in Recommendations,
         NEW status \in {"ORDERED", "DISMISSED"}, Load(q, i, status), UNCHANGED workflowVars
  PROVE  IInv'
<1> DEFINE s == [job |-> "resolve", of |-> i, to |-> status]
<1>1. /\ request[q] = Idle /\ recommendation[i].status = "PENDING"
      /\ request' = [request EXCEPT ![q] = s]
      /\ raced' = IF \E other \in Requests : request[other] # Idle /\ request[other].of = i
                  THEN raced \cup {i} ELSE raced
  BY DEF Load, Resolvable
<1>2. UNCHANGED <<kinds, task, rule, runs, notices, proc, recommendation, paired, overlapped>>
  BY DEF Load, workflowVars
<1>3. i \in Nat
  BY TypedRecommendations DEF Recommendations, IInv, WorkTypes
<1>4. s \in Resolving /\ s.of = i
  BY <1>3 DEF Resolving
<1> HIDE DEF s
<1>5. /\ request' \in [Requests -> {Idle} \cup Resolving] /\ request'[q] = s
      /\ \A r \in Requests \ {q} : request'[r] = request[r]
  BY <1>1, <1>4 DEF IInv, WorkTypes
<1>6. WorkTypes'
  BY <1>2, <1>5 DEF IInv, WorkTypes
<1>7. PlansGoOn /\ SweepsGoOn /\ PurchasesGoOn
  BY <1>2 DEF PlansGoOn, SweepsGoOn, PurchasesGoOn, Asked
<1>8. PlansInv' /\ FiresOncePerEntity' /\ RulesInv' /\ PurchasesInv'
  BY <1>2, <1>6, <1>7, SameRows, PlansStay, RunsStay, SweepsStay, PurchasesStay DEF IInv
<1>9. raced \subseteq raced'
  BY <1>1
<1>10. RequestsInv'
  <2>1. ASSUME NEW r \in Requests, request'[r] # Idle
        PROVE  /\ request'[r].of \in Recommendations
               /\ request'[r].of \notin raced' => recommendation[request'[r].of].status = "PENDING"
    BY <1>1, <1>4, <1>5, <1>9, <2>1 DEF IInv, RequestsInv
  <2>2. ASSUME NEW r \in Requests \ {q}, request[r] # Idle, request[r].of = i
        PROVE  i \in raced'
    BY <1>1, <2>2
  <2>3. ASSUME NEW r \in Requests, NEW o \in Requests, r # o, request'[r] # Idle,
               request'[o] # Idle, request'[r].of = request'[o].of
        PROVE  request'[r].of \in raced'
    <3>1. CASE r # q /\ o # q
      BY <1>5, <1>9, <2>3, <3>1 DEF IInv, RequestsInv
    <3>2. CASE r = q
      BY <1>4, <1>5, <2>2, <2>3, <3>2
    <3>3. CASE o = q
      BY <1>4, <1>5, <2>2, <2>3, <3>3
    <3> QED
      BY <3>1, <3>2, <3>3
  <2>4. \A j \in Recommendations : j \notin raced' =>
          /\ recommendation[j].status = "PENDING" => recommendation[j].resolved = 0
          /\ recommendation[j].resolved <= 1
    BY <1>9 DEF IInv, RequestsInv
  <2> QED
    BY <1>2, <2>1, <2>3, <2>4 DEF RequestsInv, Recommendations
<1> QED
  BY <1>6, <1>8, <1>10 DEF IInv

LEMMA RecommendationRecord ==
  ASSUME NEW P, NEW S, NEW N, NEW A,
         NEW t \in [product : P, status : S, resolved : N, announced : A],
         NEW status \in S, NEW n \in N
  PROVE  LET r == [t EXCEPT !.status = status, !.resolved = n] IN
           /\ r \in [product : P, status : S, resolved : N, announced : A]
           /\ r.product = t.product /\ r.status = status /\ r.resolved = n
  OBVIOUS

LEMMA ResolveKeepsIInv ==
  ASSUME IInv, NEW q \in Requests, Resolve(q), UNCHANGED workflowVars
  PROVE  IInv'
<1> DEFINE i == request[q].of
           to == request[q].to
           n == recommendation[i].resolved + 1
           r == [recommendation[i] EXCEPT !.status = to, !.resolved = n]
<1>1. request[q] # Idle /\ request' = [request EXCEPT ![q] = Idle]
  BY DEF Resolve
<1>2. /\ i \in Recommendations /\ to \in {"ORDERED", "DISMISSED"}
      /\ recommendation[i] \in RecommendationRow /\ recommendation[i].resolved \in Nat
  <2>1. i \in Recommendations
    BY <1>1 DEF IInv, RequestsInv
  <2>2. to \in {"ORDERED", "DISMISSED"}
    BY <1>1, ResolvingState DEF Resolving
  <2> QED
    BY <2>1, <2>2, TypedRecommendations DEF Recommendations, IInv, WorkTypes
<1>3. UNCHANGED <<kinds, task, rule, runs, notices, proc, paired, raced, overlapped>>
  BY DEF Resolve, workflowVars
<1>4. /\ r \in RecommendationRow /\ r.product = recommendation[i].product
      /\ r.status = to /\ r.resolved = n
  <2>1. n \in Nat /\ to \in {"PENDING", "ORDERED", "DISMISSED"}
    BY <1>2
  <2> HIDE DEF n, to
  <2> QED
    BY <1>2, <2>1, RecommendationRecord, Zenon DEF RecommendationRow
<1>5. recommendation' = [recommendation EXCEPT ![i] = r]
  <2>1. recommendation \in Seq(RecommendationRow) /\ i \in DOMAIN recommendation
    BY <1>2 DEF IInv, WorkTypes, Recommendations
  <2>2. recommendation' = [recommendation EXCEPT ![i].status = to, ![i].resolved = @ + 1]
    BY DEF Resolve
  <2>3. \A j \in DOMAIN recommendation :
          recommendation'[j] = IF j = i THEN r ELSE recommendation[j]
    BY <1>2, <2>1, <2>2 DEF RecommendationRow
  <2>4. recommendation' = [j \in DOMAIN recommendation |-> recommendation'[j]]
    BY <2>1, <2>2
  <2> QED
    BY <2>1, <2>3, <2>4
<1> HIDE DEF r
<1>6. /\ recommendation' \in Seq(RecommendationRow) /\ Recommendations' = Recommendations
      /\ recommendation'[i] = r
      /\ \A j \in Recommendations \ {i} : recommendation'[j] = recommendation[j]
  BY <1>2, <1>4, <1>5, ChangedRow DEF Recommendations, IInv, WorkTypes
<1>7. /\ request' \in [Requests -> {Idle} \cup Resolving] /\ request'[q] = Idle
      /\ \A o \in Requests \ {q} : request'[o] = request[o]
  BY <1>1 DEF IInv, WorkTypes
<1>8. WorkTypes'
  BY <1>3, <1>6, <1>7 DEF IInv, WorkTypes
<1>9. PlansGoOn /\ SweepsGoOn /\ PurchasesGoOn
  BY <1>3 DEF PlansGoOn, SweepsGoOn, PurchasesGoOn, Asked
<1>10. PendingGoesOn
  BY <1>2, <1>4, <1>6 DEF PendingGoesOn
<1>11. PlansInv' /\ FiresOncePerEntity' /\ RulesInv' /\ PurchasesInv'
  BY <1>3, <1>8, <1>9, <1>10, SameRows, PlansStay, RunsStay, SweepsStay, PurchasesStay DEF IInv
<1>12. ASSUME i \notin raced
       PROVE  recommendation[i].resolved = 0 /\ \A o \in Requests \ {q} :
                request[o] # Idle => request[o].of # i
  BY <1>1, <1>2, <1>12 DEF IInv, RequestsInv
<1>13. RequestsInv'
  <2>1. ASSUME NEW o \in Requests, request'[o] # Idle
        PROVE  /\ request'[o].of \in Recommendations
               /\ request'[o].of \notin raced => recommendation'[request'[o].of].status = "PENDING"
    <3>1. o # q /\ request'[o] = request[o]
      BY <1>7, <2>1
    <3>2. /\ request[o].of \in Recommendations
          /\ request[o].of \notin raced => recommendation[request[o].of].status = "PENDING"
      BY <2>1, <3>1 DEF IInv, RequestsInv
    <3> QED
      BY <1>6, <1>12, <2>1, <3>1, <3>2
  <2>2. ASSUME NEW u \in Requests, NEW o \in Requests, u # o, request'[u] # Idle,
               request'[o] # Idle, request'[u].of = request'[o].of
        PROVE  request'[u].of \in raced
    BY <1>7, <2>2 DEF IInv, RequestsInv
  <2>3. ASSUME NEW j \in Recommendations, j \notin raced
        PROVE  /\ recommendation'[j].status = "PENDING" => recommendation'[j].resolved = 0
               /\ recommendation'[j].resolved <= 1
    <3>1. CASE j # i
      BY <1>6, <2>3, <3>1 DEF IInv, RequestsInv
    <3>2. CASE j = i
      BY <1>2, <1>4, <1>6, <1>12, <2>3, <3>2
    <3> QED
      BY <3>1, <3>2
  <2> QED
    BY <1>3, <1>6, <2>1, <2>2, <2>3 DEF RequestsInv
<1> QED
  BY <1>8, <1>11, <1>13 DEF IInv
-----------------------------------------------------------------------------
(***************************************************************************)
(* The specification.                                                      *)
(***************************************************************************)

LEMMA InitIInv ==
  Init => IInv
<1> SUFFICES ASSUME Init
             PROVE  IInv
  OBVIOUS
<1>1. /\ task = <<>> /\ Rows = {} /\ recommendation = <<>> /\ Recommendations = {}
      /\ \A p \in Processes : proc[p] = Idle /\ proc[p].job = "none"
      /\ \A q \in Requests : request[q] = Idle
      /\ runs = {} /\ \A x \in Pairs : notices[x] = 0
  BY DEF Init, TasksInit, WorkflowsInit, PurchasingInit, Rows, Recommendations, Idle, Pairs
<1>2. WorkTypes
  <2>1. task \in Seq(TaskRow) /\ Len(task) <= MaxTasks
    BY <1>1, TasksAssumption
  <2>2. proc \in [Processes -> ProcStates] /\ request \in [Requests -> {Idle} \cup Resolving]
    <3>1. proc = [p \in Processes |-> Idle] /\ request = [q \in Requests |-> Idle]
      BY DEF Init, TasksInit, PurchasingInit
    <3>2. Idle \in ProcStates /\ Idle \in {Idle} \cup Resolving
      BY Zenon DEF ProcStates
    <3> QED
      BY <3>1, <3>2
  <2>4. "rules" \in kinds => rule \in [Rules -> Editions]
    BY Zenon DEF Init, WorkflowsInit
  <2>5. runs \subseteq Pairs /\ notices \in [Pairs -> Nat]
    BY DEF Init, WorkflowsInit, Pairs
  <2>3. recommendation \in Seq(RecommendationRow)
    BY <1>1
  <2> QED
    BY <2>1, <2>2, <2>3, <2>4, <2>5 DEF WorkTypes
<1>3. PlansInv
  BY <1>1 DEF PlansInv, SharedKeysOverlap, NoneWasOpened, OneOpenTaskPerSignal
<1>4. FiresOncePerEntity
  <2>1. \A x \in Pairs : TasksOf(x) = {}
    BY <1>1 DEF TasksOf
  <2>2. Cardinality({}) = 0
    BY FS_EmptySet
  <2>3. ASSUME NEW x \in Pairs
        PROVE  /\ Cardinality(TasksOf(x)) <= 1 /\ notices[x] <= 1
               /\ (TasksOf(x) # {} \/ notices[x] > 0) <=> x \in runs
    <3>1. TasksOf(x) = {} /\ notices[x] = 0 /\ runs = {}
      BY <1>1, <2>1
    <3> QED
      BY <2>2, <3>1
  <2> QED
    BY <2>3 DEF FiresOncePerEntity, Pairs
<1>5. RulesInv /\ PurchasesInv /\ RequestsInv
  BY <1>1 DEF RulesInv, FetchedAreRows, NoCascade, PurchasesInv, SharedProductsPair,
              NoneIsPending, OnePendingPerProduct, RequestsInv
<1> QED
  BY <1>2, <1>3, <1>4, <1>5 DEF IInv

LEMMA NextKeepsIInv ==
  IInv /\ [Next]_vars => IInv'
<1> SUFFICES ASSUME IInv, [Next]_vars
             PROVE  IInv'
  OBVIOUS
<1>1. CASE TaskJobs /\ UNCHANGED <<workflowVars, purchaseVars>>
  <2>1. PICK p \in Processes : PlanStep(p) \/ SweepStep(p)
    BY <1>1 DEF TaskJobs
  <2> QED
    BY <1>1, <2>1, BeginPlanKeepsIInv, FindDuplicateKeepsIInv, CreatePlannedKeepsIInv,
       PlanThrowsKeepsIInv, BeginSweepKeepsIInv, ReadSignalsKeepsIInv, CompleteKeepsIInv,
       CompleteFailsKeepsIInv DEF PlanStep, SweepStep
<1>2. CASE TaskController /\ UNCHANGED <<workflowVars, purchaseVars>>
  BY <1>2, UpdateStatusKeepsIInv DEF TaskController
<1>3. CASE Others /\ UNCHANGED <<workflowVars, purchaseVars>>
  <2>1. UNCHANGED <<kinds, task, proc, overlapped, runs, notices, purchaseVars, rule>>
    BY <1>3 DEF Others, MoveInvoice, MoveStock, EvaluateReorder, workflowVars
  <2> QED
    BY <2>1, OthersKeepIInv
<1>4. CASE WorkflowRuleController /\ UNCHANGED purchaseVars
  <2>1. PICK r \in Rules : UpdateRule(r)
    BY <1>4 DEF WorkflowRuleController
  <2>2. UNCHANGED <<kinds, task, proc, overlapped, runs, notices, purchaseVars>>
    BY <1>4, <2>1 DEF UpdateRule
  <2> QED
    BY <2>1, <2>2, OthersKeepIInv
<1>5. ASSUME NEW p \in Processes, RulesStep(p), UNCHANGED purchaseVars
      PROVE  IInv'
  BY <1>5, BeginRulesKeepsIInv, FetchEntitiesKeepsIInv, FindRunKeepsIInv, FireKeepsIInv,
     FireFailsKeepsIInv DEF RulesStep
<1>6. CASE PurchaseRecommendationController /\ UNCHANGED workflowVars
  BY <1>6, LoadKeepsIInv, ResolveKeepsIInv DEF PurchaseRecommendationController
<1>7. ASSUME NEW p \in Processes, RecommendStep(p), UNCHANGED workflowVars
      PROVE  IInv'
  BY <1>7, BeginRecommendKeepsIInv, FindPendingKeepsIInv, CreateRecommendationKeepsIInv,
     NotifyRecommendationsKeepsIInv, RecommendFailsKeepsIInv DEF RecommendStep
<1>8. CASE UNCHANGED vars
  <2>1. UNCHANGED <<kinds, task, proc, overlapped, runs, notices, purchaseVars, rule>>
    BY <1>8 DEF vars, taskVars, workflowVars
  <2> QED
    BY <2>1, OthersKeepIInv
<1> QED
  BY <1>1, <1>2, <1>3, <1>4, <1>5, <1>6, <1>7, <1>8 DEF Next

LEMMA SpecIInv ==
  Spec => []IInv
<1> QED
  BY InitIInv, NextKeepsIInv, PTL DEF Spec

\* Two open tasks about one signal take two planner jobs that held it at once,
\* or somebody who reopened one: findFirst and create are two calls
\* (TaskService.persistPlannedTasks).
THEOREM PlannedTasksAreUnique ==
  Spec => []OneOpenTaskPerSignal
<1>1. IInv => OneOpenTaskPerSignal
  BY DEF IInv, PlansInv
<1> QED
  BY <1>1, SpecIInv, PTL

\* A rule fires once on an entity, whatever sweeps overlap or fail: the unique
\* key of workflow_runs and the transaction of WorkflowEngine.fire.
THEOREM RulesFireOnce ==
  Spec => []FiresOncePerEntity
<1>1. IInv => FiresOncePerEntity
  BY DEF IInv
<1> QED
  BY <1>1, SpecIInv, PTL

\* No sweep fires a rule about tasks on a task that it created itself: the
\* entities of a kind are fetched once for all its rules.
THEOREM NoRuleFeedsItself ==
  Spec => []NoCascade
<1>1. IInv => NoCascade
  BY DEF IInv, RulesInv
<1> QED
  BY <1>1, SpecIInv, PTL

\* Two pending recommendations of one product take two sweeps that asked the
\* model about it at once (PurchaseRecommendationService).
THEOREM OneRecommendationPending ==
  Spec => []OnePendingPerProduct
<1>1. IInv => OnePendingPerProduct
  BY DEF IInv, PurchasesInv
<1> QED
  BY <1>1, SpecIInv, PTL

\* A recommendation is resolved twice only by requests that overlapped: resolve
\* checks the status it has read.
THEOREM ResolvedByOneRequest ==
  Spec => []ResolvedOnce
<1>1. IInv => ResolvedOnce
  <2> SUFFICES ASSUME IInv, NEW i \in Recommendations, recommendation[i].resolved > 1,
                      i \notin raced
               PROVE  FALSE
    BY DEF ResolvedOnce
  <2>1. recommendation[i].resolved \in Nat
    BY TypedRecommendations DEF Recommendations, RecommendationRow, IInv, WorkTypes
  <2>2. recommendation[i].resolved <= 1
    BY DEF IInv, RequestsInv
  <2> QED
    BY <2>1, <2>2
<1> QED
  BY <1>1, SpecIInv, PTL
=============================================================================
