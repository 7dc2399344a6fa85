------------------------------ MODULE Purchasing ------------------------------
(***************************************************************************)
(* Purchase recommendations (modules/purchasing): a sweep asks the model   *)
(* about the products below their reorder point and keeps one pending      *)
(* recommendation of each; people order or dismiss it.                     *)
(***************************************************************************)
EXTENDS Tasks

CONSTANTS
  Requests,            \* API requests in progress
  PurchaseBatchSize,   \* PURCHASE_RECOMMEND_BATCH_SIZE, and MAX_SIGNALS_PER_ORG
  MaxRecommendations   \* bound: rows of purchase_recommendations

ASSUME PurchasingAssumption ==
  IsFiniteSet(Requests) /\ PurchaseBatchSize \in Nat \ {0} /\ MaxRecommendations \in Nat

VARIABLES
  recommendation,  \* the rows, in the order they were created
  request,         \* what a request has read
  paired,          \* products two sweeps in progress had at once
  raced            \* recommendations two requests in progress had at once

purchaseVars == <<recommendation, request, paired, raced>>

Recommendations == DOMAIN recommendation
NewRecommendation(k) == [product |-> k, status |-> "PENDING", resolved |-> 0, announced |-> FALSE]

PurchasingInit ==
  /\ recommendation = <<>>
  /\ request = [q \in Requests |-> Idle]
  /\ paired = {} /\ raced = {}

-----------------------------------------------------------------------------
(* The sweep *)

Below == {k \in Products : product[k].belowReorderPoint}
Asked(q) == {proc[q].todo[n] : n \in DOMAIN proc[q].todo}

\* What parseRecommendPayload keeps of an answer: recommendations of products
\* that were asked about, in any order and any number.
Answers(products) == UNION {[1..n -> products] : n \in 1..MaxPlan}

BeginRecommend(p) ==
  /\ Begin(p, "recommend")
  /\ \E products \in FindMany(Below, PurchaseBatchSize) : \E answer \in Answers(products) :
       /\ Becomes(p, [job |-> "recommend", at |-> "find", todo |-> answer, new |-> {}])
       /\ paired' = paired \cup
            {k \in products : \E q \in Processes \ {p} :
               proc[q].job = "recommend" /\ proc[q].at # "notify" /\ k \in Asked(q)}
  /\ UNCHANGED <<kinds, world, task, overlapped, edits, faults, recommendation, request, raced>>

Recommending(p, at) == proc[p].job = "recommend" /\ proc[p].at = at

AnswerRest(p, new) ==
  IF Len(proc[p].todo) > 1
  THEN [proc[p] EXCEPT !.at = "find", !.todo = Tail(@), !.new = new]
  ELSE IF new # {} THEN [proc[p] EXCEPT !.at = "notify", !.todo = <<>>, !.new = new]
  ELSE Idle

\* Mutant: only what this sweep created counts as pending.
CreatedHere(p, i) == i \in proc[p].new
Pending(p, i) == recommendation[i].status = "PENDING"

FindPending(p) ==
  /\ Recommending(p, "find")
  /\ LET existing == {i \in Recommendations :
                        Pending(p, i) /\ recommendation[i].product = Head(proc[p].todo)} IN
       Becomes(p, IF existing # {} THEN AnswerRest(p, proc[p].new)
                  ELSE [proc[p] EXCEPT !.at = "create"])
  /\ UNCHANGED <<kinds, world, task, overlapped, edits, faults, purchaseVars>>

NoRoom == Len(recommendation) >= MaxRecommendations

CreateRecommendation(p) ==
  /\ Recommending(p, "create") /\ ~NoRoom
  /\ recommendation' = Append(recommendation, NewRecommendation(Head(proc[p].todo)))
  /\ Becomes(p, AnswerRest(p, proc[p].new \cup {Len(recommendation) + 1}))
  /\ UNCHANGED <<kinds, world, task, overlapped, edits, faults, request, paired, raced>>

\* notifyRecommendations: one batch for all that the sweep created.
NotifyRecommendations(p) ==
  /\ Recommending(p, "notify")
  /\ recommendation' = [i \in Recommendations |->
       IF i \in proc[p].new THEN [recommendation[i] EXCEPT !.announced = TRUE]
       ELSE recommendation[i]]
  /\ Becomes(p, Idle)
  /\ UNCHANGED <<kinds, world, task, overlapped, edits, faults, request, paired, raced>>

\* A failure ends the organization's turn: what it created stays, unannounced.
RecommendFails(p) ==
  /\ proc[p].job = "recommend"
  /\ IF NoRoom /\ proc[p].at = "create" THEN UNCHANGED faults ELSE Fault
  /\ Becomes(p, Idle)
  /\ UNCHANGED <<kinds, world, task, overlapped, edits, purchaseVars>>

-----------------------------------------------------------------------------
(* Requests *)

\* Mutant: any recommendation can be resolved.
AnyStatus(i) == TRUE
Resolvable(i) == recommendation[i].status = "PENDING"

\* resolve loads the row and checks its status ...
Load(q, i, status) ==
  /\ request[q] = Idle
  /\ Resolvable(i)
  /\ request' = [request EXCEPT ![q] = [job |-> "resolve", of |-> i, to |-> status]]
  /\ raced' = IF \E other \in Requests : request[other] # Idle /\ request[other].of = i
              THEN raced \cup {i} ELSE raced
  /\ UNCHANGED <<kinds, world, task, proc, overlapped, edits, faults, recommendation, paired>>

\* ... and updates it by its id, whatever the status has become.
Resolve(q) ==
  /\ request[q] # Idle
  /\ recommendation' = [recommendation EXCEPT ![request[q].of].status = request[q].to,
                                              ![request[q].of].resolved = @ + 1]
  /\ request' = [request EXCEPT ![q] = Idle]
  /\ UNCHANGED <<kinds, world, task, proc, overlapped, edits, faults, paired, raced>>

PurchaseRecommendationController ==
  \E q \in Requests :
    \/ \E i \in Recommendations, status \in {"ORDERED", "DISMISSED"} : Load(q, i, status)
    \/ Resolve(q)

RecommendStep(p) ==
  \/ BeginRecommend(p) \/ FindPending(p) \/ CreateRecommendation(p)
  \/ NotifyRecommendations(p) \/ RecommendFails(p)

-----------------------------------------------------------------------------
(* Properties *)

\* Two pending recommendations of one product ("skipping any product that
\* already has a PENDING one") take two sweeps that asked about it at once.
OnePendingPerProduct ==
  \A i, j \in Recommendations :
    /\ i # j /\ recommendation[i].product = recommendation[j].product
    /\ recommendation[i].status = "PENDING" /\ recommendation[j].status = "PENDING"
    => recommendation[i].product \in paired

\* A client is told that a recommendation was ordered and another that it was
\* dismissed only when their requests overlapped: PENDING is the only
\* actionable status.
ResolvedOnce == \A i \in Recommendations : recommendation[i].resolved > 1 => i \in raced
=============================================================================
