------------------------------- MODULE Answers -------------------------------
(***************************************************************************)
(* A question about the knowledge base (modules/search, chat): the stores  *)
(* are queried in parallel, those that fail are left out, the ranked lists *)
(* are fused by reciprocal rank, the best hits become the model's context, *)
(* and its answer is grounded in them.                                     *)
(***************************************************************************)
EXTENDS Integers, FiniteSets, Sequences

CONSTANTS
  Chunks,              \* of the organization
  Stores,              \* the configured stores, in the order their lists are fused
  RRF_K, Candidates,   \* SEARCH_CANDIDATES
  Limit,               \* of the request
  Characters,          \* Characters[c]: of the text of a chunk, cut to CHAT_CHUNK_LIMIT_CHARS
  Budget,              \* CHAT_CONTEXT_BUDGET_CHARS
  MinScore,            \* CHAT_GROUND_MIN_SCORE, in thousandths
  Fabricated           \* what else the model may cite

ASSUME AnswersAssumption ==
  /\ IsFiniteSet(Chunks) /\ Stores \in Seq({"vector", "text", "graph"})
  /\ {RRF_K, Candidates, Limit, Budget, MinScore} \subseteq Nat
  /\ Characters \in [Chunks -> Nat]

VARIABLES
  phase,    \* query, prompt, ground, or the result
  lists,    \* what each store has returned
  context,  \* the hits in the prompt, best first: [key, score]
  answer    \* [citations, grounded, synthesis]

answerVars == <<phase, lists, context, answer>>

StoreNames == {Stores[n] : n \in DOMAIN Stores}
NoAnswer == [citations |-> <<>>, grounded |-> FALSE, synthesis |-> "fallback"]

List(state, hits) == [state |-> state, hits |-> hits]

AnswersInit ==
  /\ phase = "query"
  /\ lists = [s \in StoreNames |-> List("running", <<>>)]
  /\ context = <<>> /\ answer = NoAnswer

\* The graph knows a chunk by the id of its point, the others by its index.
Key(s, c) == <<IF s = "graph" THEN "point" ELSE "index", c>>
Ranked(s) ==
  LET keys == {Key(s, c) : c \in Chunks} IN
    {l \in UNION {[1..n -> keys] : n \in 0..Candidates} :
       \A i, j \in DOMAIN l : l[i] = l[j] => i = j}

searchSimilar == Ranked("vector")
searchFullText == Ranked("text")
searchByEntities == Ranked("graph")
Rankings(s) == CASE s = "vector" -> searchSimilar
                 [] s = "text" -> searchFullText
                 [] s = "graph" -> searchByEntities

tryRun(s) ==
  /\ phase = "query" /\ lists[s].state = "running"
  /\ \E l \in {List("ranked", hits) : hits \in Rankings(s)} \cup {List("failed", <<>>)} :
       lists' = [lists EXCEPT ![s] = l]
  /\ UNCHANGED <<phase, context, answer>>

-----------------------------------------------------------------------------
(* fuse *)

\* Scores in units of 1 / Unit, so that they are whole numbers.
Unit == LET product[n \in 0..Candidates] ==
              IF n = 0 THEN 1 ELSE product[n - 1] * (RRF_K + n)
        IN product[Candidates]
Contribution(rank) == Unit \div (RRF_K + rank)

Answered == {s \in StoreNames : lists[s].state = "ranked"}
RankIn(s, k) == CHOOSE n \in DOMAIN lists[s].hits : lists[s].hits[n] = k
Having(k) == {s \in Answered : \E n \in DOMAIN lists[s].hits : lists[s].hits[n] = k}
Found == {k \in {Key(s, c) : s \in Answered, c \in Chunks} : Having(k) # {}}

\* What the list of a store adds to the score of a hit.
Part(s, k) == IF s \in Having(k) THEN Contribution(RankIn(s, k)) ELSE 0
Score(k) == Part("vector", k) + Part("text", k) + Part("graph", k)

\* The order in which the hits were first met, which a stable sort keeps.
First(k) ==
  LET n == CHOOSE n \in DOMAIN Stores :
             Stores[n] \in Having(k) /\ \A m \in 1..n - 1 : Stores[m] \notin Having(k)
  IN <<n, RankIn(Stores[n], k)>>
MetFirst(k, l) ==
  \/ First(k)[1] < First(l)[1]
  \/ First(k)[1] = First(l)[1] /\ First(k)[2] < First(l)[2]
\* Mutant: sorted from the worst to the best.
Ascending(k, l) == Score(k) < Score(l) \/ (Score(k) = Score(l) /\ MetFirst(k, l))
Precedes(k, l) == Score(k) > Score(l) \/ (Score(k) = Score(l) /\ MetFirst(k, l))

Place(k) == Cardinality({l \in Found : Precedes(l, k)}) + 1
Fused ==
  LET all == [n \in 1..Cardinality(Found) |-> CHOOSE k \in Found : Place(k) = n] IN
    SubSeq(all, 1, IF Len(all) < Limit THEN Len(all) ELSE Limit)

-----------------------------------------------------------------------------
(* ChatService.answer *)

\* The hits whose text starts within the budget; a text that is cut ends with
\* an ellipsis.
buildContext(hits) ==
  LET size(n) == Characters[hits[n][2]]
      left[n \in 0..Len(hits)] ==
        IF n = 0 THEN Budget
        ELSE left[n - 1] - (IF size(n) > left[n - 1] THEN left[n - 1] + 1 ELSE size(n))
      kept == {n \in 1..Len(hits) : \A m \in 0..n - 1 : left[m] > 0}
  IN [n \in 1..Cardinality(kept) |-> [key |-> hits[n], score |-> Score(hits[n])]]

\* Every store has answered or failed.
search ==
  /\ phase = "query" /\ \A s \in StoreNames : lists[s].state # "running"
  /\ \/ Answered = {} /\ phase' = "unavailable" /\ UNCHANGED context
     \/ Answered # {} /\ Fused = <<>> /\ phase' = "answered" /\ UNCHANGED context
     \/ Answered # {} /\ Fused # <<>> /\ phase' = "prompt" /\ context' = buildContext(Fused)
  /\ UNCHANGED <<lists, answer>>

\* The citations of the model that are in the context, each once.
KeysInContext == {context[n].key : n \in DOMAIN context}
InContext(k) == {n \in DOMAIN context : context[n].key = k}
\* Mutant: what the model cites is not looked up.
AnyString(raw, n) == \A m \in 1..n - 1 : raw[m] # raw[n]
Accepted(raw, n) == InContext(raw[n]) # {} /\ \A m \in 1..n - 1 : raw[m] # raw[n]

Validated(raw) ==
  LET take[n \in 0..Len(raw)] ==
        IF n = 0 THEN <<>>
        ELSE IF Accepted(raw, n) THEN Append(take[n - 1], raw[n]) ELSE take[n - 1]
  IN take[Len(raw)]

ScoreInContext(k) == IF InContext(k) = {} THEN 0
                     ELSE context[CHOOSE n \in InContext(k) : TRUE].score
Top(S) == IF S = {} THEN 0 ELSE CHOOSE t \in S : \A u \in S : u <= t

groundAnswer(raw) ==
  LET citations == Validated(raw)
      topCited == Top({ScoreInContext(citations[n]) : n \in DOMAIN citations})
      topCandidate == Top({context[n].score : n \in DOMAIN context})
      grounded == citations # <<>> /\ 1000 * topCited >= MinScore * Unit
  IN [citations |-> citations, grounded |-> grounded,
      synthesis |-> IF ~grounded THEN "fallback"
                    ELSE IF topCited = topCandidate THEN "direct" ELSE "derived"]

\* parseLlmAnswer: what the model cites, up to a bound of two.
Parsed == UNION {[1..n -> KeysInContext \cup Fabricated] : n \in 0..2}

\* The model is out of reach, or its answer cannot be parsed.
LlmUnavailable == phase' = "llm unavailable" /\ UNCHANGED answer

complete ==
  /\ phase = "prompt"
  /\ \/ LlmUnavailable
     \/ \E raw \in Parsed : answer' = groundAnswer(raw) /\ phase' = "answered"
  /\ UNCHANGED <<lists, context>>

AnswersNext == (\E s \in StoreNames : tryRun(s)) \/ search \/ complete

AnswersSpec == AnswersInit /\ [][AnswersNext]_answerVars

-----------------------------------------------------------------------------
\* An answer cites nothing that a store did not return for this question, and
\* nothing twice.
CitationsWereRetrieved ==
  /\ \A n \in DOMAIN answer.citations : answer.citations[n] \in Found
  /\ \A n, m \in DOMAIN answer.citations : answer.citations[n] = answer.citations[m] => n = m

\* A hit that every store with the other has too, and ranks before it, comes
\* before it in the context.
FusionKeepsDominance ==
  phase # "query" =>
    \A n, m \in DOMAIN context :
      /\ n # m /\ Having(context[m].key) \subseteq Having(context[n].key)
      /\ \A s \in Having(context[m].key) :
           RankIn(s, context[n].key) < RankIn(s, context[m].key)
      => n < m
=============================================================================
