--------------------------- MODULE KnowledgeProofs ---------------------------
(***************************************************************************)
(* Theorems about Knowledge, for any number of documents, requests and     *)
(* workers, any stores and texts of any length.                            *)
(***************************************************************************)
EXTENDS Knowledge, WellFoundedInduction, FiniteSetTheorems, TLAPS

StoreNames == {Stores[i] : i \in 1..Len(Stores)}
Active(r) == request[r] # Idle

-----------------------------------------------------------------------------
(* Requests *)

\* Until it enqueues, a request owes a job to every store; then it owes some.
AllIsOwed ==
  \A r \in Requests : Active(r) =>
    IF request[r].at = "enqueue" THEN request[r].rest # <<>> ELSE request[r].rest = Stores

\* A request has a text from the moment it has fetched it.
TextIsKnown ==
  \A r \in Requests : Active(r) =>
    /\ request[r].at \in {"put", "commit", "append", "enqueue"} => request[r].text \in Texts
    /\ request[r].at \in {"commit", "append", "enqueue"} => clean[request[r].of] # 0

\* Jobs are about documents whose clean text was put.
JobsHaveText ==
  /\ \A s \in StoreSet, d \in Docs : jobs[s][d] > 0 => clean[d] # 0
  /\ \A w \in Workers : Busy(w) =>
       /\ clean[worker[w].of] # 0
       /\ worker[w].at # "read" => worker[w].text \in Texts

(* Documents in PROCESSING *)

Unfinished == {"fetch", "put", "commit", "fail"}
ProcessingIsOwned ==
  \A d \in Docs : doc[d] = "PROCESSING" =>
    d \in abandoned \/ \E r \in Requests : request[r].at \in Unfinished /\ request[r].of = d

(* Documents that are found *)

\* Two requests about one document overlap.
RequestsOverlap ==
  \A q, r \in Requests :
    q # r /\ Active(q) /\ Active(r) /\ request[q].of = request[r].of =>
      request[q].of \in overlapped

Started(d) ==
  \E s \in StoreSet : jobs[s][d] > 0 \/ Writing(s, d) # {} \/ \E k \in Chunks : index[s][d][k] # 0

\* What is on its way to a store is of a document that is INDEXED, and whose
\* request does nothing any more but enqueue.
StartedIsIndexed ==
  \A d \in Docs \ overlapped : Started(d) =>
    doc[d] = "INDEXED" /\ \A r \in On(d) : request[r].at = "enqueue"

Committed == {"append", "enqueue"}
CommittedIsIndexed ==
  \A r \in Requests : request[r].at \in Committed /\ request[r].of \notin overlapped =>
    doc[request[r].of] = "INDEXED"

\* A document that is registered, and not or no longer INDEXED, was lost on its
\* way to every store.
RegisteredIsIndexed ==
  \A d \in registry \ overlapped :
    \/ \A s \in StoreNames : d \in lost[s]
    \/ doc[d] = "INDEXED" /\ \A r \in On(d) : request[r].at \in Committed

(* Indexes that are current *)

\* A job is under way, or will be.
Coming(s, d) == jobs[s][d] > 0 \/ \E r \in On(d) : s \in Owed(r)

Current(s, d) == \A k \in 1..Length[clean[d]] : index[s][d][k] = clean[d]

\* What a worker has read and is no longer in storage is followed by another job.
StaleIsFollowed ==
  \A w \in Workers, s \in StoreNames, d \in Docs :
    /\ Busy(w) /\ worker[w].at # "read" /\ worker[w].store = s /\ worker[w].of = d
    /\ d \notin lost[s] \cup raced[s] /\ worker[w].text # clean[d]
    => Coming(s, d)

\* Two workers on one document and store are known to race.
WritersRace ==
  \A v, w \in Workers :
    /\ v # w /\ Busy(v) /\ Busy(w)
    /\ worker[v].of = worker[w].of /\ worker[v].store = worker[w].store
    => worker[v].of \in raced[worker[v].store]

IndexedOrComing ==
  \A s \in StoreNames : \A d \in Docs :
    clean[d] # 0 /\ d \notin lost[s] \cup raced[s] =>
      Current(s, d) \/ Coming(s, d) \/ Writing(s, d) # {}

IInv ==
  /\ TypeOK /\ AllIsOwed /\ TextIsKnown /\ JobsHaveText /\ ProcessingIsOwned
  /\ RequestsOverlap /\ StartedIsIndexed /\ CommittedIsIndexed /\ RegisteredIsIndexed
  /\ StaleIsFollowed /\ WritersRace /\ IndexedOrComing
-----------------------------------------------------------------------------
(***************************************************************************)
(* Records, and functions of two arguments.                                *)
(***************************************************************************)

LEMMA NestedUpdate ==
  ASSUME NEW S, NEW D, NEW V, NEW f \in [S -> [D -> V]], NEW s \in S, NEW d \in D, NEW v \in V
  PROVE  /\ [f EXCEPT ![s][d] = v] \in [S -> [D -> V]]
         /\ [f EXCEPT ![s][d] = v][s][d] = v
         /\ \A u \in S, e \in D : u # s \/ e # d => [f EXCEPT ![s][d] = v][u][e] = f[u][e]
  OBVIOUS

RequestSteps == {"claim", "fetch", "put", "commit", "append", "enqueue", "fail"}
Known == {0} \cup Texts

LEMMA RequestState ==
  ASSUME NEW s \in {Idle} \cup Ingesting
  PROVE  /\ s = Idle <=> s.at = "idle"
         /\ s # Idle <=> s \in Ingesting
         /\ s # Idle => /\ s.at \in RequestSteps /\ s.of \in Docs /\ s.text \in Known
                        /\ s.rest \in Suffixes
<1>1. Idle.at = "idle"
  BY DEF Idle
<1>2. s \in Ingesting => /\ s.at \in RequestSteps /\ s.of \in Docs /\ s.text \in Known
                         /\ s.rest \in Suffixes
  BY DEF Ingesting, RequestSteps, Known
<1>3. "idle" \notin RequestSteps
  BY DEF RequestSteps
<1> QED
  BY <1>1, <1>2, <1>3

LEMMA RequestAtStep ==
  ASSUME NEW s \in Ingesting, NEW at \in RequestSteps, NEW n, n = [s EXCEPT !.at = at]
  PROVE  n \in Ingesting /\ n.at = at /\ n.of = s.of /\ n.text = s.text /\ n.rest = s.rest
  BY DEF Ingesting, RequestSteps, Known

WorkerSteps == {"read", "ensure", "create", "finish", "write"}

LEMMA WorkerState ==
  ASSUME NEW s \in {Idle} \cup Indexing
  PROVE  /\ s = Idle <=> s.at = "idle"
         /\ s # Idle <=> s \in Indexing
         /\ s # Idle => /\ s.at \in WorkerSteps /\ s.of \in Docs /\ s.store \in StoreSet
                        /\ s.text \in Known
<1>1. Idle.at = "idle"
  BY DEF Idle
<1>2. s \in Indexing => /\ s.at \in WorkerSteps /\ s.of \in Docs /\ s.store \in StoreSet
                        /\ s.text \in Known
  BY DEF Indexing, WorkerSteps, Known
<1>3. "idle" \notin WorkerSteps
  BY DEF WorkerSteps
<1> QED
  BY <1>1, <1>2, <1>3

LEMMA NextWorkerState ==
  ASSUME NEW s \in Indexing, NEW at \in WorkerSteps, NEW text \in Known
  PROVE  /\ LET n == [s EXCEPT !.at = at] IN
              /\ n \in Indexing /\ n.at = at /\ n.of = s.of /\ n.store = s.store
              /\ n.text = s.text
         /\ LET n == [s EXCEPT !.at = at, !.text = text] IN
              /\ n \in Indexing /\ n.at = at /\ n.of = s.of /\ n.store = s.store
              /\ n.text = text
  BY DEF Indexing, WorkerSteps, Known

LEMMA StoresAreKnown ==
  /\ Stores \in Suffixes /\ StoreNames \subseteq StoreSet
  /\ \A rest \in Suffixes : rest \in Seq(StoreSet) /\ (rest # <<>> => Tail(rest) \in Suffixes)
<1>1. Stores \in Seq(StoreSet) /\ Len(Stores) \in Nat
  BY KnowledgeAssumption
<1> HIDE DEF StoreSet
<1>2. Stores = SubSeq(Stores, 1, Len(Stores))
  BY <1>1
<1>3. Stores \in Suffixes
  BY <1>1, <1>2 DEF Suffixes
<1>4. \A i \in 1..Len(Stores) : Stores[i] \in StoreSet
  BY <1>1
<1>5. ASSUME NEW rest \in Suffixes
      PROVE  rest \in Seq(StoreSet) /\ (rest # <<>> => Tail(rest) \in Suffixes)
  <2>1. PICK i \in 1..Len(Stores) + 1 : rest = SubSeq(Stores, i, Len(Stores))
    BY DEF Suffixes
  <2>2. rest \in Seq(StoreSet)
    BY <1>1, <2>1
  <2>3. ASSUME rest # <<>>
        PROVE  Tail(rest) \in Suffixes
    <3>1. i \in 1..Len(Stores)
      BY <1>1, <2>1, <2>3
    <3>2. Tail(rest) = SubSeq(Stores, i + 1, Len(Stores))
      BY <1>1, <2>1, <3>1
    <3>3. i + 1 \in 1..Len(Stores) + 1
      BY <1>1, <3>1
    <3> QED
      BY <3>2, <3>3 DEF Suffixes
  <2> QED
    BY <2>2, <2>3
<1> QED
  BY <1>3, <1>4, <1>5 DEF StoreNames

LEMMA TextsAreNumbers ==
  \A v \in Texts : v \in Versions /\ v # 0 /\ Length[v] \in Nat
<1>1. Length \in Seq(Nat)
  BY KnowledgeAssumption
<1> QED
  BY <1>1 DEF Texts, Versions

LEMMA LeastExists ==
  ASSUME NEW T, T \subseteq Nat, T # {}
  PROVE  \E t \in T : \A u \in T : t <= u
<1>1. PICK t \in T : \A u \in T : ~(<<u, t>> \in OpToRel(<, Nat))
  BY NatLessThanWellFounded, WFMin
<1>2. ASSUME NEW u \in T PROVE t <= u
  <2>1. ~(u < t)
    BY <1>1 DEF OpToRel
  <2> QED
    BY <2>1
<1> QED
  BY <1>2

\* The chunks are those of the longest text.
LEMMA ChunksCover ==
  ASSUME NEW v \in Texts
  PROVE  1..Length[v] \subseteq Chunks
<1> DEFINE last == Len(Length)
           Bound(n, b) == b \in Nat /\ \A u \in 1..n : Length[u] <= b
           Without == {n \in 0..last : \A b \in Nat : ~Bound(n, b)}
           lengths == {Length[u] : u \in Versions}
           bounds == {b \in Nat : Bound(last, b)}
<1>1. last \in Nat /\ Versions = 1..last /\ \A u \in 1..last : Length[u] \in Nat
  BY KnowledgeAssumption DEF Versions
<1> HIDE DEF last
<1>2. v \in Versions
  BY DEF Texts
<1>3. Without = {}
  <2> SUFFICES ASSUME Without # {}
               PROVE  FALSE
    OBVIOUS
  <2>1. Without \subseteq Nat
    BY <1>1
  <2>2. PICK n \in Without : \A m \in Without : n <= m
    BY <2>1, LeastExists
  <2>3. n # 0
    <3>1. Bound(0, 0)
      OBVIOUS
    <3> QED
      BY <2>2, <3>1
  <2>4. n \in 1..last /\ n - 1 \in 0..last /\ n - 1 \notin Without
    <3>1. n \in 0..last
      BY <2>2
    <3>2. n \in 1..last /\ n - 1 \in 0..last /\ ~(n <= n - 1)
      BY <1>1, <2>3, <3>1
    <3> HIDE DEF Without
    <3> QED
      BY <2>2, <3>2
  <2>5. PICK b \in Nat : Bound(n - 1, b)
    BY <2>4
  <2>6. PICK c \in Nat : b <= c /\ Length[n] <= c
    <3>1. Length[n] \in Nat
      BY <1>1, <2>4
    <3>2. CASE b <= Length[n]
      BY <3>1, <3>2
    <3>3. CASE ~(b <= Length[n])
      BY <3>1, <3>3
    <3> QED
      BY <3>2, <3>3
  <2>7. Bound(n, c)
    <3>1. \A u \in 1..n : u = n \/ u \in 1..(n - 1)
      BY <2>4
    <3>2. \A u \in 1..n : Length[u] \in Nat
      BY <1>1, <2>4
    <3>3. ASSUME NEW u \in 1..n
          PROVE  Length[u] <= c
      <4>1. Length[u] \in Nat
        BY <3>2
      <4>2. CASE u = n
        BY <2>6, <4>2
      <4>3. CASE u \in 1..(n - 1)
        <5>1. Length[u] <= b
          BY <2>5, <4>3
        <5> QED
          BY <2>5, <2>6, <4>1, <5>1
      <4> QED
        BY <3>1, <4>2, <4>3
    <3> QED
      BY <3>3
  <2> QED
    BY <2>2, <2>7
<1>4. bounds # {} /\ bounds \subseteq Nat
  <2>1. last \in 0..last
    BY <1>1
  <2> QED
    BY <1>3, <2>1
<1>5. PICK b \in bounds : \A c \in bounds : b <= c
  BY <1>4, LeastExists
<1>6. b \in lengths
  <2> SUFFICES ASSUME b \notin lengths
               PROVE  FALSE
    OBVIOUS
  <2>1. \A u \in Versions : Length[u] \in Nat /\ Length[u] <= b /\ Length[u] # b
    BY <1>1, <1>5
  <2>2. b # 0 /\ b \in Nat
    BY <1>2, <1>5, <2>1
  <2>3. b - 1 \in Nat /\ \A u \in 1..last : Length[u] <= b - 1
    BY <1>1, <2>1, <2>2
  <2>4. b - 1 \in bounds
    BY <2>3
  <2> QED
    BY <1>5, <2>2, <2>4
<1>7. \E n \in lengths : \A u \in Versions : Length[u] <= n
  BY <1>1, <1>5, <1>6
<1> DEFINE longest == CHOOSE n \in lengths : \A u \in Versions : Length[u] <= n
<1>8. longest \in lengths /\ \A u \in Versions : Length[u] <= longest
  BY <1>7
<1>9. Length[v] <= longest /\ longest \in Nat /\ Length[v] \in Nat
  BY <1>1, <1>2, <1>8
<1> HIDE DEF longest
<1>10. 1..Length[v] \subseteq 1..longest
  BY <1>9
<1> QED
  BY <1>10 DEF longest, Chunks

-----------------------------------------------------------------------------
(***************************************************************************)
(* A step of a request: what the parts of the invariant need of it.        *)
(***************************************************************************)

OwedBy(s) ==
  IF s.at \in {"put", "commit", "append", "enqueue"}
  THEN {s.rest[i] : i \in 1..Len(s.rest)} ELSE {}

\* What it does to the rows and the jobs of its document, and to no other.
KeepsOthers(d) ==
  /\ \A e \in Docs \ {d} : doc'[e] = doc[e] /\ clean'[e] = clean[e]
  /\ clean[d] # 0 => clean'[d] # 0
  /\ abandoned \subseteq abandoned'
  /\ registry \subseteq registry' /\ registry' \subseteq registry \cup {d}
  /\ \A t \in StoreSet : lost[t] \subseteq lost'[t]
  /\ UNCHANGED <<overlapped, worker, index, raced>>

JobsFrom(d, enqueues) ==
  \A t \in StoreSet, e \in Docs :
    jobs'[t][e] # jobs[t][e] => enqueues /\ e = d /\ jobs'[t][e] > 0

Goes(r, d, s) ==
  /\ request' = [request EXCEPT ![r] = s]
  /\ s # Idle =>
       /\ s.of = d
       /\ IF s.at = "enqueue" THEN s.rest # <<>> ELSE s.rest = Stores
       /\ s.at \in {"put", "commit", "append", "enqueue"} => s.text \in Texts
       /\ s.at \in {"commit", "append", "enqueue"} => clean'[d] # 0

StaysOwned(r, d, s) ==
  doc'[d] = "PROCESSING" =>
    \/ d \in abandoned' \/ s.at \in Unfinished
    \/ doc[d] = "PROCESSING" /\ request[r].at \notin Unfinished

StaysCommitted(r, d, s) ==
  /\ request[r].at = "enqueue" => doc'[d] = doc[d] /\ s.at \in {"idle", "enqueue"}
  /\ s.at \in Committed =>
       doc'[d] = "INDEXED" \/ (doc'[d] = doc[d] /\ request[r].at \in Committed)
  /\ d \in registry' /\ d \notin overlapped =>
       \/ \A t \in StoreNames : d \in lost'[t]
       \/ doc'[d] = "INDEXED" /\ s.at \in {"idle"} \cup Committed

StaysOwed(r, d, s) ==
  \A t \in StoreNames :
    /\ t \in Owed(r) => t \in OwedBy(s) \/ d \in lost'[t] \/ jobs'[t][d] > 0
    /\ clean'[d] # clean[d] => t \in OwedBy(s) \/ d \in lost'[t]

RequestGoes(r, d, s) ==
  /\ KeepsOthers(d) /\ JobsFrom(d, request[r].at = "enqueue") /\ Goes(r, d, s)
  /\ StaysOwned(r, d, s) /\ StaysCommitted(r, d, s) /\ StaysOwed(r, d, s)

LEMMA RequestMoves ==
  ASSUME TypeOK, NEW r \in Requests, NEW s \in {Idle} \cup Ingesting,
         request' = [request EXCEPT ![r] = s]
  PROVE  /\ request' \in [Requests -> {Idle} \cup Ingesting]
         /\ request'[r] = s /\ \A q \in Requests \ {r} : request'[q] = request[q]
  BY DEF TypeOK

LEMMA RequestStep ==
  ASSUME IInv, TypeOK', NEW r \in Requests, Active(r), NEW d \in Docs, d = request[r].of,
         NEW s \in {Idle} \cup Ingesting, RequestGoes(r, d, s)
  PROVE  IInv'
<1>1. /\ request'[r] = s /\ \A q \in Requests \ {r} : request'[q] = request[q]
  BY RequestMoves DEF IInv, RequestGoes, Goes
<1>2. /\ s # Idle <=> s.at # "idle"
      /\ s # Idle => s.of = d
      /\ \A q \in Requests : Active(q) <=> request[q].at # "idle"
      /\ \A q \in Requests : Active(q)' <=> request'[q].at # "idle"
  BY RequestState DEF RequestGoes, Goes, IInv, TypeOK, Active
<1>3. KeepsOthers(d) /\ JobsFrom(d, request[r].at = "enqueue")
  BY DEF RequestGoes
<1>4. AllIsOwed'
  BY <1>1 DEF AllIsOwed, Active, RequestGoes, Goes, IInv
<1>5. \A e \in Docs : clean[e] # 0 => clean'[e] # 0
  BY <1>3 DEF KeepsOthers
<1>6. \A q \in Requests : Active(q) => request[q].of \in Docs
  BY RequestState DEF Active, IInv, TypeOK
<1>7. TextIsKnown'
  BY <1>1, <1>5, <1>6 DEF TextIsKnown, Active, RequestGoes, Goes, IInv
<1>8. \A w \in Workers : Busy(w) => worker[w].of \in Docs /\ worker[w].store \in StoreSet
  BY WorkerState DEF Busy, IInv, TypeOK
<1>9. JobsHaveText'
  <2>1. ASSUME NEW t \in StoreSet, NEW e \in Docs, jobs'[t][e] > 0
        PROVE  clean'[e] # 0
    <3>1. CASE jobs'[t][e] = jobs[t][e]
      BY <1>5, <2>1, <3>1 DEF IInv, JobsHaveText
    <3>2. CASE jobs'[t][e] # jobs[t][e]
      <4>1. request[r].at = "enqueue" /\ e = d
        BY <1>3, <3>2 DEF JobsFrom
      <4> QED
        BY <1>5, <4>1 DEF IInv, TextIsKnown
    <3> QED
      BY <3>1, <3>2
  <2> QED
    BY <1>3, <1>5, <1>8, <2>1 DEF IInv, JobsHaveText, KeepsOthers, Busy
<1>10. ProcessingIsOwned'
  <2> SUFFICES ASSUME NEW e \in Docs, doc'[e] = "PROCESSING", e \notin abandoned'
               PROVE  \E q \in Requests : request'[q].at \in Unfinished /\ request'[q].of = e
    BY DEF ProcessingIsOwned
  <2>1. CASE e # d
    BY <1>1, <1>3, <2>1 DEF IInv, ProcessingIsOwned, KeepsOthers
  <2>2. CASE e = d /\ s.at \in Unfinished
    BY <1>1, <1>2, <2>2 DEF Unfinished
  <2>3. CASE e = d /\ doc[d] = "PROCESSING" /\ request[r].at \notin Unfinished
    BY <1>1, <1>3, <2>3 DEF IInv, ProcessingIsOwned, KeepsOthers
  <2> QED
    BY <2>1, <2>2, <2>3 DEF RequestGoes, StaysOwned
<1>11. RequestsOverlap'
  BY <1>1, <1>2, <1>3 DEF IInv, RequestsOverlap, KeepsOthers, Active
<1>12. ASSUME d \notin overlapped
       PROVE  \A q \in Requests : Active(q) /\ request[q].of = d => q = r
  BY <1>12 DEF IInv, RequestsOverlap
<1>13. \A e \in Docs : On(e) = {q \in Requests : Active(q) /\ request[q].of = e}
  BY DEF On, Active
<1>14. \A e \in Docs : On(e)' = {q \in Requests : Active(q)' /\ request'[q].of = e}
  BY DEF On, Active
<1>15. StartedIsIndexed'
  <2> SUFFICES ASSUME NEW e \in Docs, e \notin overlapped, Started(e)'
               PROVE  doc'[e] = "INDEXED" /\ \A q \in On(e)' : request'[q].at = "enqueue"
    BY <1>3 DEF StartedIsIndexed, KeepsOthers
  <2>1. Started(e) \/ (e = d /\ request[r].at = "enqueue")
    BY <1>3 DEF Started, KeepsOthers, JobsFrom, Writing, Busy
  <2>2. CASE e # d
    <3>1. doc[e] = "INDEXED" /\ \A q \in On(e) : request[q].at = "enqueue"
      BY <2>1, <2>2 DEF IInv, StartedIsIndexed
    <3> QED
      BY <1>1, <1>2, <1>3, <1>13, <1>14, <2>2, <3>1 DEF KeepsOthers, Active
  <2>3. CASE e = d
    <3>1. doc[d] = "INDEXED" /\ request[r].at = "enqueue"
      <4>1. CASE Started(d)
        BY <1>13, <2>3, <4>1 DEF IInv, StartedIsIndexed
      <4>2. CASE request[r].at = "enqueue"
        BY <2>3, <4>2 DEF IInv, CommittedIsIndexed, Committed
      <4> QED
        BY <2>1, <2>3, <4>1, <4>2
    <3>2. doc'[d] = doc[d] /\ s.at \in {"idle", "enqueue"}
      BY <3>1 DEF RequestGoes, StaysCommitted
    <3>3. ASSUME NEW q \in Requests, Active(q)', request'[q].of = d
          PROVE  request'[q].at = "enqueue"
      <4>1. q = r
        BY <1>1, <1>12, <2>3, <3>3 DEF Active
      <4> QED
        BY <1>1, <1>2, <3>2, <3>3, <4>1
    <3> QED
      BY <1>14, <2>3, <3>1, <3>2, <3>3
  <2> QED
    BY <2>2, <2>3
<1>16. CommittedIsIndexed'
  <2> SUFFICES ASSUME NEW q \in Requests, request'[q].at \in Committed,
                      request'[q].of \notin overlapped
               PROVE  doc'[request'[q].of] = "INDEXED"
    BY <1>3 DEF CommittedIsIndexed, KeepsOthers
  <2>1. request'[q].at # "idle"
    BY DEF Committed
  <2>2. CASE q = r
    BY <1>1, <1>2, <2>1, <2>2 DEF RequestGoes, StaysCommitted, IInv, CommittedIsIndexed
  <2>3. CASE q # r
    <3>1. request'[q] = request[q] /\ Active(q)
      BY <1>1, <1>2, <2>1, <2>3
    <3>2. request[q].of # d /\ request[q].of \in Docs
      BY <1>6, <1>12, <2>3, <3>1
    <3> QED
      BY <1>3, <3>1, <3>2 DEF KeepsOthers, IInv, CommittedIsIndexed
  <2> QED
    BY <2>2, <2>3
<1>17. RegisteredIsIndexed'
  <2> SUFFICES ASSUME NEW e \in registry', e \notin overlapped
               PROVE  \/ \A t \in StoreNames : e \in lost'[t]
                      \/ doc'[e] = "INDEXED" /\ \A q \in On(e)' : request'[q].at \in Committed
    BY <1>3 DEF RegisteredIsIndexed, KeepsOthers
  <2>1. e \in Docs
    BY DEF TypeOK
  <2>2. CASE e = d
    <3>1. \/ \A t \in StoreNames : d \in lost'[t]
          \/ doc'[d] = "INDEXED" /\ s.at \in {"idle"} \cup Committed
      BY <2>2 DEF RequestGoes, StaysCommitted
    <3>2. ASSUME NEW q \in Requests, Active(q)', request'[q].of = d,
                 s.at \in {"idle"} \cup Committed
          PROVE  request'[q].at \in Committed
      <4>1. q = r
        BY <1>1, <1>12, <2>2, <3>2 DEF Active
      <4> QED
        BY <1>1, <1>2, <3>2, <4>1
    <3> QED
      BY <1>14, <2>2, <3>1, <3>2
  <2>3. CASE e # d
    <3>1. e \in registry
      BY <1>3, <2>3 DEF KeepsOthers
    <3>2. \/ \A t \in StoreNames : e \in lost[t]
          \/ doc[e] = "INDEXED" /\ \A q \in On(e) : request[q].at \in Committed
      BY <3>1 DEF IInv, RegisteredIsIndexed
    <3>3. ASSUME NEW q \in On(e)'
          PROVE  q \in On(e) /\ request'[q] = request[q]
      <4>1. q \in Requests /\ Active(q)' /\ request'[q].of = e
        BY <1>14, <2>1
      <4>2. q # r
        BY <1>1, <1>2, <2>3, <4>1
      <4> QED
        BY <1>1, <1>13, <2>1, <4>1, <4>2 DEF Active
    <3>4. CASE \A t \in StoreNames : e \in lost[t]
      BY <1>3, <3>4, StoresAreKnown DEF KeepsOthers
    <3>5. CASE doc[e] = "INDEXED" /\ \A q \in On(e) : request[q].at \in Committed
      <4>1. doc'[e] = "INDEXED"
        BY <1>3, <2>1, <2>3, <3>5 DEF KeepsOthers
      <4>2. \A q \in On(e)' : request'[q].at \in Committed
        BY <3>3, <3>5
      <4> QED
        BY <4>1, <4>2
    <3> QED
      BY <3>2, <3>4, <3>5
  <2> QED
    BY <2>2, <2>3
<1>18. Idle.at = "idle"
  BY DEF Idle
<1>19. ASSUME NEW t \in StoreNames, NEW e \in Docs, Coming(t, e), e \notin lost'[t]
       PROVE  Coming(t, e)'
  <2>1. CASE jobs[t][e] > 0
    <3>1. jobs'[t][e] > 0
      BY <1>3, <2>1, StoresAreKnown DEF JobsFrom
    <3> QED
      BY <3>1 DEF Coming
  <2>2. CASE \E q \in On(e) : t \in Owed(q)
    <3>1. PICK q \in On(e) : t \in Owed(q)
      BY <2>2
    <3>2. CASE q # r
      <4>1. q \in On(e)' /\ t \in Owed(q)'
        BY <1>1, <3>1, <3>2 DEF On, Owed
      <4> QED
        BY <4>1 DEF Coming
    <3>3. CASE q = r
      <4>1. e = d
        BY <3>1, <3>3 DEF On
      <4>2. t \in OwedBy(s) \/ jobs'[t][d] > 0
        BY <1>19, <3>1, <3>3, <4>1 DEF RequestGoes, StaysOwed
      <4>3. ASSUME t \in OwedBy(s)
            PROVE  r \in On(e)' /\ t \in Owed(r)'
        BY <1>1, <1>2, <1>18, <4>1, <4>3 DEF OwedBy, Owed, On
      <4> QED
        BY <4>1, <4>2, <4>3 DEF Coming
    <3> QED
      BY <3>2, <3>3
  <2> QED
    BY <1>19, <2>1, <2>2 DEF Coming
<1>20. ASSUME NEW t \in StoreNames, NEW e \in Docs, clean'[e] # clean[e], e \notin lost'[t]
       PROVE  Coming(t, e)'
  <2>1. e = d /\ t \in OwedBy(s)
    BY <1>3, <1>20 DEF KeepsOthers, RequestGoes, StaysOwed
  <2>2. r \in On(e)' /\ t \in Owed(r)'
    BY <1>1, <1>2, <1>18, <2>1 DEF OwedBy, Owed, On
  <2> QED
    BY <2>2 DEF Coming
<1>21. \A t \in StoreNames : t \in StoreSet /\ lost[t] \subseteq lost'[t]
  BY <1>3, StoresAreKnown DEF KeepsOthers
<1>22. StaleIsFollowed'
  <2> SUFFICES ASSUME NEW w \in Workers, NEW t \in StoreNames, NEW e \in Docs,
                      Busy(w), worker[w].at # "read", t = worker[w].store, e = worker[w].of,
                      e \notin lost'[t] \cup raced[t], worker[w].text # clean'[e]
               PROVE  Coming(t, e)'
    BY <1>3 DEF StaleIsFollowed, KeepsOthers, Busy
  <2>1. CASE clean'[e] # clean[e]
    BY <1>20, <2>1
  <2>2. CASE clean'[e] = clean[e]
    BY <1>19, <1>21, <2>2 DEF IInv, StaleIsFollowed
  <2> QED
    BY <2>1, <2>2
<1>23. WritersRace'
  BY <1>3 DEF IInv, WritersRace, KeepsOthers, Busy
<1>24. IndexedOrComing'
  <2> SUFFICES ASSUME NEW t \in StoreNames, NEW e \in Docs, clean'[e] # 0,
                      e \notin lost'[t] \cup raced[t]
               PROVE  Current(t, e)' \/ Coming(t, e)' \/ Writing(t, e) # {}
    BY <1>3 DEF IndexedOrComing, KeepsOthers, Writing, Busy
  <2>1. CASE clean'[e] # clean[e]
    BY <1>20, <2>1
  <2>2. CASE clean'[e] = clean[e]
    <3>1. Current(t, e) \/ Coming(t, e) \/ Writing(t, e) # {}
      BY <1>21, <2>2 DEF IInv, IndexedOrComing
    <3>2. Current(t, e) => Current(t, e)'
      BY <1>3, <2>2 DEF Current, KeepsOthers
    <3> QED
      BY <1>19, <3>1, <3>2
  <2> QED
    BY <2>1, <2>2
<1> QED
  BY <1>4, <1>7, <1>9, <1>10, <1>11, <1>15, <1>16, <1>17, <1>22, <1>23, <1>24 DEF IInv

\* A request at some step of its own: its record, and what it owes.
LEMMA RequestAt ==
  ASSUME IInv, NEW r \in Requests, request[r].at # "idle"
  PROVE  /\ Active(r) /\ request[r] \in Ingesting
         /\ request[r].at \in RequestSteps /\ request[r].of \in Docs
         /\ request[r].text \in Known /\ request[r].rest \in Suffixes
         /\ request[r].at # "enqueue" => request[r].rest = Stores
         /\ request[r].at = "enqueue" => request[r].rest # <<>>
         /\ Owed(r) = OwedBy(request[r])
         /\ request[r].at \in {"put", "commit", "append"} => Owed(r) = StoreNames
<1>1. request[r] \in {Idle} \cup Ingesting
  BY DEF IInv, TypeOK
<1>2. Active(r) /\ request[r] \in Ingesting
  BY <1>1, RequestState DEF Active
<1>3. /\ request[r].at # "enqueue" => request[r].rest = Stores
      /\ request[r].at = "enqueue" => request[r].rest # <<>>
  BY <1>2 DEF IInv, AllIsOwed
<1>4. Owed(r) = OwedBy(request[r])
  BY DEF Owed, OwedBy
<1>5. ASSUME request[r].at \in {"put", "commit", "append"}
      PROVE  OwedBy(request[r]) = StoreNames
  BY <1>3, <1>5 DEF OwedBy, StoreNames
<1> QED
  BY <1>1, <1>2, <1>3, <1>4, <1>5, RequestState DEF Active

\* A registered document whose request has yet to finish was lost on its way to
\* every store, or is INDEXED.
LEMMA RegisteredMeanwhile ==
  ASSUME IInv, NEW r \in Requests, Active(r), request[r].of \in registry,
         request[r].of \notin overlapped
  PROVE  \/ \A t \in StoreNames : request[r].of \in lost[t]
         \/ doc[request[r].of] = "INDEXED" /\ request[r].at \in Committed
<1>1. r \in On(request[r].of)
  BY DEF On, Active
<1> QED
  BY <1>1 DEF IInv, RegisteredIsIndexed

LEMMA RequestTypes ==
  ASSUME TypeOK, NEW r \in Requests, NEW s \in {Idle} \cup Ingesting,
         request' = [request EXCEPT ![r] = s],
         doc' \in [Docs -> Statuses], clean' \in [Docs -> {0} \cup Texts],
         registry' \subseteq Docs, abandoned' \subseteq Docs,
         lost' \in [StoreSet -> SUBSET Docs], jobs' \in [StoreSet -> [Docs -> Nat]],
         faults' \in 0..MaxFaults,
         UNCHANGED <<original, overlapped, ingests, storeVars>>
  PROVE  TypeOK'
BY DEF TypeOK, storeVars

LEMMA Loses ==
  ASSUME TypeOK, NEW d \in Docs, NEW S, Lose(S, d)
  PROVE  /\ lost' \in [StoreSet -> SUBSET Docs]
         /\ \A t \in StoreSet : lost[t] \subseteq lost'[t]
         /\ \A t \in StoreSet \cap S : d \in lost'[t]
         /\ \A t \in StoreSet, e \in Docs : e \in lost'[t] => e \in lost[t] \/ (e = d /\ t \in S)
BY DEF TypeOK, Lose

LEMMA Faulted ==
  ASSUME TypeOK, Fault
  PROVE  faults' \in 0..MaxFaults
BY KnowledgeAssumption DEF TypeOK, Fault

\* An update of one field is one of the record.
LEMMA StepsTo ==
  ASSUME IInv, NEW r \in Requests, request[r].at # "idle", NEW at \in RequestSteps, Step(r, at)
  PROVE  \E s \in Ingesting :
           /\ request' = [request EXCEPT ![r] = s] /\ s # Idle
           /\ s.at = at /\ s.of = request[r].of
           /\ s.text = request[r].text /\ s.rest = request[r].rest
<1>1. request[r] \in Ingesting
  BY RequestAt
<1> DEFINE s == [request[r] EXCEPT !.at = at]
<1>2. /\ s \in Ingesting /\ s.at = at /\ s.of = request[r].of
      /\ s.text = request[r].text /\ s.rest = request[r].rest
  BY <1>1, RequestAtStep
<1>3. s # Idle
  BY <1>2, RequestState DEF RequestSteps
<1>4. request' = [request EXCEPT ![r] = s]
  BY DEF Step
<1> HIDE DEF s
<1> QED
  BY <1>2, <1>3, <1>4

LEMMA ClaimKeeps ==
  ASSUME IInv, NEW r \in Requests, Claim(r)
  PROVE  IInv'
<1> DEFINE d == request[r].of
<1>1. request[r].at = "claim"
  BY DEF Claim
<1>2. /\ Active(r) /\ d \in Docs /\ request[r].rest = Stores /\ TypeOK
  BY <1>1, RequestAt DEF IInv
<1>3. PICK s \in Ingesting : /\ request' = [request EXCEPT ![r] = s]
                             /\ s # Idle /\ s.at = "fetch" /\ s.of = d /\ s.rest = Stores
  BY <1>1, <1>2, StepsTo DEF Claim, RequestSteps
<1>4. doc' \in [Docs -> Statuses] /\ \A e \in Docs \ {d} : doc'[e] = doc[e]
  BY <1>2 DEF Claim, TypeOK, Statuses
<1>5. TypeOK'
  BY <1>2, <1>3, <1>4, RequestTypes DEF Claim, TypeOK
<1>6. KeepsOthers(d) /\ JobsFrom(d, request[r].at = "enqueue")
  BY <1>2, <1>4 DEF Claim, KeepsOthers, JobsFrom, storeVars
<1>7. Goes(r, d, s) /\ StaysOwned(r, d, s)
  BY <1>3 DEF Goes, StaysOwned, Unfinished
<1>8. StaysCommitted(r, d, s)
  BY <1>1, <1>2, <1>3, RegisteredMeanwhile DEF Claim, StaysCommitted, Committed
<1>9. StaysOwed(r, d, s)
  BY <1>1 DEF Claim, StaysOwed, Owed
<1> HIDE DEF d
<1> QED
  BY <1>2, <1>3, <1>5, <1>6, <1>7, <1>8, <1>9, RequestStep DEF RequestGoes, d

LEMMA FetchKeeps ==
  ASSUME IInv, NEW r \in Requests, Fetch(r)
  PROVE  IInv'
<1> DEFINE d == request[r].of
           v == original[d]
<1>1. request[r].at = "fetch"
  BY DEF Fetch
<1>2. /\ Active(r) /\ d \in Docs /\ request[r].rest = Stores /\ TypeOK
      /\ request[r] \in Ingesting
  BY <1>1, RequestAt DEF IInv
<1>3. PICK s \in Ingesting : /\ request' = [request EXCEPT ![r] = s]
                             /\ s # Idle /\ s.of = d /\ s.rest = Stores
                             /\ s.at = "fail" \/ (s.at = "put" /\ s.text \in Texts)
  <2>1. CASE v \in Texts
    <3>1. PICK h \in Ingesting, text \in Texts : h = request[r] /\ text = v
      BY <1>2, <2>1
    <3> DEFINE n == [h EXCEPT !.at = "put", !.text = text]
    <3>2. n \in Ingesting /\ n.at = "put" /\ n.of = h.of /\ n.text = text /\ n.rest = h.rest
      BY DEF Ingesting
    <3>3. request' = [request EXCEPT ![r] = n]
      BY <2>1, <3>1 DEF Fetch
    <3> HIDE DEF n
    <3>4. n # Idle
      BY <3>2, RequestState
    <3> QED
      BY <1>2, <3>1, <3>2, <3>3, <3>4
  <2>2. CASE v \notin Texts
    <3>1. Step(r, "fail")
      BY <2>2 DEF Fetch, Step
    <3>2. "fail" \in RequestSteps
      BY DEF RequestSteps
    <3>3. request[r].at # "idle"
      BY <1>1
    <3>4. \E s \in Ingesting :
            /\ request' = [request EXCEPT ![r] = s] /\ s # Idle
            /\ s.at = "fail" /\ s.of = d /\ s.rest = request[r].rest
      BY <3>1, <3>2, <3>3, StepsTo
    <3> QED
      BY <1>2, <3>4
  <2> QED
    BY <2>1, <2>2
<1>4. TypeOK'
  BY <1>2, <1>3, RequestTypes DEF Fetch, TypeOK
<1>5. KeepsOthers(d) /\ JobsFrom(d, request[r].at = "enqueue")
  BY <1>2 DEF Fetch, KeepsOthers, JobsFrom, storeVars
<1>6. Goes(r, d, s) /\ StaysOwned(r, d, s)
  BY <1>3 DEF Goes, StaysOwned, Unfinished
<1>7. StaysCommitted(r, d, s)
  BY <1>1, <1>2, <1>3, RegisteredMeanwhile DEF Fetch, StaysCommitted, Committed
<1>8. StaysOwed(r, d, s)
  BY <1>1 DEF Fetch, StaysOwed, Owed
<1> HIDE DEF d
<1> QED
  BY <1>2, <1>3, <1>4, <1>5, <1>6, <1>7, <1>8, RequestStep DEF RequestGoes, d

LEMMA PutCleanKeeps ==
  ASSUME IInv, NEW r \in Requests, PutClean(r)
  PROVE  IInv'
<1> DEFINE d == request[r].of
<1>1. request[r].at = "put"
  BY DEF PutClean
<1>2. /\ Active(r) /\ d \in Docs /\ request[r].rest = Stores /\ TypeOK
      /\ Owed(r) = StoreNames
  BY <1>1, RequestAt DEF IInv
<1>3. PICK s \in Ingesting : /\ request' = [request EXCEPT ![r] = s] /\ s # Idle
                             /\ s.at = "commit" /\ s.of = d /\ s.rest = Stores
                             /\ s.text = request[r].text
  BY <1>1, <1>2, StepsTo DEF PutClean, RequestSteps
<1>4. request[r].text \in Texts /\ request[r].text # 0
  BY <1>1, <1>2, TextsAreNumbers DEF IInv, TextIsKnown
<1>5. /\ clean' \in [Docs -> {0} \cup Texts]
      /\ clean'[d] # 0 /\ \A e \in Docs \ {d} : clean'[e] = clean[e]
  BY <1>2, <1>4 DEF PutClean, TypeOK
<1>6. TypeOK'
  BY <1>2, <1>3, <1>5, RequestTypes DEF PutClean, TypeOK
<1>7. KeepsOthers(d) /\ JobsFrom(d, request[r].at = "enqueue")
  BY <1>2, <1>5 DEF PutClean, KeepsOthers, JobsFrom, storeVars
<1>8. Goes(r, d, s) /\ StaysOwned(r, d, s)
  BY <1>3, <1>4, <1>5 DEF Goes, StaysOwned, Unfinished
<1>9. StaysCommitted(r, d, s)
  BY <1>1, <1>2, <1>3, RegisteredMeanwhile DEF PutClean, StaysCommitted, Committed
<1>10. OwedBy(s) = StoreNames
  BY <1>3 DEF OwedBy, StoreNames
<1>11. StaysOwed(r, d, s)
  BY <1>2, <1>10 DEF StaysOwed
<1> HIDE DEF d
<1> QED
  BY <1>2, <1>3, <1>6, <1>7, <1>8, <1>9, <1>11, RequestStep DEF RequestGoes, d

LEMMA CommitKeeps ==
  ASSUME IInv, NEW r \in Requests, Commit(r)
  PROVE  IInv'
<1> DEFINE d == request[r].of
<1>1. request[r].at = "commit"
  BY DEF Commit
<1>2. /\ Active(r) /\ d \in Docs /\ request[r].rest = Stores /\ TypeOK
      /\ Owed(r) = StoreNames
  BY <1>1, RequestAt DEF IInv
<1>3. PICK s \in Ingesting : /\ request' = [request EXCEPT ![r] = s] /\ s # Idle
                             /\ s.at = "append" /\ s.of = d /\ s.rest = Stores
                             /\ s.text = request[r].text
  BY <1>1, <1>2, StepsTo DEF Commit, RequestSteps
<1>4. request[r].text \in Texts /\ clean[d] # 0
  BY <1>1, <1>2 DEF IInv, TextIsKnown
<1>5. /\ doc' \in [Docs -> Statuses] /\ doc'[d] = "INDEXED"
      /\ \A e \in Docs \ {d} : doc'[e] = doc[e]
      /\ registry' \subseteq Docs
  BY <1>2 DEF Commit, TypeOK, Statuses
<1>6. TypeOK'
  BY <1>2, <1>3, <1>5, RequestTypes DEF Commit, TypeOK
<1>7. KeepsOthers(d) /\ JobsFrom(d, request[r].at = "enqueue")
  BY <1>2, <1>5 DEF Commit, KeepsOthers, JobsFrom, storeVars
<1>8. Goes(r, d, s) /\ StaysOwned(r, d, s)
  BY <1>3, <1>4, <1>5 DEF Commit, Goes, StaysOwned, Unfinished
<1>9. StaysCommitted(r, d, s)
  BY <1>1, <1>3, <1>5 DEF StaysCommitted, Committed
<1>10. OwedBy(s) = StoreNames
  BY <1>3 DEF OwedBy, StoreNames
<1>11. StaysOwed(r, d, s)
  BY <1>2, <1>10 DEF Commit, StaysOwed
<1> HIDE DEF d
<1> QED
  BY <1>2, <1>3, <1>6, <1>7, <1>8, <1>9, <1>11, RequestStep DEF RequestGoes, d

LEMMA FailKeeps ==
  ASSUME IInv, NEW r \in Requests, Fail(r)
  PROVE  IInv'
<1> DEFINE d == request[r].of
<1>1. request[r].at = "fail"
  BY DEF Fail
<1>2. /\ Active(r) /\ d \in Docs /\ TypeOK
  BY <1>1, RequestAt DEF IInv
<1>3. /\ doc' \in [Docs -> Statuses] /\ doc'[d] = "FAILED"
      /\ \A e \in Docs \ {d} : doc'[e] = doc[e]
  BY <1>2 DEF Fail, TypeOK, Statuses
<1>4. TypeOK'
  BY <1>2, <1>3, RequestTypes DEF Fail, TypeOK
<1>5. KeepsOthers(d) /\ JobsFrom(d, request[r].at = "enqueue")
  BY <1>2, <1>3 DEF Fail, KeepsOthers, JobsFrom, storeVars
<1>6. Goes(r, d, Idle) /\ StaysOwned(r, d, Idle)
  BY <1>3 DEF Fail, Goes, StaysOwned
<1>7. StaysCommitted(r, d, Idle)
  BY <1>1, <1>2, RegisteredMeanwhile, RequestState DEF Fail, StaysCommitted, Committed
<1>8. StaysOwed(r, d, Idle)
  BY <1>1 DEF Fail, StaysOwed, Owed
<1> HIDE DEF d
<1> QED
  BY <1>2, <1>4, <1>5, <1>6, <1>7, <1>8, RequestStep DEF RequestGoes, d

\* A request that enqueues goes on with what is left.
LEMMA EnqueueingTo ==
  ASSUME IInv, NEW r \in Requests, request[r].at \in Committed,
         NEW rest \in Suffixes, Enqueueing(r, rest)
  PROVE  \E s \in {Idle} \cup Ingesting :
           /\ request' = [request EXCEPT ![r] = s]
           /\ s.at \in {"idle", "enqueue"}
           /\ s.at = "enqueue" =>
                s.of = request[r].of /\ s.rest = rest /\ s.text = request[r].text
           /\ s = Idle <=> rest = <<>>
<1>1. request[r] \in Ingesting /\ request[r].text \in Known
  BY RequestAt DEF Committed
<1>2. "enqueue" \in RequestSteps /\ Idle.at = "idle"
  BY DEF RequestSteps, Idle
<1>3. CASE rest = <<>>
  BY <1>2, <1>3 DEF Enqueueing
<1>4. CASE rest # <<>>
  <2>1. PICK h \in Ingesting : h = request[r]
    BY <1>1
  <2> DEFINE n == [h EXCEPT !.at = "enqueue", !.rest = rest]
  <2>2. n \in Ingesting /\ n.at = "enqueue" /\ n.of = h.of /\ n.text = h.text /\ n.rest = rest
    BY DEF Ingesting
  <2>3. request' = [request EXCEPT ![r] = n]
    BY <1>4, <2>1 DEF Enqueueing
  <2> HIDE DEF n
  <2>4. n # Idle
    BY <1>2, <2>2
  <2> QED
    BY <1>4, <2>1, <2>2, <2>3, <2>4
<1> QED
  BY <1>3, <1>4

LEMMA EnqueueingGoes ==
  ASSUME IInv, NEW r \in Requests, request[r].at \in Committed,
         NEW rest \in Suffixes, Enqueueing(r, rest),
         NEW s \in {Idle} \cup Ingesting, request' = [request EXCEPT ![r] = s],
         s.at \in {"idle", "enqueue"},
         s.at = "enqueue" => s.of = request[r].of /\ s.rest = rest /\ s.text = request[r].text,
         s = Idle <=> rest = <<>>,
         UNCHANGED <<doc, clean, registry, abandoned, overlapped>>,
         \A t \in StoreSet : lost[t] \subseteq lost'[t]
  PROVE  /\ Goes(r, request[r].of, s) /\ StaysOwned(r, request[r].of, s)
         /\ StaysCommitted(r, request[r].of, s)
<1>1. s # Idle <=> s.at = "enqueue"
  BY RequestState
<1>2. request[r].text \in Texts /\ clean[request[r].of] # 0 /\ Active(r)
  BY RequestAt DEF IInv, TextIsKnown, Committed
<1>3. Goes(r, request[r].of, s)
  BY <1>1, <1>2 DEF Goes
<1>4. StaysOwned(r, request[r].of, s)
  BY DEF StaysOwned, Committed, Unfinished
<1>5. StaysCommitted(r, request[r].of, s)
  BY <1>2, RegisteredMeanwhile, StoresAreKnown DEF StaysCommitted, Committed
<1> QED
  BY <1>3, <1>4, <1>5

LEMMA AppendEventKeeps ==
  ASSUME IInv, NEW r \in Requests, AppendEvent(r)
  PROVE  IInv'
<1> DEFINE d == request[r].of
<1>1. request[r].at = "append" /\ Enqueueing(r, request[r].rest)
  BY DEF AppendEvent
<1>2. /\ Active(r) /\ d \in Docs /\ request[r].rest = Stores /\ TypeOK
      /\ Owed(r) = StoreNames /\ request[r].at \in Committed
  BY <1>1, RequestAt DEF IInv, Committed
<1>3. PICK s \in {Idle} \cup Ingesting :
        /\ request' = [request EXCEPT ![r] = s]
        /\ s.at \in {"idle", "enqueue"}
        /\ s.at = "enqueue" => s.of = d /\ s.rest = Stores /\ s.text = request[r].text
        /\ s = Idle <=> Stores = <<>>
  BY <1>1, <1>2, EnqueueingTo, StoresAreKnown
<1>4. TypeOK'
  BY <1>2, <1>3, RequestTypes DEF AppendEvent, TypeOK
<1>5. KeepsOthers(d) /\ JobsFrom(d, request[r].at = "enqueue")
  BY <1>2 DEF AppendEvent, KeepsOthers, JobsFrom, storeVars
<1>6. Goes(r, d, s) /\ StaysOwned(r, d, s) /\ StaysCommitted(r, d, s)
  BY <1>1, <1>2, <1>3, EnqueueingGoes, StoresAreKnown DEF AppendEvent
<1>7. StaysOwed(r, d, s)
  <2>1. CASE Stores = <<>>
    <3>1. StoreNames = {}
      BY <2>1 DEF StoreNames
    <3> QED
      BY <3>1 DEF StaysOwed
  <2>2. CASE Stores # <<>>
    <3>1. s.at = "enqueue" /\ s.rest = Stores
      BY <1>3, <2>2, RequestState
    <3>2. OwedBy(s) = StoreNames
      BY <3>1 DEF OwedBy, StoreNames
    <3> QED
      BY <1>2, <3>2 DEF AppendEvent, StaysOwed
  <2> QED
    BY <2>1, <2>2
<1> HIDE DEF d
<1> QED
  BY <1>2, <1>3, <1>4, <1>5, <1>6, <1>7, RequestStep DEF RequestGoes, d

\* The first job that is owed, and the others.
LEMMA OwedRest ==
  ASSUME NEW rest \in Seq(StoreSet), rest # <<>>
  PROVE  /\ Head(rest) \in StoreSet
         /\ \A t \in {rest[i] : i \in 1..Len(rest)} :
              t = Head(rest) \/ t \in {Tail(rest)[i] : i \in 1..Len(Tail(rest))}
<1> HIDE DEF StoreSet
<1>1. Len(rest) \in Nat \ {0} /\ Head(rest) = rest[1] /\ Len(Tail(rest)) = Len(rest) - 1
  OBVIOUS
<1>2. \A i \in 2..Len(rest) : i - 1 \in 1..Len(Tail(rest)) /\ rest[i] = Tail(rest)[i - 1]
  OBVIOUS
<1>3. \A i \in 1..Len(rest) : i = 1 \/ i \in 2..Len(rest)
  OBVIOUS
<1>4. Head(rest) \in StoreSet
  BY <1>1
<1> QED
  BY <1>1, <1>2, <1>3, <1>4

\* A step that enqueues, or fails to, leaves to the request what is left.
LEMMA EnqueueingOwes ==
  ASSUME IInv, NEW r \in Requests, request[r].at = "enqueue",
         NEW s \in {Idle} \cup Ingesting, s.at \in {"idle", "enqueue"},
         s.at = "enqueue" => s.rest = Tail(request[r].rest),
         s = Idle <=> Tail(request[r].rest) = <<>>,
         clean' = clean,
         \/ Head(request[r].rest) \notin StoreNames
         \/ request[r].of \in lost'[Head(request[r].rest)]
         \/ jobs'[Head(request[r].rest)][request[r].of] > 0
  PROVE  StaysOwed(r, request[r].of, s)
<1> DEFINE rest == request[r].rest
<1>1. /\ rest \in Seq(StoreSet) /\ rest # <<>> /\ Tail(rest) \in Seq(StoreSet)
      /\ Owed(r) = {rest[i] : i \in 1..Len(rest)}
  <2>1. request[r].rest \in Suffixes /\ rest # <<>> /\ Owed(r) = OwedBy(request[r])
    BY RequestAt
  <2>2. rest \in Seq(StoreSet) /\ Tail(rest) \in Seq(StoreSet)
    BY <2>1, StoresAreKnown
  <2> QED
    BY <2>1, <2>2 DEF OwedBy
<1>2. \A t \in Owed(r) :
         t = Head(rest) \/ t \in {Tail(rest)[i] : i \in 1..Len(Tail(rest))}
  BY <1>1, OwedRest
<1>3. ASSUME NEW t \in {Tail(rest)[i] : i \in 1..Len(Tail(rest))}
      PROVE  t \in OwedBy(s)
  <2>1. Tail(rest) # <<>>
    <3>1. \E i \in 1..Len(Tail(rest)) : TRUE
      BY <1>3
    <3>2. Len(Tail(rest)) # 0
      BY <3>1
    <3>3. \A q \in Seq(StoreSet) : Len(q) # 0 => q # <<>>
      OBVIOUS
    <3> QED
      BY <1>1, <3>2, <3>3, Zenon
  <2>2. s.at = "enqueue" /\ s.rest = Tail(rest)
    BY <2>1, RequestState
  <2> QED
    BY <1>3, <2>1, <2>2 DEF OwedBy
<1> QED
  BY <1>2, <1>3 DEF StaysOwed

LEMMA EnqueueKeeps ==
  ASSUME IInv, NEW r \in Requests, Enqueue(r)
  PROVE  IInv'
<1> DEFINE d == request[r].of
           t == Head(request[r].rest)
<1>1. request[r].at = "enqueue" /\ Enqueueing(r, Tail(request[r].rest))
  BY DEF Enqueue
<1>2. /\ Active(r) /\ d \in Docs /\ TypeOK /\ request[r].at \in Committed
      /\ request[r].rest \in Seq(StoreSet) /\ request[r].rest # <<>>
      /\ Tail(request[r].rest) \in Suffixes
  BY <1>1, RequestAt, StoresAreKnown DEF IInv, Committed
<1>3. PICK s \in {Idle} \cup Ingesting :
        /\ request' = [request EXCEPT ![r] = s]
        /\ s.at \in {"idle", "enqueue"}
        /\ s.at = "enqueue" =>
             s.of = d /\ s.rest = Tail(request[r].rest) /\ s.text = request[r].text
        /\ s = Idle <=> Tail(request[r].rest) = <<>>
  BY <1>1, <1>2, EnqueueingTo
<1>4. t \in StoreSet
  BY <1>2, OwedRest
<1>5. /\ jobs' \in [StoreSet -> [Docs -> Nat]] /\ jobs'[t][d] > 0
      /\ \A u \in StoreSet, e \in Docs : u # t \/ e # d => jobs'[u][e] = jobs[u][e]
  <2>1. jobs[t][d] \in Nat /\ jobs' = [jobs EXCEPT ![t][d] = jobs[t][d] + 1]
    BY <1>2, <1>4 DEF TypeOK, Enqueue
  <2>2. jobs[t][d] + 1 \in Nat /\ jobs[t][d] + 1 > 0
    BY <2>1
  <2> QED
    BY <1>2, <1>4, <2>1, <2>2, NestedUpdate DEF TypeOK
<1>6. TypeOK'
  BY <1>2, <1>3, <1>5, RequestTypes DEF Enqueue, TypeOK
<1>7. KeepsOthers(d)
  BY <1>2 DEF Enqueue, KeepsOthers, storeVars
<1>8. JobsFrom(d, request[r].at = "enqueue")
  BY <1>1, <1>5 DEF JobsFrom
<1>9. Goes(r, d, s) /\ StaysOwned(r, d, s) /\ StaysCommitted(r, d, s)
  BY <1>2, <1>3, EnqueueingGoes DEF Enqueue
<1>10. StaysOwed(r, d, s)
  BY <1>1, <1>3, <1>5, EnqueueingOwes DEF Enqueue
<1> HIDE DEF d
<1> QED
  BY <1>2, <1>3, <1>6, <1>7, <1>8, <1>9, <1>10, RequestStep DEF RequestGoes, d

LEMMA SkipEnqueueKeeps ==
  ASSUME IInv, NEW r \in Requests, SkipEnqueue(r), Fault,
         UNCHANGED <<doc, original, registry, overlapped, ingests, storeVars>>
  PROVE  IInv'
<1> DEFINE d == request[r].of
           t == Head(request[r].rest)
<1>1. request[r].at = "enqueue" /\ Enqueueing(r, Tail(request[r].rest)) /\ Lose({t}, d)
  BY DEF SkipEnqueue
<1>2. /\ Active(r) /\ d \in Docs /\ TypeOK /\ request[r].at \in Committed
      /\ request[r].rest \in Seq(StoreSet) /\ request[r].rest # <<>>
      /\ Tail(request[r].rest) \in Suffixes
  BY <1>1, RequestAt, StoresAreKnown DEF IInv, Committed
<1>3. PICK s \in {Idle} \cup Ingesting :
        /\ request' = [request EXCEPT ![r] = s]
        /\ s.at \in {"idle", "enqueue"}
        /\ s.at = "enqueue" =>
             s.of = d /\ s.rest = Tail(request[r].rest) /\ s.text = request[r].text
        /\ s = Idle <=> Tail(request[r].rest) = <<>>
  BY <1>1, <1>2, EnqueueingTo
<1>4. t \in StoreSet
  BY <1>2, OwedRest
<1>5. /\ lost' \in [StoreSet -> SUBSET Docs] /\ d \in lost'[t]
      /\ \A u \in StoreSet : lost[u] \subseteq lost'[u]
  BY <1>1, <1>2, <1>4, Loses
<1>6. TypeOK'
  BY <1>2, <1>3, <1>5, RequestTypes, Faulted DEF SkipEnqueue, TypeOK
<1>7. KeepsOthers(d) /\ JobsFrom(d, request[r].at = "enqueue")
  BY <1>2, <1>5 DEF SkipEnqueue, KeepsOthers, JobsFrom, storeVars
<1>8. Goes(r, d, s) /\ StaysOwned(r, d, s) /\ StaysCommitted(r, d, s)
  BY <1>2, <1>3, <1>5, EnqueueingGoes DEF SkipEnqueue
<1>9. StaysOwed(r, d, s)
  BY <1>1, <1>3, <1>5, EnqueueingOwes DEF SkipEnqueue
<1> HIDE DEF d
<1> QED
  BY <1>2, <1>3, <1>6, <1>7, <1>8, <1>9, RequestStep DEF RequestGoes, d

LEMMA ThrowBeforeTryKeeps ==
  ASSUME IInv, NEW r \in Requests, ThrowBeforeTry(r), Fault,
         UNCHANGED <<doc, original, registry, overlapped, ingests, storeVars>>
  PROVE  IInv'
<1> DEFINE d == request[r].of
<1>1. request[r].at = "claim"
  BY DEF ThrowBeforeTry
<1>2. /\ Active(r) /\ d \in Docs /\ TypeOK
  BY <1>1, RequestAt DEF IInv
<1>3. TypeOK'
  BY <1>2, RequestTypes, Faulted DEF ThrowBeforeTry, TypeOK
<1>4. KeepsOthers(d) /\ JobsFrom(d, request[r].at = "enqueue")
  BY <1>2 DEF ThrowBeforeTry, KeepsOthers, JobsFrom, storeVars
<1>5. Goes(r, d, Idle) /\ StaysOwned(r, d, Idle)
  BY <1>1 DEF ThrowBeforeTry, Goes, StaysOwned, Unfinished
<1>6. StaysCommitted(r, d, Idle)
  BY <1>1, <1>2, RegisteredMeanwhile, RequestState DEF ThrowBeforeTry, StaysCommitted, Committed
<1>7. StaysOwed(r, d, Idle)
  BY <1>1 DEF ThrowBeforeTry, StaysOwed, Owed
<1> HIDE DEF d
<1> QED
  BY <1>2, <1>3, <1>4, <1>5, <1>6, <1>7, RequestStep DEF RequestGoes, ThrowBeforeTry, d

LEMMA ThrowInTryKeeps ==
  ASSUME IInv, NEW r \in Requests, ThrowInTry(r), Fault,
         UNCHANGED <<doc, original, registry, overlapped, ingests, storeVars>>
  PROVE  IInv'
<1> DEFINE d == request[r].of
<1>1. request[r].at \in {"fetch", "put", "commit", "append"} /\ Lose(Owed(r), d)
  BY DEF ThrowInTry
<1>2. /\ Active(r) /\ d \in Docs /\ request[r].rest = Stores /\ TypeOK
      /\ request[r].at \in {"put", "commit", "append"} => Owed(r) = StoreNames
  BY <1>1, RequestAt DEF IInv
<1>3. PICK s \in Ingesting : /\ request' = [request EXCEPT ![r] = s] /\ s # Idle
                             /\ s.at = "fail" /\ s.of = d /\ s.rest = Stores
  BY <1>1, <1>2, StepsTo DEF ThrowInTry, RequestSteps
<1>4. request[r].at = "put" => request[r].text \in Texts
  BY <1>2 DEF IInv, TextIsKnown
<1>5. /\ clean' \in [Docs -> {0} \cup Texts]
      /\ clean[d] # 0 => clean'[d] # 0
      /\ clean'[d] # clean[d] => request[r].at = "put"
      /\ \A e \in Docs \ {d} : clean'[e] = clean[e]
  BY <1>2, <1>4, TextsAreNumbers DEF ThrowInTry, TypeOK
<1>6. /\ lost' \in [StoreSet -> SUBSET Docs]
      /\ \A u \in StoreSet : lost[u] \subseteq lost'[u]
      /\ \A u \in StoreSet \cap Owed(r) : d \in lost'[u]
  BY <1>1, <1>2, Loses
<1>7. TypeOK'
  BY <1>2, <1>3, <1>5, <1>6, RequestTypes, Faulted DEF ThrowInTry, TypeOK
<1>8. KeepsOthers(d) /\ JobsFrom(d, request[r].at = "enqueue")
  BY <1>2, <1>5, <1>6 DEF ThrowInTry, KeepsOthers, JobsFrom, storeVars
<1>9. Goes(r, d, s) /\ StaysOwned(r, d, s)
  BY <1>3 DEF Goes, StaysOwned, Unfinished
<1>10. StaysCommitted(r, d, s)
  <2>1. ASSUME d \in registry, d \notin overlapped
        PROVE  \A t \in StoreNames : d \in lost'[t]
    BY <1>1, <1>2, <1>6, <2>1, RegisteredMeanwhile, StoresAreKnown DEF Committed
  <2> QED
    BY <1>1, <1>3, <2>1 DEF StaysCommitted, Committed
<1>11. StaysOwed(r, d, s)
  BY <1>2, <1>5, <1>6, StoresAreKnown DEF StaysOwed
<1> HIDE DEF d
<1> QED
  BY <1>2, <1>3, <1>7, <1>8, <1>9, <1>10, <1>11, RequestStep DEF RequestGoes, d

LEMMA ThrowInCatchKeeps ==
  ASSUME IInv, NEW r \in Requests, ThrowInCatch(r), Fault,
         UNCHANGED <<doc, original, registry, overlapped, ingests, storeVars>>
  PROVE  IInv'
<1> DEFINE d == request[r].of
<1>1. request[r].at = "fail"
  BY DEF ThrowInCatch
<1>2. /\ Active(r) /\ d \in Docs /\ TypeOK
  BY <1>1, RequestAt DEF IInv
<1>3. TypeOK'
  BY <1>2, RequestTypes, Faulted DEF ThrowInCatch, TypeOK
<1>4. KeepsOthers(d) /\ JobsFrom(d, request[r].at = "enqueue")
  BY <1>2 DEF ThrowInCatch, KeepsOthers, JobsFrom, storeVars
<1>5. Goes(r, d, Idle) /\ StaysOwned(r, d, Idle)
  BY <1>1 DEF ThrowInCatch, Goes, StaysOwned, Unfinished
<1>6. StaysCommitted(r, d, Idle)
  BY <1>1, <1>2, RegisteredMeanwhile, RequestState DEF ThrowInCatch, StaysCommitted, Committed
<1>7. StaysOwed(r, d, Idle)
  BY <1>1 DEF ThrowInCatch, StaysOwed, Owed
<1> HIDE DEF d
<1> QED
  BY <1>2, <1>3, <1>4, <1>5, <1>6, <1>7, RequestStep DEF RequestGoes, ThrowInCatch, d

LEMMA CrashKeeps ==
  ASSUME IInv, NEW r \in Requests, Crash(r), Fault,
         UNCHANGED <<doc, original, registry, overlapped, ingests, storeVars>>
  PROVE  IInv'
<1> DEFINE d == request[r].of
<1>1. Active(r) /\ Lose(Owed(r), d) /\ TypeOK
  BY DEF Crash, Active, IInv
<1>2. request[r].at # "idle"
  BY <1>1, RequestState DEF Active, TypeOK
<1>3. d \in Docs /\ request[r].at \in RequestSteps
  BY <1>2, RequestAt
<1>4. /\ lost' \in [StoreSet -> SUBSET Docs]
      /\ \A u \in StoreSet : lost[u] \subseteq lost'[u]
      /\ \A u \in StoreSet \cap Owed(r) : d \in lost'[u]
  BY <1>1, <1>3, Loses
<1>5. abandoned \subseteq abandoned' /\ abandoned' \subseteq Docs
  BY <1>1, <1>3 DEF Crash, TypeOK
<1>6. TypeOK'
  BY <1>1, <1>4, <1>5, RequestTypes, Faulted DEF Crash, TypeOK
<1>7. KeepsOthers(d) /\ JobsFrom(d, request[r].at = "enqueue")
  BY <1>4, <1>5 DEF Crash, KeepsOthers, JobsFrom, storeVars
<1>8. Goes(r, d, Idle) /\ StaysOwned(r, d, Idle)
  BY <1>3 DEF Crash, Goes, StaysOwned, Unfinished
<1>9. StaysCommitted(r, d, Idle)
  BY <1>1, <1>4, RegisteredMeanwhile, RequestState, StoresAreKnown
     DEF StaysCommitted, Committed
<1>10. StaysOwed(r, d, Idle)
  BY <1>4, StoresAreKnown DEF Crash, StaysOwed
<1> HIDE DEF d
<1> QED
  BY <1>1, <1>3, <1>6, <1>7, <1>8, <1>9, <1>10, RequestStep DEF RequestGoes, Crash, d

LEMMA RequestsKeep ==
  ASSUME IInv, NEW r \in Requests, Advance(r) \/ RequestFaults(r)
  PROVE  IInv'
BY ClaimKeeps, FetchKeeps, PutCleanKeeps, CommitKeeps, AppendEventKeeps, EnqueueKeeps, FailKeeps,
   ThrowBeforeTryKeeps, ThrowInTryKeeps, ThrowInCatchKeeps, SkipEnqueueKeeps, CrashKeeps
   DEF Advance, RequestFaults

-----------------------------------------------------------------------------
(***************************************************************************)
(* The steps of clients.                                                   *)
(***************************************************************************)

LEMMA UploadKeeps ==
  ASSUME IInv, NEW d \in Docs, Upload(d)
  PROVE  IInv'
<1>1. UNCHANGED <<doc, clean, registry, request, abandoned, overlapped, jobs, worker, index,
                  lost, raced>>
  BY DEF Upload, storeVars
<1>2. TypeOK'
  <2>1. original' \in [Docs -> {0} \cup Versions]
    <3>1. original[d] + 1 \in Versions /\ original' = [original EXCEPT ![d] = original[d] + 1]
      BY DEF Upload
    <3> QED
      BY <3>1 DEF IInv, TypeOK
  <2> QED
    BY <2>1 DEF Upload, IInv, TypeOK, storeVars
<1>3. AllIsOwed' /\ TextIsKnown' /\ JobsHaveText' /\ ProcessingIsOwned'
  BY <1>1 DEF IInv, AllIsOwed, TextIsKnown, JobsHaveText, ProcessingIsOwned, Active, Busy
<1>4. RequestsOverlap' /\ CommittedIsIndexed' /\ WritersRace'
  BY <1>1 DEF IInv, RequestsOverlap, CommittedIsIndexed, WritersRace, Active, Busy
<1>5. \A e \in Docs : On(e)' = On(e)
  BY <1>1 DEF On
<1>6. \A s \in StoreSet, e \in Docs : Writing(s, e)' = Writing(s, e)
  BY <1>1 DEF Writing, Busy
<1>7. \A e \in Docs : Started(e)' = Started(e)
  BY <1>1, <1>6 DEF Started
<1>8. StartedIsIndexed' /\ RegisteredIsIndexed'
  BY <1>1, <1>5, <1>7 DEF IInv, StartedIsIndexed, RegisteredIsIndexed, TypeOK
<1>9. \A s \in StoreNames, e \in Docs : Coming(s, e)' = Coming(s, e)
  BY <1>1, <1>5 DEF Coming, Owed
<1>10. StaleIsFollowed' /\ IndexedOrComing'
  BY <1>1, <1>6, <1>9, StoresAreKnown DEF IInv, StaleIsFollowed, IndexedOrComing, Current, Busy
<1> QED
  BY <1>2, <1>3, <1>4, <1>8, <1>10 DEF IInv

LEMMA CreateKeeps ==
  ASSUME IInv, NEW d \in Docs, Create(d)
  PROVE  IInv'
<1>1. UNCHANGED <<clean, registry, request, abandoned, overlapped, jobs, worker, index,
                  lost, raced>>
  BY DEF Create, storeVars
<1>2. /\ doc \in [Docs -> Statuses] /\ doc[d] = "ABSENT" /\ doc'[d] = "PENDING"
      /\ \A e \in Docs \ {d} : doc'[e] = doc[e]
  BY DEF Create, IInv, TypeOK
<1>3. TypeOK'
  BY DEF Create, IInv, TypeOK, storeVars, Statuses
<1>4. AllIsOwed' /\ TextIsKnown' /\ JobsHaveText' /\ RequestsOverlap' /\ WritersRace'
  BY <1>1 DEF IInv, AllIsOwed, TextIsKnown, JobsHaveText, RequestsOverlap, WritersRace,
              Active, Busy
<1>5. ProcessingIsOwned'
  BY <1>1, <1>2 DEF IInv, ProcessingIsOwned
<1>6. \A r \in Requests : request[r].at \in Committed => request[r].of \in Docs
  BY RequestAt DEF Committed
<1>7. CommittedIsIndexed'
  BY <1>1, <1>2, <1>6 DEF IInv, CommittedIsIndexed
<1>8. \A e \in Docs : On(e)' = On(e)
  BY <1>1 DEF On
<1>9. \A s \in StoreSet, e \in Docs : Writing(s, e)' = Writing(s, e)
  BY <1>1 DEF Writing, Busy
<1>10. \A e \in Docs : Started(e)' = Started(e)
  BY <1>1, <1>9 DEF Started
<1>11. StartedIsIndexed' /\ RegisteredIsIndexed'
  <2>1. \A e \in Docs : doc[e] = "INDEXED" => doc'[e] = "INDEXED"
    BY <1>2
  <2>2. StartedIsIndexed'
    BY <1>1, <1>8, <1>10, <2>1 DEF IInv, StartedIsIndexed
  <2>3. RegisteredIsIndexed'
    BY <1>1, <1>8, <2>1 DEF IInv, RegisteredIsIndexed, TypeOK
  <2> QED
    BY <2>2, <2>3
<1>12. \A s \in StoreNames, e \in Docs : Coming(s, e)' = Coming(s, e)
  BY <1>1, <1>8 DEF Coming, Owed
<1>13. StaleIsFollowed' /\ IndexedOrComing'
  BY <1>1, <1>9, <1>12, StoresAreKnown DEF IInv, StaleIsFollowed, IndexedOrComing, Current, Busy
<1> QED
  BY <1>3, <1>4, <1>5, <1>7, <1>11, <1>13 DEF IInv

LEMMA IngestKeeps ==
  ASSUME IInv, NEW r \in Requests, NEW d \in Docs, Ingest(r, d)
  PROVE  IInv'
<1>1. UNCHANGED <<doc, clean, registry, abandoned, jobs, worker, index, lost, raced>>
  BY DEF Ingest, storeVars
<1>2. request[r] = Idle /\ doc[d] # "INDEXED" /\ overlapped \subseteq overlapped'
  BY DEF Ingest, Ingestible
<1>3. PICK s \in Ingesting :
        request' = [request EXCEPT ![r] = s] /\ s.at = "claim" /\ s.of = d /\ s.rest = Stores
  <2> DEFINE s == [at |-> "claim", of |-> d, text |-> 0, rest |-> Stores]
  <2>1. s \in Ingesting /\ s.at = "claim" /\ s.of = d /\ s.rest = Stores
    BY StoresAreKnown DEF Ingesting
  <2> QED
    BY <2>1 DEF Ingest
<1>4. request'[r] = s /\ s # Idle /\ \A q \in Requests \ {r} : request'[q] = request[q]
  BY <1>3, RequestState DEF IInv, TypeOK
<1>5. TypeOK'
  <2>1. overlapped' \subseteq Docs /\ ingests' \in 0..MaxIngests
    BY KnowledgeAssumption DEF Ingest, IInv, TypeOK
  <2> QED
    BY <1>3, <2>1 DEF Ingest, IInv, TypeOK, storeVars
<1>6. \A q \in Requests : Active(q) => q # r /\ Active(q)' /\ request'[q] = request[q]
  BY <1>2, <1>4 DEF Active
<1>7. \A q \in Requests : Active(q)' => q = r \/ Active(q)
  BY <1>4 DEF Active
<1>8. AllIsOwed' /\ TextIsKnown'
  BY <1>1, <1>3, <1>4, <1>6, <1>7 DEF IInv, AllIsOwed, TextIsKnown
<1>9. JobsHaveText' /\ WritersRace'
  BY <1>1 DEF IInv, JobsHaveText, WritersRace, Busy
<1>10. \A q \in Requests : request[q].at # "idle" <=> Active(q)
  BY RequestState DEF Active, IInv, TypeOK
<1>11. ProcessingIsOwned'
  <2>1. \A q \in Requests : request[q].at \in Unfinished => request'[q] = request[q]
    BY <1>6, <1>10 DEF Unfinished
  <2> QED
    BY <1>1, <2>1 DEF IInv, ProcessingIsOwned
<1>12. \A e \in Docs : On(e) = {q \in Requests : Active(q) /\ request[q].of = e}
  BY DEF On, Active
<1>13. \A e \in Docs : On(e)' = {q \in Requests : Active(q)' /\ request'[q].of = e}
  BY DEF On, Active
<1>14. RequestsOverlap'
  <2> SUFFICES ASSUME NEW p \in Requests, NEW q \in Requests, p # q, Active(p)', Active(q)',
                      request'[p].of = request'[q].of
               PROVE  request'[p].of \in overlapped'
    BY DEF RequestsOverlap
  <2>1. CASE p # r /\ q # r
    BY <1>2, <1>4, <1>7, <2>1 DEF IInv, RequestsOverlap
  <2>2. CASE p = r \/ q = r
    <3>1. PICK o \in {p, q} : o # r /\ Active(o) /\ request[o].of = d
      BY <1>3, <1>4, <1>7, <2>2
    <3>2. On(d) # {}
      BY <1>12, <3>1
    <3>3. d \in overlapped'
      BY <3>2 DEF Ingest
    <3> QED
      BY <1>3, <1>4, <2>2, <3>3
  <2> QED
    BY <2>1, <2>2
<1>15. \A e \in Docs \ {d} : \A q \in On(e)' : q \in On(e) /\ request'[q] = request[q]
  BY <1>3, <1>4, <1>6, <1>7, <1>12, <1>13
<1>16. \A s1 \in StoreSet, e \in Docs : Writing(s1, e)' = Writing(s1, e)
  BY <1>1 DEF Writing, Busy
<1>17. \A e \in Docs : Started(e)' = Started(e)
  BY <1>1, <1>16 DEF Started
<1>18. StartedIsIndexed'
  BY <1>1, <1>2, <1>15, <1>17 DEF IInv, StartedIsIndexed
<1>19. CommittedIsIndexed'
  <2>1. \A q \in Requests : request'[q].at \in Committed => request'[q] = request[q]
    BY <1>3, <1>4 DEF Committed
  <2> QED
    BY <1>1, <1>2, <2>1 DEF IInv, CommittedIsIndexed
<1>20. RegisteredIsIndexed'
  <2> SUFFICES ASSUME NEW e \in registry, e \notin overlapped
               PROVE  \/ \A t \in StoreNames : e \in lost[t]
                      \/ doc[e] = "INDEXED" /\ \A q \in On(e)' : request'[q].at \in Committed
    BY <1>1, <1>2 DEF RegisteredIsIndexed
  <2>1. \/ \A t \in StoreNames : e \in lost[t]
        \/ doc[e] = "INDEXED" /\ \A q \in On(e) : request[q].at \in Committed
    BY DEF IInv, RegisteredIsIndexed
  <2>2. e \in Docs
    BY DEF IInv, TypeOK
  <2> QED
    BY <1>2, <1>15, <2>1, <2>2
<1>21. \A t \in StoreNames, e \in Docs : Coming(t, e) => Coming(t, e)'
  BY <1>1, <1>6, <1>12, <1>13 DEF Coming, Owed
<1>22. StaleIsFollowed' /\ IndexedOrComing'
  BY <1>1, <1>16, <1>21, StoresAreKnown DEF IInv, StaleIsFollowed, IndexedOrComing, Current, Busy
<1> QED
  BY <1>5, <1>8, <1>9, <1>11, <1>14, <1>18, <1>19, <1>20, <1>22 DEF IInv

-----------------------------------------------------------------------------
(***************************************************************************)
(* The steps of workers.                                                   *)
(***************************************************************************)

\* What a busy worker does to its document d in its store t.
StoreChanges(t, d) ==
  /\ UNCHANGED <<requestVars, raced>>
  /\ \A u \in StoreSet : lost[u] \subseteq lost'[u]
  /\ \A u \in StoreSet, e \in Docs :
       /\ jobs[u][e] > 0 => jobs'[u][e] > 0
       /\ u # t \/ e # d => jobs'[u][e] = jobs[u][e] /\ index'[u][e] = index[u][e]

WorksOn(w, t, d, s) ==
  /\ s.of = d /\ s.store = t /\ s.at # "read" /\ s.text \in Texts
  /\ index' = index
  /\ s.text = clean[d] \/ (worker[w].at # "read" /\ s.text = worker[w].text)

IsDone(w, t, d) ==
  \/ jobs'[t][d] > 0
  \/ d \in lost'[t]
  \/ \A k \in 1..Length[clean[d]] : index'[t][d][k] = clean[d]
  \/ worker[w].at # "read" /\ worker[w].text # clean[d]

LEMMA WorkerStep ==
  ASSUME IInv, TypeOK', NEW w \in Workers, Busy(w),
         NEW t, t = worker[w].store, NEW d, d = worker[w].of,
         NEW s \in {Idle} \cup Indexing, worker' = [worker EXCEPT ![w] = s],
         StoreChanges(t, d),
         s # Idle => WorksOn(w, t, d, s),
         s = Idle => IsDone(w, t, d)
  PROVE  IInv'
<1>1. worker'[w] = s /\ \A v \in Workers \ {w} : worker'[v] = worker[v]
  BY DEF IInv, TypeOK
<1>2. t \in StoreSet /\ d \in Docs
  BY WorkerState DEF IInv, TypeOK, Busy
<1>3. UNCHANGED <<doc, clean, registry, request, abandoned, overlapped, raced>>
  BY DEF StoreChanges, requestVars
<1>4. AllIsOwed' /\ TextIsKnown' /\ ProcessingIsOwned' /\ RequestsOverlap' /\ CommittedIsIndexed'
  BY <1>3 DEF IInv, AllIsOwed, TextIsKnown, ProcessingIsOwned, RequestsOverlap,
              CommittedIsIndexed, Active
<1>5. \A v \in Workers \ {w} : Busy(v)' = Busy(v)
  BY <1>1 DEF Busy
<1>6. Busy(w)' => WorksOn(w, t, d, s)
  BY <1>1 DEF Busy
<1>7. clean[d] # 0
  BY DEF IInv, JobsHaveText
<1>8. JobsHaveText'
  <2>1. ASSUME NEW u \in StoreSet, NEW e \in Docs, jobs'[u][e] > 0
        PROVE  clean'[e] # 0
    BY <1>3, <1>7, <2>1 DEF StoreChanges, IInv, JobsHaveText
  <2>2. ASSUME NEW v \in Workers, Busy(v)'
        PROVE  clean'[worker'[v].of] # 0 /\ (worker'[v].at # "read" => worker'[v].text \in Texts)
    <3>1. CASE v = w
      BY <1>1, <1>3, <1>6, <1>7, <2>2, <3>1 DEF WorksOn
    <3>2. CASE v # w
      BY <1>1, <1>3, <1>5, <2>2, <3>2 DEF IInv, JobsHaveText
    <3> QED
      BY <3>1, <3>2
  <2> QED
    BY <2>1, <2>2 DEF JobsHaveText
<1>9. \A e \in Docs : On(e)' = On(e)
  BY <1>3 DEF On
<1>10. \A u \in StoreSet, e \in Docs, v \in Workers :
         v \in Writing(u, e)' => v \in Writing(u, e)
  BY <1>1, <1>5, <1>6 DEF Writing, WorksOn
<1>11. \A u \in StoreSet, e \in Docs, v \in Workers :
         v \in Writing(u, e) => v \in Writing(u, e)' \/ v = w
  BY <1>1, <1>5 DEF Writing
<1>12. w \in Writing(t, d) /\ \A u \in StoreSet, e \in Docs : w \in Writing(u, e) => u = t /\ e = d
  BY DEF Writing
<1>13. ASSUME NEW e \in Docs, Started(e)'
       PROVE  Started(e)
  <2>1. PICK u \in StoreSet :
          jobs'[u][e] > 0 \/ Writing(u, e)' # {} \/ \E k \in Chunks : index'[u][e][k] # 0
    BY <1>13 DEF Started
  <2>2. CASE u = t /\ e = d
    BY <1>12, <2>2 DEF Started
  <2>3. CASE u # t \/ e # d
    <3>1. jobs'[u][e] = jobs[u][e] /\ index'[u][e] = index[u][e]
      BY <2>3 DEF StoreChanges
    <3>2. Writing(u, e)' # {} => Writing(u, e) # {}
      BY <1>10 DEF Writing
    <3> QED
      BY <2>1, <3>1, <3>2 DEF Started
  <2> QED
    BY <2>2, <2>3
<1>14. StartedIsIndexed'
  BY <1>3, <1>9, <1>13 DEF IInv, StartedIsIndexed
<1>15. RegisteredIsIndexed'
  BY <1>3, <1>9, StoresAreKnown DEF IInv, RegisteredIsIndexed, StoreChanges, TypeOK
<1>16. \A u \in StoreNames, e \in Docs : Coming(u, e) => Coming(u, e)'
  BY <1>3, <1>9, StoresAreKnown DEF Coming, Owed, StoreChanges
<1>17. \A u \in StoreNames : u \in StoreSet /\ lost[u] \subseteq lost'[u]
  BY StoresAreKnown DEF StoreChanges
<1>18. StaleIsFollowed'
  <2> SUFFICES ASSUME NEW v \in Workers, NEW u \in StoreNames, NEW e \in Docs,
                      Busy(v)', worker'[v].at # "read", worker'[v].store = u, worker'[v].of = e,
                      e \notin lost'[u] \cup raced[u], worker'[v].text # clean[e]
               PROVE  Coming(u, e)'
    BY <1>3 DEF StaleIsFollowed
  <2>1. CASE v = w
    <3>1. u = t /\ e = d /\ worker[w].at # "read" /\ worker[w].text # clean[d]
      BY <1>1, <1>6, <2>1 DEF WorksOn
    <3> QED
      BY <1>16, <1>17, <3>1 DEF IInv, StaleIsFollowed
  <2>2. CASE v # w
    BY <1>1, <1>5, <1>16, <1>17, <2>2 DEF IInv, StaleIsFollowed
  <2> QED
    BY <2>1, <2>2
<1>19. WritersRace'
  <2>1. \A v \in Workers : Busy(v)' =>
          Busy(v) /\ worker'[v].of = worker[v].of /\ worker'[v].store = worker[v].store
    BY <1>1, <1>5, <1>6 DEF WorksOn
  <2> QED
    BY <1>3, <2>1 DEF IInv, WritersRace
<1>20. IndexedOrComing'
  <2> SUFFICES ASSUME NEW u \in StoreNames, NEW e \in Docs, clean[e] # 0,
                      e \notin lost'[u] \cup raced[u]
               PROVE  Current(u, e)' \/ Coming(u, e)' \/ Writing(u, e)' # {}
    BY <1>3 DEF IndexedOrComing
  <2>1. CASE u = t /\ e = d /\ s # Idle
    BY <1>1, <1>2, <2>1 DEF Writing, Busy, WorksOn
  <2>2. CASE u = t /\ e = d /\ s = Idle
    <3>1. jobs'[t][d] > 0 \/ Current(t, d)' \/ (worker[w].at # "read" /\ worker[w].text # clean[d])
      BY <1>3, <2>2 DEF IsDone, Current
    <3>2. CASE worker[w].at # "read" /\ worker[w].text # clean[d]
      BY <1>16, <1>17, <2>2, <3>2 DEF IInv, StaleIsFollowed
    <3> QED
      BY <2>2, <3>1, <3>2 DEF Coming
  <2>3. CASE u # t \/ e # d
    <3>1. Current(u, e) \/ Coming(u, e) \/ Writing(u, e) # {}
      BY <1>17 DEF IInv, IndexedOrComing
    <3>2. Current(u, e) => Current(u, e)'
      BY <1>3, <1>17, <2>3 DEF Current, StoreChanges
    <3>3. ASSUME Writing(u, e) # {}
          PROVE  Writing(u, e)' # {}
      <4>1. PICK v \in Writing(u, e) : v \in Workers /\ v # w
        BY <1>12, <1>17, <2>3, <3>3 DEF Writing
      <4> QED
        BY <1>11, <1>17, <4>1
    <3> QED
      BY <1>16, <3>1, <3>2, <3>3
  <2> QED
    BY <2>1, <2>2, <2>3
<1> QED
  BY <1>4, <1>8, <1>14, <1>15, <1>18, <1>19, <1>20 DEF IInv

\* A busy worker: its record, and the text it has.
LEMMA WorkerAt ==
  ASSUME IInv, NEW w \in Workers, Busy(w)
  PROVE  /\ worker[w] \in Indexing /\ worker[w].at \in WorkerSteps
         /\ worker[w].of \in Docs /\ worker[w].store \in StoreSet
         /\ clean[worker[w].of] \in Texts
         /\ worker[w].at # "read" => worker[w].text \in Texts
<1>1. worker[w] \in {Idle} \cup Indexing /\ worker[w] # Idle
  BY DEF IInv, TypeOK, Busy
<1>2. worker[w].of \in Docs
  BY <1>1, WorkerState
<1>3. clean[worker[w].of] \in Texts
  BY <1>2 DEF IInv, TypeOK, JobsHaveText
<1> QED
  BY <1>1, <1>3, WorkerState DEF IInv, JobsHaveText

LEMMA BusyAt ==
  ASSUME IInv, NEW w \in Workers, worker[w].at # "idle"
  PROVE  Busy(w)
BY WorkerState DEF IInv, TypeOK, Busy

LEMMA WorkerTypes ==
  ASSUME TypeOK, NEW w \in Workers, NEW s \in {Idle} \cup Indexing,
         worker' = [worker EXCEPT ![w] = s],
         jobs' \in [StoreSet -> [Docs -> Nat]],
         container' \in [StoreSet -> {"absent", "bare", "ready"}],
         index' \in [StoreSet -> [Docs -> [Chunks -> {0} \cup Texts]]],
         lost' \in [StoreSet -> SUBSET Docs], faults' \in 0..MaxFaults,
         UNCHANGED <<requestVars, raced>>
  PROVE  TypeOK'
BY DEF TypeOK, requestVars

LEMMA DoesNext ==
  ASSUME IInv, NEW w \in Workers, Busy(w), NEW at \in WorkerSteps, Doing(w, at)
  PROVE  \E s \in Indexing :
           /\ worker' = [worker EXCEPT ![w] = s] /\ s # Idle
           /\ s.at = at /\ s.of = worker[w].of /\ s.store = worker[w].store
           /\ s.text = worker[w].text
<1>1. PICK h \in Indexing : h = worker[w]
  BY WorkerAt
<1> DEFINE s == [h EXCEPT !.at = at]
<1>2. s \in Indexing /\ s.at = at /\ s.of = h.of /\ s.store = h.store /\ s.text = h.text
  BY DEF Indexing, WorkerSteps
<1>3. worker' = [worker EXCEPT ![w] = s]
  BY <1>1 DEF Doing
<1> HIDE DEF s
<1>4. s # Idle
  BY <1>2, WorkerState DEF WorkerSteps
<1> QED
  BY <1>1, <1>2, <1>3, <1>4

\* A step on the way from the text to the chunks.
LEMMA DoingKeeps ==
  ASSUME IInv, NEW w \in Workers, worker[w].at \in {"ensure", "create", "finish"},
         NEW at \in {"create", "finish", "write"}, Doing(w, at),
         container' \in [StoreSet -> {"absent", "bare", "ready"}],
         UNCHANGED <<requestVars, jobs, index, raced, lost, faults>>
  PROVE  IInv'
<1>1. Busy(w) /\ TypeOK
  BY BusyAt DEF IInv
<1>2. worker[w].at # "read" /\ worker[w].text \in Texts
  BY <1>1, WorkerAt
<1>3. PICK s \in Indexing :
        /\ worker' = [worker EXCEPT ![w] = s] /\ s # Idle
        /\ s.at = at /\ s.of = worker[w].of /\ s.store = worker[w].store
        /\ s.text = worker[w].text
  BY <1>1, DoesNext DEF WorkerSteps
<1>4. TypeOK'
  BY <1>1, <1>3, WorkerTypes DEF TypeOK
<1>5. StoreChanges(worker[w].store, worker[w].of)
  BY DEF StoreChanges
<1>6. WorksOn(w, worker[w].store, worker[w].of, s)
  BY <1>2, <1>3 DEF WorksOn
<1> QED
  BY <1>1, <1>3, <1>4, <1>5, <1>6, WorkerStep

LEMMA ReadCleanKeeps ==
  ASSUME IInv, NEW w \in Workers, ReadClean(w)
  PROVE  IInv'
<1> DEFINE t == worker[w].store
           d == worker[w].of
           v == clean[d]
<1>1. worker[w].at = "read" /\ Busy(w) /\ TypeOK
  BY BusyAt DEF ReadClean, IInv
<1>2. /\ worker[w] \in Indexing /\ d \in Docs /\ t \in StoreSet /\ v \in Texts
      /\ Length[v] \in Nat
  BY <1>1, WorkerAt, TextsAreNumbers
<1>3. StoreChanges(t, d)
  BY DEF ReadClean, StoreChanges
<1>4. CASE Length[v] = 0
  <2>1. worker' = [worker EXCEPT ![w] = Idle]
    BY <1>4 DEF ReadClean
  <2>2. TypeOK'
    BY <1>1, <2>1, WorkerTypes DEF ReadClean, TypeOK
  <2>3. IsDone(w, t, d)
    BY <1>4 DEF IsDone
  <2> QED
    BY <1>1, <1>3, <2>1, <2>2, <2>3, WorkerStep
<1>5. CASE Length[v] # 0
  <2>1. PICK h \in Indexing, text \in Texts : h = worker[w] /\ text = v
    BY <1>2
  <2> DEFINE s == [h EXCEPT !.at = "ensure", !.text = text]
  <2>2. s \in Indexing /\ s.at = "ensure" /\ s.of = h.of /\ s.store = h.store /\ s.text = text
    BY DEF Indexing
  <2>3. worker' = [worker EXCEPT ![w] = s]
    BY <1>5, <2>1 DEF ReadClean
  <2> HIDE DEF s
  <2>4. s # Idle
    BY <2>2, WorkerState
  <2>5. TypeOK'
    BY <1>1, <2>2, <2>3, WorkerTypes DEF ReadClean, TypeOK
  <2>6. WorksOn(w, t, d, s)
    BY <2>1, <2>2 DEF ReadClean, WorksOn
  <2> QED
    BY <1>1, <1>3, <2>2, <2>3, <2>4, <2>5, <2>6, WorkerStep
<1> QED
  BY <1>4, <1>5

LEMMA ContainerKeeps ==
  ASSUME IInv, NEW w \in Workers, Ensure(w) \/ CreateContainer(w) \/ FinishContainer(w)
  PROVE  IInv'
<1>1. TypeOK
  BY DEF IInv
<1>2. CASE Ensure(w)
  <2> DEFINE at == IF container[worker[w].store] = "absent" THEN "create" ELSE "write"
  <2>1. at \in {"create", "finish", "write"} /\ Doing(w, at)
    BY <1>2 DEF Ensure
  <2> HIDE DEF at
  <2> QED
    BY <1>1, <1>2, <2>1, DoingKeeps DEF Ensure, TypeOK
<1>3. CASE CreateContainer(w)
  <2>1. container' \in [StoreSet -> {"absent", "bare", "ready"}]
    BY <1>1, <1>3 DEF CreateContainer, TypeOK
  <2>2. Doing(w, "finish") \/ Doing(w, "write")
    BY <1>3 DEF CreateContainer
  <2> QED
    BY <1>3, <2>1, <2>2, DoingKeeps DEF CreateContainer
<1>4. CASE FinishContainer(w)
  <2>1. container' \in [StoreSet -> {"absent", "bare", "ready"}]
    BY <1>1, <1>4 DEF FinishContainer, TypeOK
  <2> QED
    BY <1>4, <2>1, DoingKeeps DEF FinishContainer
<1> QED
  BY <1>2, <1>3, <1>4

\* The job goes back to its queue.
LEMMA Requeues ==
  ASSUME IInv, NEW w \in Workers, Busy(w), Requeue(w)
  PROVE  /\ worker' = [worker EXCEPT ![w] = Idle]
         /\ jobs' \in [StoreSet -> [Docs -> Nat]]
         /\ jobs'[worker[w].store][worker[w].of] > 0
         /\ \A u \in StoreSet, e \in Docs :
              /\ jobs[u][e] > 0 => jobs'[u][e] > 0
              /\ u # worker[w].store \/ e # worker[w].of => jobs'[u][e] = jobs[u][e]
<1> DEFINE t == worker[w].store
           d == worker[w].of
<1>1. t \in StoreSet /\ d \in Docs
  BY WorkerAt
<1>2. jobs \in [StoreSet -> [Docs -> Nat]] /\ jobs[t][d] \in Nat
  BY <1>1 DEF IInv, TypeOK
<1>3. jobs' = [jobs EXCEPT ![t][d] = jobs[t][d] + 1]
  BY DEF Requeue
<1>4. jobs[t][d] + 1 \in Nat /\ jobs[t][d] + 1 > 0
  BY <1>2
<1>5. /\ jobs' \in [StoreSet -> [Docs -> Nat]] /\ jobs'[t][d] = jobs[t][d] + 1
      /\ \A u \in StoreSet, e \in Docs : u # t \/ e # d => jobs'[u][e] = jobs[u][e]
  BY <1>1, <1>2, <1>3, <1>4, NestedUpdate
<1>6. ASSUME NEW u \in StoreSet, NEW e \in Docs, jobs[u][e] > 0
      PROVE  jobs'[u][e] > 0
  BY <1>4, <1>5, <1>6
<1> QED
  BY <1>4, <1>5, <1>6 DEF Requeue

LEMMA CreateLostKeeps ==
  ASSUME IInv, NEW w \in Workers, CreateLost(w)
  PROVE  IInv'
<1>1. Busy(w) /\ TypeOK /\ Requeue(w)
  BY BusyAt DEF CreateLost, IInv
<1>2. TypeOK'
  BY <1>1, Requeues, WorkerTypes DEF CreateLost, TypeOK
<1>3. StoreChanges(worker[w].store, worker[w].of)
  BY <1>1, Requeues DEF CreateLost, StoreChanges
<1>4. IsDone(w, worker[w].store, worker[w].of)
  BY <1>1, Requeues DEF IsDone
<1> QED
  BY <1>1, <1>2, <1>3, <1>4, Requeues, WorkerStep

\* An update of the chunks of one document in one store.
LEMMA IndexUpdate ==
  ASSUME TypeOK, NEW t \in StoreSet, NEW d \in Docs, NEW chunks \in [Chunks -> {0} \cup Texts],
         index' = [index EXCEPT ![t][d] = chunks]
  PROVE  /\ index' \in [StoreSet -> [Docs -> [Chunks -> {0} \cup Texts]]]
         /\ index'[t][d] = chunks
         /\ \A u \in StoreSet, e \in Docs : u # t \/ e # d => index'[u][e] = index[u][e]
BY NestedUpdate DEF TypeOK

LEMMA WriteKeeps ==
  ASSUME IInv, NEW w \in Workers, Write(w)
  PROVE  IInv'
<1> DEFINE t == worker[w].store
           d == worker[w].of
           v == worker[w].text
           chunks == Written(index[t][d], v)
<1>1. worker[w].at = "write" /\ Busy(w) /\ TypeOK
  BY BusyAt DEF Write, IInv
<1>2. d \in Docs /\ t \in StoreSet /\ v \in Texts
  BY <1>1, WorkerAt
<1>3. chunks \in [Chunks -> {0} \cup Texts]
  BY <1>1, <1>2 DEF TypeOK, Written
<1>4. index' = [index EXCEPT ![t][d] = chunks] /\ worker' = [worker EXCEPT ![w] = Idle]
  BY DEF Write
<1>5. ASSUME v = clean[d]
      PROVE  \A k \in 1..Length[v] : index'[t][d][k] = v
  <2>1. \A k \in 1..Length[v] : k \in Chunks
    BY <1>2, ChunksCover
  <2>2. \A k \in 1..Length[v] : k <= Length[v]
    BY <1>2, TextsAreNumbers
  <2>3. \A k \in 1..Length[v] : chunks[k] = v
    BY <2>1, <2>2 DEF Written
  <2>4. index'[t][d] = chunks
    BY <1>1, <1>2, <1>3, <1>4, IndexUpdate
  <2> HIDE DEF chunks
  <2> QED
    BY <2>3, <2>4
<1> HIDE DEF chunks
<1>6. /\ index' \in [StoreSet -> [Docs -> [Chunks -> {0} \cup Texts]]]
      /\ \A u \in StoreSet, e \in Docs : u # t \/ e # d => index'[u][e] = index[u][e]
  BY <1>1, <1>2, <1>3, <1>4, IndexUpdate
<1>7. TypeOK'
  BY <1>1, <1>4, <1>6, WorkerTypes DEF Write, TypeOK
<1>8. StoreChanges(t, d)
  BY <1>6 DEF Write, StoreChanges
<1>9. IsDone(w, t, d)
  BY <1>1, <1>5 DEF IsDone
<1> QED
  BY <1>1, <1>4, <1>7, <1>8, <1>9, WorkerStep

LEMMA WorkFailsKeeps ==
  ASSUME IInv, NEW w \in Workers, WorkFails(w)
  PROVE  IInv'
<1> DEFINE t == worker[w].store
           d == worker[w].of
<1>1. Busy(w) /\ TypeOK /\ faults' \in 0..MaxFaults
  BY Faulted DEF WorkFails, IInv
<1>2. /\ d \in Docs /\ t \in StoreSet
      /\ worker[w].at # "read" => worker[w].text \in Texts
  BY <1>1, WorkerAt
<1>3. /\ index' \in [StoreSet -> [Docs -> [Chunks -> {0} \cup Texts]]]
      /\ \A u \in StoreSet, e \in Docs : u # t \/ e # d => index'[u][e] = index[u][e]
  <2>1. CASE UNCHANGED index
    BY <1>1, <2>1 DEF TypeOK
  <2>2. CASE IndexSome(w)
    <3>1. PICK K \in SUBSET (1..Length[worker[w].text]) :
            index' = [index EXCEPT !["text"][d] =
                        [k \in Chunks |-> IF k \in K THEN worker[w].text ELSE @[k]]]
      BY <2>2 DEF IndexSome
    <3> DEFINE chunks == [k \in Chunks |-> IF k \in K THEN worker[w].text ELSE index["text"][d][k]]
    <3>2. t = "text" /\ worker[w].text \in Texts
      BY <1>2, <2>2 DEF IndexSome
    <3>3. chunks \in [Chunks -> {0} \cup Texts]
      BY <1>1, <1>2, <3>2 DEF TypeOK
    <3>4. index' = [index EXCEPT ![t][d] = chunks]
      BY <3>1, <3>2
    <3> HIDE DEF chunks
    <3> QED
      BY <1>1, <1>2, <3>3, <3>4, IndexUpdate
  <2> QED
    BY <2>1, <2>2 DEF WorkFails
<1>4. /\ worker' = [worker EXCEPT ![w] = Idle]
      /\ jobs' \in [StoreSet -> [Docs -> Nat]]
      /\ lost' \in [StoreSet -> SUBSET Docs]
      /\ \A u \in StoreSet : lost[u] \subseteq lost'[u]
      /\ \A u \in StoreSet, e \in Docs :
           /\ jobs[u][e] > 0 => jobs'[u][e] > 0
           /\ u # t \/ e # d => jobs'[u][e] = jobs[u][e]
      /\ jobs'[t][d] > 0 \/ d \in lost'[t]
  <2>1. CASE Requeue(w) /\ UNCHANGED lost
    BY <1>1, <2>1, Requeues DEF TypeOK
  <2>2. CASE worker' = [worker EXCEPT ![w] = Idle] /\ Lose({t}, d) /\ UNCHANGED jobs
    BY <1>1, <1>2, <2>2, Loses DEF TypeOK
  <2> QED
    BY <2>1, <2>2 DEF WorkFails
<1>5. TypeOK'
  BY <1>1, <1>3, <1>4, WorkerTypes DEF WorkFails, TypeOK
<1>6. StoreChanges(t, d)
  BY <1>3, <1>4 DEF WorkFails, StoreChanges
<1>7. IsDone(w, t, d)
  BY <1>4 DEF IsDone
<1> QED
  BY <1>1, <1>4, <1>5, <1>6, <1>7, WorkerStep

\* A job leaves its queue: to a worker, or lost.
LEMMA JobLeaves ==
  ASSUME TypeOK, NEW t \in StoreSet, NEW d \in Docs, jobs[t][d] > 0,
         jobs' = [jobs EXCEPT ![t][d] = @ - 1]
  PROVE  /\ jobs' \in [StoreSet -> [Docs -> Nat]]
         /\ \A u \in StoreSet, e \in Docs : jobs'[u][e] > 0 => jobs[u][e] > 0
         /\ \A u \in StoreSet, e \in Docs : u # t \/ e # d => jobs'[u][e] = jobs[u][e]
<1>1. jobs \in [StoreSet -> [Docs -> Nat]] /\ jobs[t][d] - 1 \in Nat
  BY DEF TypeOK
<1>2. jobs' = [jobs EXCEPT ![t][d] = jobs[t][d] - 1]
  OBVIOUS
<1>3. /\ jobs' \in [StoreSet -> [Docs -> Nat]]
      /\ \A u \in StoreSet, e \in Docs : u # t \/ e # d => jobs'[u][e] = jobs[u][e]
  BY <1>1, <1>2, NestedUpdate
<1> QED
  BY <1>3

LEMMA TakeKeeps ==
  ASSUME IInv, NEW w \in Workers, NEW t \in StoreSet, NEW d \in Docs, Take(w, t, d)
  PROVE  IInv'
<1>1. /\ TypeOK /\ ~Busy(w) /\ jobs[t][d] > 0 /\ jobs' = [jobs EXCEPT ![t][d] = @ - 1]
      /\ UNCHANGED <<doc, clean, registry, request, abandoned, overlapped, container, index,
                     lost, faults>>
  BY DEF Take, requestVars, IInv
<1>2. /\ jobs' \in [StoreSet -> [Docs -> Nat]]
      /\ \A u \in StoreSet, e \in Docs : jobs'[u][e] > 0 => jobs[u][e] > 0
      /\ \A u \in StoreSet, e \in Docs : u # t \/ e # d => jobs'[u][e] = jobs[u][e]
  BY <1>1, JobLeaves
<1>3. PICK s \in Indexing :
        /\ worker' = [worker EXCEPT ![w] = s]
        /\ s.at = "read" /\ s.of = d /\ s.store = t
  <2> DEFINE s == [at |-> "read", of |-> d, store |-> t, text |-> 0]
  <2>1. s \in Indexing /\ s.at = "read" /\ s.of = d /\ s.store = t
    BY DEF Indexing
  <2> QED
    BY <2>1 DEF Take
<1>4. worker'[w] = s /\ s # Idle /\ \A v \in Workers \ {w} : worker'[v] = worker[v]
  BY <1>1, <1>3, WorkerState DEF TypeOK
<1>5. Busy(w)' /\ \A v \in Workers \ {w} : Busy(v)' = Busy(v)
  BY <1>4 DEF Busy
<1>6. /\ raced' \in [StoreSet -> SUBSET Docs]
      /\ \A u \in StoreSet : raced[u] \subseteq raced'[u]
      /\ Writing(t, d) # {} => d \in raced'[t]
  BY <1>1 DEF Take, TypeOK
<1>7. TypeOK'
  BY <1>1, <1>2, <1>3, <1>6 DEF Take, TypeOK, requestVars
<1>8. AllIsOwed' /\ TextIsKnown' /\ ProcessingIsOwned' /\ RequestsOverlap' /\ CommittedIsIndexed'
  BY <1>1 DEF IInv, AllIsOwed, TextIsKnown, ProcessingIsOwned, RequestsOverlap,
              CommittedIsIndexed, Active
<1>9. clean[d] # 0
  BY <1>1 DEF IInv, JobsHaveText
<1>10. JobsHaveText'
  <2>1. ASSUME NEW v \in Workers, Busy(v)'
        PROVE  clean'[worker'[v].of] # 0 /\ (worker'[v].at # "read" => worker'[v].text \in Texts)
    <3>1. CASE v = w
      BY <1>1, <1>3, <1>4, <1>9, <3>1
    <3>2. CASE v # w
      BY <1>1, <1>4, <1>5, <2>1, <3>2 DEF IInv, JobsHaveText
    <3> QED
      BY <3>1, <3>2
  <2> QED
    BY <1>1, <1>2, <2>1 DEF IInv, JobsHaveText
<1>11. \A e \in Docs : On(e)' = On(e)
  BY <1>1 DEF On
<1>12. \A u \in StoreSet, e \in Docs : Writing(u, e) = {v \in Workers : Busy(v) /\ worker[v].store = u /\ worker[v].of = e}
  BY DEF Writing
<1>13. \A u \in StoreSet, e \in Docs : Writing(u, e)' = {v \in Workers : Busy(v)' /\ worker'[v].store = u /\ worker'[v].of = e}
  BY DEF Writing
<1>14. /\ w \in Writing(t, d)'
       /\ \A u \in StoreSet, e \in Docs, v \in Workers :
            /\ v \in Writing(u, e) => v \in Writing(u, e)'
            /\ v \in Writing(u, e)' => v \in Writing(u, e) \/ (u = t /\ e = d)
  BY <1>1, <1>3, <1>4, <1>5, <1>12, <1>13
<1>15. ASSUME NEW e \in Docs, Started(e)'
       PROVE  Started(e)
  <2>1. PICK u \in StoreSet :
          jobs'[u][e] > 0 \/ Writing(u, e)' # {} \/ \E k \in Chunks : index[u][e][k] # 0
    BY <1>1, <1>15 DEF Started
  <2>2. CASE u = t /\ e = d
    BY <1>1, <2>2 DEF Started
  <2>3. CASE u # t \/ e # d
    <3>1. Writing(u, e)' # {} => Writing(u, e) # {}
      BY <1>13, <1>14, <2>3
    <3> QED
      BY <1>2, <2>1, <3>1 DEF Started
  <2> QED
    BY <2>2, <2>3
<1>16. StartedIsIndexed'
  BY <1>1, <1>11, <1>15 DEF IInv, StartedIsIndexed
<1>17. RegisteredIsIndexed'
  BY <1>1, <1>11 DEF IInv, RegisteredIsIndexed, TypeOK
<1>18. \A u \in StoreNames, e \in Docs : u # t \/ e # d => (Coming(u, e) => Coming(u, e)')
  BY <1>1, <1>2, <1>11, StoresAreKnown DEF Coming, Owed
<1>19. StaleIsFollowed'
  <2> SUFFICES ASSUME NEW v \in Workers, NEW u \in StoreNames, NEW e \in Docs,
                      Busy(v)', worker'[v].at # "read", worker'[v].store = u, worker'[v].of = e,
                      e \notin lost[u] \cup raced'[u], worker'[v].text # clean[e]
               PROVE  Coming(u, e)'
    BY <1>1 DEF StaleIsFollowed
  <2>1. v # w /\ Busy(v) /\ worker'[v] = worker[v]
    BY <1>3, <1>4, <1>5
  <2>2. u \in StoreSet /\ v \in Writing(u, e) /\ e \notin raced[u]
    BY <1>6, <1>12, <2>1, StoresAreKnown
  <2>3. u # t \/ e # d
    BY <1>6, <2>2
  <2> QED
    BY <1>18, <2>1, <2>2, <2>3 DEF IInv, StaleIsFollowed
<1>20. WritersRace'
  <2> SUFFICES ASSUME NEW u \in Workers, NEW v \in Workers, u # v, Busy(u)', Busy(v)',
                      worker'[u].of = worker'[v].of, worker'[u].store = worker'[v].store
               PROVE  worker'[u].of \in raced'[worker'[u].store]
    BY DEF WritersRace
  <2>1. CASE u # w /\ v # w
    <3>1. worker[u].of \in raced[worker[u].store] /\ Busy(u) /\ worker'[u] = worker[u]
      BY <1>4, <1>5, <2>1 DEF IInv, WritersRace
    <3> QED
      BY <1>6, <3>1, WorkerAt
  <2>2. CASE u = w \/ v = w
    <3>1. PICK o \in {u, v} : o # w /\ Busy(o) /\ worker[o].of = d /\ worker[o].store = t
      BY <1>3, <1>4, <1>5, <2>2
    <3>2. d \in raced'[t]
      BY <1>6, <1>12, <3>1
    <3> QED
      BY <1>3, <1>4, <2>2, <3>2
  <2> QED
    BY <2>1, <2>2
<1>21. IndexedOrComing'
  <2> SUFFICES ASSUME NEW u \in StoreNames, NEW e \in Docs, clean[e] # 0,
                      e \notin lost[u] \cup raced'[u]
               PROVE  Current(u, e)' \/ Coming(u, e)' \/ Writing(u, e)' # {}
    BY <1>1 DEF IndexedOrComing
  <2>1. CASE u = t /\ e = d
    BY <1>14, <2>1
  <2>2. CASE u # t \/ e # d
    <3>1. u \in StoreSet /\ (Current(u, e) \/ Coming(u, e) \/ Writing(u, e) # {})
      BY <1>6, StoresAreKnown DEF IInv, IndexedOrComing
    <3>2. Current(u, e) => Current(u, e)'
      BY <1>1 DEF Current
    <3>3. Writing(u, e) # {} => Writing(u, e)' # {}
      BY <1>12, <1>14, <3>1
    <3> QED
      BY <1>18, <2>2, <3>1, <3>2, <3>3
  <2> QED
    BY <2>1, <2>2
<1> QED
  BY <1>7, <1>8, <1>10, <1>16, <1>17, <1>19, <1>20, <1>21 DEF IInv

LEMMA TakenByAnotherKeeps ==
  ASSUME IInv, NEW t \in StoreSet, NEW d \in Docs, TakenByAnother(t, d)
  PROVE  IInv'
<1>1. /\ TypeOK /\ jobs[t][d] > 0 /\ jobs' = [jobs EXCEPT ![t][d] = @ - 1] /\ Lose({t}, d)
      /\ UNCHANGED <<doc, clean, registry, request, abandoned, overlapped, worker, container,
                     index, raced, faults>>
  BY DEF TakenByAnother, requestVars, storeVars, IInv
<1>2. /\ jobs' \in [StoreSet -> [Docs -> Nat]]
      /\ \A u \in StoreSet, e \in Docs : jobs'[u][e] > 0 => jobs[u][e] > 0
      /\ \A u \in StoreSet, e \in Docs : u # t \/ e # d => jobs'[u][e] = jobs[u][e]
  BY <1>1, JobLeaves
<1>3. /\ lost' \in [StoreSet -> SUBSET Docs] /\ d \in lost'[t]
      /\ \A u \in StoreSet : lost[u] \subseteq lost'[u]
  BY <1>1, Loses
<1>4. TypeOK'
  BY <1>1, <1>2, <1>3 DEF TakenByAnother, TypeOK, requestVars
<1>5. AllIsOwed' /\ TextIsKnown' /\ ProcessingIsOwned' /\ RequestsOverlap' /\ CommittedIsIndexed'
  BY <1>1 DEF IInv, AllIsOwed, TextIsKnown, ProcessingIsOwned, RequestsOverlap,
              CommittedIsIndexed, Active
<1>6. JobsHaveText' /\ WritersRace'
  BY <1>1, <1>2 DEF IInv, JobsHaveText, WritersRace, Busy
<1>7. \A e \in Docs : On(e)' = On(e)
  BY <1>1 DEF On
<1>8. \A u \in StoreSet, e \in Docs : Writing(u, e)' = Writing(u, e)
  BY <1>1 DEF Writing, Busy
<1>9. \A e \in Docs : Started(e)' => Started(e)
  BY <1>1, <1>2, <1>8 DEF Started
<1>10. StartedIsIndexed'
  BY <1>1, <1>7, <1>9 DEF IInv, StartedIsIndexed
<1>11. RegisteredIsIndexed'
  BY <1>1, <1>3, <1>7, StoresAreKnown DEF IInv, RegisteredIsIndexed, TypeOK
<1>12. \A u \in StoreNames, e \in Docs : u # t \/ e # d => (Coming(u, e) => Coming(u, e)')
  BY <1>1, <1>2, <1>7, StoresAreKnown DEF Coming, Owed
<1>13. \A u \in StoreNames, e \in Docs :
         u \in StoreSet /\ (e \notin lost'[u] => e \notin lost[u] /\ (u # t \/ e # d))
  BY <1>3, StoresAreKnown
<1>14. StaleIsFollowed'
  BY <1>1, <1>12, <1>13 DEF IInv, StaleIsFollowed, Busy
<1>15. IndexedOrComing'
  BY <1>1, <1>8, <1>12, <1>13 DEF IInv, IndexedOrComing, Current
<1> QED
  BY <1>4, <1>5, <1>6, <1>10, <1>11, <1>14, <1>15 DEF IInv

LEMMA WorkersKeep ==
  ASSUME IInv, NEW w \in Workers, TakeAny(w) \/ Process(w) \/ WorkFails(w)
  PROVE  IInv'
BY TakeKeeps, ReadCleanKeeps, ContainerKeeps, CreateLostKeeps, WriteKeeps, WorkFailsKeeps
   DEF TakeAny, Process

-----------------------------------------------------------------------------
(***************************************************************************)
(* The invariant, and what follows from it.                                *)
(***************************************************************************)

LEMMA InitIInv == Init => IInv
<1> SUFFICES ASSUME Init
             PROVE  IInv
  OBVIOUS
<1>1. Idle.at = "idle" /\ \A r \in Requests : ~Active(r) /\ request[r].at = "idle"
  BY DEF Init, Active, Idle
<1>2. \A w \in Workers : ~Busy(w)
  BY DEF Init, Busy
<1>3. TypeOK
  BY KnowledgeAssumption DEF Init, TypeOK, Statuses
<1>4. AllIsOwed /\ TextIsKnown /\ RequestsOverlap
  BY <1>1 DEF AllIsOwed, TextIsKnown, RequestsOverlap
<1>5. JobsHaveText /\ StaleIsFollowed /\ WritersRace
  BY <1>2 DEF Init, JobsHaveText, StaleIsFollowed, WritersRace
<1>6. ProcessingIsOwned
  BY DEF Init, ProcessingIsOwned
<1>7. \A d \in Docs : ~Started(d)
  <2>1. \A s \in StoreSet, d \in Docs : Writing(s, d) = {}
    BY <1>2 DEF Writing
  <2> QED
    BY <2>1 DEF Init, Started
<1>8. StartedIsIndexed /\ CommittedIsIndexed /\ RegisteredIsIndexed
  BY <1>1, <1>7 DEF Init, StartedIsIndexed, CommittedIsIndexed, RegisteredIsIndexed, Committed
<1>9. IndexedOrComing
  BY DEF Init, IndexedOrComing
<1> QED
  BY <1>3, <1>4, <1>5, <1>6, <1>8, <1>9 DEF IInv

LEMMA StutteringKeeps ==
  ASSUME IInv, UNCHANGED vars
  PROVE  IInv'
<1>1. UNCHANGED <<doc, original, clean, registry, request, jobs, worker, container, index,
                  abandoned, overlapped, lost, raced, ingests, faults>>
  BY DEF vars, requestVars, storeVars
<1>2. TypeOK' /\ AllIsOwed' /\ TextIsKnown' /\ JobsHaveText' /\ ProcessingIsOwned'
  BY <1>1 DEF IInv, TypeOK, AllIsOwed, TextIsKnown, JobsHaveText, ProcessingIsOwned, Active, Busy
<1>3. RequestsOverlap' /\ CommittedIsIndexed' /\ WritersRace'
  BY <1>1 DEF IInv, RequestsOverlap, CommittedIsIndexed, WritersRace, Active, Busy
<1>4. \A e \in Docs : On(e)' = On(e)
  BY <1>1 DEF On
<1>5. \A s \in StoreSet, e \in Docs : Writing(s, e)' = Writing(s, e)
  BY <1>1 DEF Writing, Busy
<1>6. \A e \in Docs : Started(e)' = Started(e)
  BY <1>1, <1>5 DEF Started
<1>7. StartedIsIndexed' /\ RegisteredIsIndexed'
  BY <1>1, <1>4, <1>6 DEF IInv, StartedIsIndexed, RegisteredIsIndexed, TypeOK
<1>8. \A s \in StoreNames, e \in Docs : Coming(s, e)' = Coming(s, e)
  BY <1>1, <1>4 DEF Coming, Owed
<1>9. StaleIsFollowed' /\ IndexedOrComing'
  BY <1>1, <1>5, <1>8, StoresAreKnown DEF IInv, StaleIsFollowed, IndexedOrComing, Current, Busy
<1> QED
  BY <1>2, <1>3, <1>7, <1>9 DEF IInv

LEMMA NextKeepsIInv == IInv /\ [Next]_vars => IInv'
<1> SUFFICES ASSUME IInv, [Next]_vars
             PROVE  IInv'
  OBVIOUS
<1>1. CASE StorageController
  BY <1>1, UploadKeeps DEF StorageController
<1>2. CASE IngestionController
  BY <1>2, CreateKeeps, IngestKeeps DEF IngestionController
<1>3. CASE \E r \in Requests : Advance(r) \/ RequestFaults(r)
  BY <1>3, RequestsKeep
<1>4. CASE \E s \in StoreSet, d \in Docs : TakenByAnother(s, d)
  BY <1>4, TakenByAnotherKeeps
<1>5. CASE \E w \in Workers : TakeAny(w) \/ Process(w) \/ WorkFails(w)
  BY <1>5, WorkersKeep
<1>6. CASE UNCHANGED vars
  BY <1>6, StutteringKeeps
<1> QED
  BY <1>1, <1>2, <1>3, <1>4, <1>5, <1>6 DEF Next

LEMMA SpecIInv == Spec => []IInv
BY InitIInv, NextKeepsIInv, PTL DEF Spec

\* The types of the tables, of the stores and of what requests and workers are doing.
THEOREM KnowledgeTypes == Spec => []TypeOK
<1>1. IInv => TypeOK
  BY DEF IInv
<1> QED
  BY <1>1, SpecIInv, PTL

\* A document that stays in PROCESSING was left there by a request that died on it, or
\* whose update to FAILED failed (ingestion.service.ts:80-92).
THEOREM NothingIsStuckByItself == Spec => []StuckWasAbandoned
<1>1. IInv => StuckWasAbandoned
  <2> SUFFICES ASSUME IInv, NEW d \in Docs, doc[d] = "PROCESSING", On(d) = {}, d \notin abandoned
               PROVE  FALSE
    BY DEF StuckWasAbandoned, Stuck
  <2>1. PICK r \in Requests : request[r].at \in Unfinished /\ request[r].of = d
    BY DEF IInv, ProcessingIsOwned
  <2>2. request[r].at # "idle"
    BY <2>1 DEF Unfinished
  <2>3. r \in On(d)
    BY <2>1, <2>2, RequestAt DEF On, Active
  <2> QED
    BY <2>3
<1> QED
  BY <1>1, SpecIInv, PTL

\* Nothing of a FAILED document is found in a store, and if the registry has a row of it
\* its jobs were lost, unless two requests ingested it at once (ingestion.service.ts:131).
THEOREM FailedStaysUnknown == Spec => []FailedIsNotFound
<1>1. IInv => FailedIsNotFound
  <2> SUFFICES ASSUME IInv, NEW d \in Docs, doc[d] = "FAILED", d \notin overlapped,
                      NEW i \in 1..Len(Stores)
               PROVE  /\ \A k \in Chunks : index[Stores[i]][d][k] = 0
                      /\ d \in registry => d \in lost[Stores[i]]
    BY DEF FailedIsNotFound
  <2>1. Stores[i] \in StoreNames /\ Stores[i] \in StoreSet
    BY StoresAreKnown DEF StoreNames
  <2>2. ~Started(d)
    BY DEF IInv, StartedIsIndexed
  <2>3. \A k \in Chunks : index[Stores[i]][d][k] = 0
    BY <2>1, <2>2 DEF Started
  <2>4. d \in registry => d \in lost[Stores[i]]
    BY <2>1 DEF IInv, RegisteredIsIndexed
  <2> QED
    BY <2>3, <2>4
<1> QED
  BY <1>1, SpecIInv, PTL

\* When no request and no worker is at work on a document, a store holds the clean text
\* that is in storage, whatever was uploaded, ingested or tried again, unless a job was
\* lost or two workers wrote it at once.
THEOREM QuietIsCurrent == Spec => []QuietIndexIsCurrent
<1>1. IInv => QuietIndexIsCurrent
  <2> SUFFICES ASSUME IInv, NEW i \in 1..Len(Stores), NEW d \in Docs, NEW s, s = Stores[i],
                      clean[d] # 0, Quiet(s, d), d \notin lost[s] \cup raced[s]
               PROVE  \A k \in 1..Length[clean[d]] : index[s][d][k] = clean[d]
    BY DEF QuietIndexIsCurrent
  <2>1. s \in StoreNames
    BY DEF StoreNames
  <2>2. Current(s, d) \/ Coming(s, d) \/ Writing(s, d) # {}
    BY <2>1 DEF IInv, IndexedOrComing
  <2>3. ~Coming(s, d) /\ Writing(s, d) = {}
    BY DEF Quiet, Coming
  <2> QED
    BY <2>2, <2>3 DEF Current
<1> QED
  BY <1>1, SpecIInv, PTL
=============================================================================
