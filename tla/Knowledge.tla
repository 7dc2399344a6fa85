------------------------------ MODULE Knowledge ------------------------------
(***************************************************************************)
(* From an uploaded object to something that search finds (modules         *)
(* ingestion, storage, embeddings, search, graph, knowledge).  A request   *)
(* cleans the text of a document, registers it and asks for one job per    *)
(* store; workers read the clean text back and write its chunks.  A text   *)
(* is the version it has; a chunk is its index and the version it is of.   *)
(***************************************************************************)
EXTENDS Integers, FiniteSets, Sequences

CONSTANTS
  Docs,         \* documents
  Requests,     \* API requests in progress
  Workers,      \* consumers of ai-jobs, search-jobs and graph-jobs
  Stores,       \* the configured stores, in the order their jobs are enqueued
  Shared,       \* those whose queue also feeds processors that skip the job
  Length,       \* Length[v]: chunks in the clean text of version v
  Unreadable,   \* versions no text can be extracted from
  MaxIngests,   \* bound: requests to ingest a document
  MaxFaults     \* bound: calls that throw and processes that die

StoreSet == {"vector", "text", "graph"}
Versions == DOMAIN Length
Texts == Versions \ Unreadable

ASSUME KnowledgeAssumption ==
  /\ IsFiniteSet(Docs) /\ IsFiniteSet(Requests) /\ IsFiniteSet(Workers)
  /\ Stores \in Seq(StoreSet) /\ Shared \subseteq StoreSet
  /\ Length \in Seq(Nat)
  /\ Unreadable \subseteq Versions
  /\ MaxIngests \in Nat /\ MaxFaults \in Nat

VARIABLES
  doc,         \* status of a document
  original,    \* version of the object under its storageKey, 0 if none
  clean,       \* version of the object clean.txt, 0 if none
  registry,    \* documents with a row in knowledge_documents
  request,     \* what a request is doing
  jobs,        \* jobs of a document that wait in the queue of a store
  worker,      \* what a worker is doing
  container,   \* the organization's collection or index in a store
  index,       \* version of each chunk of a document in a store, 0 if none
  abandoned,   \* documents whose request ended without its last update
  overlapped,  \* documents two requests ingested at once
  lost,        \* documents one of whose jobs was lost on its way to a store
  raced,       \* documents two workers wrote to a store at once
  ingests, faults

requestVars == <<doc, original, clean, registry, request, abandoned, overlapped, ingests>>
storeVars == <<worker, container, index, raced>>
vars == <<requestVars, jobs, storeVars, lost, faults>>

Chunks == 1..(CHOOSE n \in {Length[v] : v \in Versions} : \A v \in Versions : Length[v] <= n)
Statuses == {"ABSENT", "PENDING", "PROCESSING", "INDEXED", "FAILED"}
Suffixes == {SubSeq(Stores, i, Len(Stores)) : i \in 1..Len(Stores) + 1}

Idle == [at |-> "idle"]
Ingesting == [at : {"claim", "fetch", "put", "commit", "append", "enqueue", "fail"},
              of : Docs, text : {0} \cup Texts, rest : Suffixes]
Indexing == [at : {"read", "ensure", "create", "finish", "write"},
             of : Docs, store : StoreSet, text : {0} \cup Texts]

TypeOK ==
  /\ doc \in [Docs -> Statuses]
  /\ original \in [Docs -> {0} \cup Versions]
  /\ clean \in [Docs -> {0} \cup Texts]
  /\ registry \subseteq Docs
  /\ request \in [Requests -> {Idle} \cup Ingesting]
  /\ jobs \in [StoreSet -> [Docs -> Nat]]
  /\ worker \in [Workers -> {Idle} \cup Indexing]
  /\ container \in [StoreSet -> {"absent", "bare", "ready"}]
  /\ index \in [StoreSet -> [Docs -> [Chunks -> {0} \cup Texts]]]
  /\ abandoned \subseteq Docs /\ overlapped \subseteq Docs
  /\ lost \in [StoreSet -> SUBSET Docs] /\ raced \in [StoreSet -> SUBSET Docs]
  /\ ingests \in 0..MaxIngests /\ faults \in 0..MaxFaults

Init ==
  /\ doc = [d \in Docs |-> "ABSENT"]
  /\ original = [d \in Docs |-> 0]
  /\ clean = [d \in Docs |-> 0]
  /\ registry = {}
  /\ request = [r \in Requests |-> Idle]
  /\ jobs = [s \in StoreSet |-> [d \in Docs |-> 0]]
  /\ worker = [w \in Workers |-> Idle]
  \* Neo4j has no collection to create.
  /\ container = [s \in StoreSet |-> IF s = "graph" THEN "ready" ELSE "absent"]
  /\ index = [s \in StoreSet |-> [d \in Docs |-> [k \in Chunks |-> 0]]]
  /\ abandoned = {} /\ overlapped = {}
  /\ lost = [s \in StoreSet |-> {}] /\ raced = [s \in StoreSet |-> {}]
  /\ ingests = 0 /\ faults = 0

Fault == faults < MaxFaults /\ faults' = faults + 1

-----------------------------------------------------------------------------
(* Requests *)

\* A client stores an object with its presigned URL, once or, until the URL
\* expires, again.
Upload(d) ==
  /\ original[d] + 1 \in Versions
  /\ original' = [original EXCEPT ![d] = @ + 1]
  /\ UNCHANGED <<doc, clean, registry, request, abandoned, overlapped, ingests, jobs, storeVars, lost, faults>>

\* POST /documents registers a key; nobody looks whether the object is there.
Create(d) ==
  /\ doc[d] = "ABSENT"
  /\ doc' = [doc EXCEPT ![d] = "PENDING"]
  /\ UNCHANGED <<original, clean, registry, request, abandoned, overlapped, ingests, jobs, storeVars, lost, faults>>

On(d) == {r \in Requests : request[r] # Idle /\ request[r].of = d}

\* Mutant: a document may be ingested again.
NotInProgress == {"PENDING", "INDEXED", "FAILED"}
Ingestible == {"PENDING", "FAILED"}

\* POST /documents/:id/ingest reads the document and checks its status.
Ingest(r, d) ==
  /\ request[r] = Idle
  /\ doc[d] \in Ingestible
  /\ ingests < MaxIngests /\ ingests' = ingests + 1
  /\ request' = [request EXCEPT ![r] = [at |-> "claim", of |-> d, text |-> 0, rest |-> Stores]]
  /\ overlapped' = IF On(d) = {} THEN overlapped ELSE overlapped \cup {d}
  /\ UNCHANGED <<doc, original, clean, registry, abandoned, jobs, storeVars, lost, faults>>

Step(r, at) == request' = [request EXCEPT ![r].at = at]

Claim(r) ==
  /\ request[r].at = "claim"
  /\ doc' = [doc EXCEPT ![request[r].of] = "PROCESSING"]
  /\ Step(r, "fetch")
  /\ UNCHANGED <<original, clean, registry, abandoned, overlapped, ingests, jobs, storeVars, lost, faults>>

\* getObject, extract and cleanText: nothing else can happen to what they hold.
Fetch(r) ==
  /\ request[r].at = "fetch"
  /\ LET v == original[request[r].of] IN
       request' = [request EXCEPT ![r] =
                     IF v \in Texts THEN [@ EXCEPT !.at = "put", !.text = v]
                     ELSE [@ EXCEPT !.at = "fail"]]
  /\ UNCHANGED <<doc, original, clean, registry, abandoned, overlapped, ingests, jobs, storeVars, lost, faults>>

PutClean(r) ==
  /\ request[r].at = "put"
  /\ clean' = [clean EXCEPT ![request[r].of] = request[r].text]
  /\ Step(r, "commit")
  /\ UNCHANGED <<doc, original, registry, abandoned, overlapped, ingests, jobs, storeVars, lost, faults>>

\* The transaction: the status and the registry's row together.
Commit(r) ==
  /\ request[r].at = "commit"
  /\ doc' = [doc EXCEPT ![request[r].of] = "INDEXED"]
  /\ registry' = registry \cup {request[r].of}
  /\ Step(r, "append")
  /\ UNCHANGED <<original, clean, abandoned, overlapped, ingests, jobs, storeVars, lost, faults>>

\* A request is over when it has no job left to enqueue.
Enqueueing(r, rest) ==
  request' = [request EXCEPT ![r] =
                IF rest = <<>> THEN Idle ELSE [@ EXCEPT !.at = "enqueue", !.rest = rest]]

AppendEvent(r) ==
  /\ request[r].at = "append"
  /\ Enqueueing(r, request[r].rest)
  /\ UNCHANGED <<doc, original, clean, registry, abandoned, overlapped, ingests, jobs, storeVars, lost, faults>>

\* enqueueEmbedding, enqueueSearch, enqueueGraph
Enqueue(r) ==
  /\ request[r].at = "enqueue"
  /\ jobs' = [jobs EXCEPT ![Head(request[r].rest)][request[r].of] = @ + 1]
  /\ Enqueueing(r, Tail(request[r].rest))
  /\ UNCHANGED <<doc, original, clean, registry, abandoned, overlapped, ingests, storeVars, lost, faults>>

\* The catch block.  Its own event is Outbox's subject.
\* Mutant: the status is left as it is.
LeaveStatus(r) ==
  /\ request[r].at = "fail"
  /\ request' = [request EXCEPT ![r] = Idle]
  /\ UNCHANGED <<doc, original, clean, registry, abandoned, overlapped, ingests, jobs, storeVars, lost, faults>>
Fail(r) ==
  /\ request[r].at = "fail"
  /\ doc' = [doc EXCEPT ![request[r].of] = "FAILED"]
  /\ request' = [request EXCEPT ![r] = Idle]
  /\ UNCHANGED <<original, clean, registry, abandoned, overlapped, ingests, jobs, storeVars, lost, faults>>

\* The jobs a request still owes for a clean text that it has, or may have, put.
Owed(r) ==
  IF request[r].at \in {"put", "commit", "append", "enqueue"}
  THEN {request[r].rest[i] : i \in 1..Len(request[r].rest)} ELSE {}

Lose(S, d) == lost' = [s \in StoreSet |-> IF s \in S THEN lost[s] \cup {d} ELSE lost[s]]

\* A call throws.  Before the try block the request ends; a failed enqueue is
\* swallowed; a failed update to FAILED leaves PROCESSING; anything else leads to
\* the catch block.  putObject may have stored the text all the same.
ThrowBeforeTry(r) ==
  /\ request[r].at = "claim"
  /\ request' = [request EXCEPT ![r] = Idle]
  /\ UNCHANGED <<clean, abandoned, lost, jobs>>

ThrowInTry(r) ==
  /\ request[r].at \in {"fetch", "put", "commit", "append"}
  /\ Step(r, "fail")
  /\ \/ UNCHANGED clean
     \/ /\ request[r].at = "put"
        /\ clean' = [clean EXCEPT ![request[r].of] = request[r].text]
  /\ Lose(Owed(r), request[r].of)
  /\ UNCHANGED <<abandoned, jobs>>

ThrowInCatch(r) ==
  /\ request[r].at = "fail"
  /\ request' = [request EXCEPT ![r] = Idle]
  /\ abandoned' = abandoned \cup {request[r].of}
  /\ UNCHANGED <<clean, lost, jobs>>

SkipEnqueue(r) ==
  /\ request[r].at = "enqueue"
  /\ Lose({Head(request[r].rest)}, request[r].of)
  /\ Enqueueing(r, Tail(request[r].rest))
  /\ UNCHANGED <<clean, abandoned, jobs>>

Crash(r) ==
  /\ request[r] # Idle
  /\ request' = [request EXCEPT ![r] = Idle]
  /\ abandoned' = IF request[r].at \in {"fetch", "put", "commit", "fail"}
                  THEN abandoned \cup {request[r].of} ELSE abandoned
  /\ Lose(Owed(r), request[r].of)
  /\ UNCHANGED <<clean, jobs>>

RequestFaults(r) ==
  /\ ThrowBeforeTry(r) \/ ThrowInTry(r) \/ ThrowInCatch(r) \/ SkipEnqueue(r) \/ Crash(r)
  /\ Fault
  /\ UNCHANGED <<doc, original, registry, overlapped, ingests, storeVars>>

-----------------------------------------------------------------------------
(* Workers *)

Busy(w) == worker[w] # Idle
Writing(s, d) == {w \in Workers : Busy(w) /\ worker[w].store = s /\ worker[w].of = d}
Doing(w, at) == worker' = [worker EXCEPT ![w].at = at]

Take(w, s, d) ==
  /\ ~Busy(w)
  /\ jobs[s][d] > 0
  /\ jobs' = [jobs EXCEPT ![s][d] = @ - 1]
  /\ worker' = [worker EXCEPT ![w] = [at |-> "read", of |-> d, store |-> s, text |-> 0]]
  /\ raced' = IF Writing(s, d) = {} THEN raced ELSE [raced EXCEPT ![s] = @ \cup {d}]
  /\ UNCHANGED <<requestVars, container, index, lost, faults>>

\* A processor of another job name takes the job and skips it (see JobQueue).
TakenByAnother(s, d) ==
  /\ s \in Shared
  /\ jobs[s][d] > 0
  /\ jobs' = [jobs EXCEPT ![s][d] = @ - 1]
  /\ Lose({s}, d)
  /\ UNCHANGED <<requestVars, storeVars, faults>>

\* The clean text is read back and chunked; a text without chunks is done with.
ReadClean(w) ==
  /\ worker[w].at = "read"
  /\ LET v == clean[worker[w].of] IN
       worker' = [worker EXCEPT ![w] =
                    IF Length[v] = 0 THEN Idle ELSE [@ EXCEPT !.at = "ensure", !.text = v]]
  /\ UNCHANGED <<requestVars, jobs, container, index, raced, lost, faults>>

\* ensureCollection, ensureIndex: look, create, and in Qdrant index two fields.
Ensure(w) ==
  /\ worker[w].at = "ensure"
  /\ Doing(w, IF container[worker[w].store] = "absent" THEN "create" ELSE "write")
  /\ UNCHANGED <<requestVars, jobs, container, index, raced, lost, faults>>

CreateContainer(w) ==
  /\ worker[w].at = "create"
  /\ container[worker[w].store] = "absent"
  /\ \/ /\ worker[w].store = "vector"
        /\ container' = [container EXCEPT !["vector"] = "bare"]
        /\ Doing(w, "finish")
     \/ /\ worker[w].store = "text"
        /\ container' = [container EXCEPT !["text"] = "ready"]
        /\ Doing(w, "write")
  /\ UNCHANGED <<requestVars, jobs, index, raced, lost, faults>>

FinishContainer(w) ==
  /\ worker[w].at = "finish"
  /\ container' = [container EXCEPT ![worker[w].store] = "ready"]
  /\ Doing(w, "write")
  /\ UNCHANGED <<requestVars, jobs, index, raced, lost, faults>>

\* The job goes back to be tried again.
\* Mutant: it is given up.
GiveUp(w) == worker' = [worker EXCEPT ![w] = Idle] /\ UNCHANGED jobs
Requeue(w) ==
  /\ jobs' = [jobs EXCEPT ![worker[w].store][worker[w].of] = @ + 1]
  /\ worker' = [worker EXCEPT ![w] = Idle]

\* Another worker has created it in the meantime, and the store says so.
CreateLost(w) ==
  /\ worker[w].at = "create"
  /\ container[worker[w].store] # "absent"
  /\ Requeue(w)
  /\ UNCHANGED <<requestVars, container, index, raced, lost, faults>>

\* upsertChunks, indexChunks, upsertDocumentChunks write the chunks there are;
\* a chunk of a longer text that was there before stays.
\* Mutant: chunks that are there already are not written.
OnlyNew(old, v) == [k \in Chunks |-> IF k <= Length[v] /\ old[k] = 0 THEN v ELSE old[k]]
Written(old, v) == [k \in Chunks |-> IF k <= Length[v] THEN v ELSE old[k]]

Write(w) ==
  /\ worker[w].at = "write"
  /\ index' = [index EXCEPT ![worker[w].store][worker[w].of] = Written(@, worker[w].text)]
  /\ worker' = [worker EXCEPT ![w] = Idle]
  /\ UNCHANGED <<requestVars, jobs, container, raced, lost, faults>>

\* indexChunks: a bulk request may have indexed some of the chunks.
IndexSome(w) ==
  /\ worker[w].at = "write" /\ worker[w].store = "text"
  /\ \E K \in SUBSET (1..Length[worker[w].text]) :
       index' = [index EXCEPT !["text"][worker[w].of] =
                   [k \in Chunks |-> IF k \in K THEN worker[w].text ELSE @[k]]]

\* A call throws or the worker dies: the job is tried again, or its attempts are
\* used up.
WorkFails(w) ==
  /\ Busy(w)
  /\ Fault
  /\ \/ Requeue(w) /\ UNCHANGED lost
     \/ /\ worker' = [worker EXCEPT ![w] = Idle]
        /\ Lose({worker[w].store}, worker[w].of)
        /\ UNCHANGED jobs
  /\ UNCHANGED index \/ IndexSome(w)
  /\ UNCHANGED <<requestVars, container, raced>>

-----------------------------------------------------------------------------
Advance(r) ==
  Claim(r) \/ Fetch(r) \/ PutClean(r) \/ Commit(r) \/ AppendEvent(r) \/ Enqueue(r) \/ Fail(r)

Process(w) ==
  \/ ReadClean(w) \/ Ensure(w) \/ CreateContainer(w) \/ FinishContainer(w)
  \/ CreateLost(w) \/ Write(w)

TakeAny(w) == \E s \in StoreSet, d \in Docs : Take(w, s, d)

StorageController == \E d \in Docs : Upload(d)
IngestionController == \E d \in Docs : Create(d) \/ \E r \in Requests : Ingest(r, d)

Next ==
  \/ StorageController \/ IngestionController
  \/ \E r \in Requests : Advance(r) \/ RequestFaults(r)
  \/ \E s \in StoreSet, d \in Docs : TakenByAnother(s, d)
  \/ \E w \in Workers : TakeAny(w) \/ Process(w) \/ WorkFails(w)

Spec == Init /\ [][Next]_vars

\* Awaits settle, and workers poll their queues.
FairSpec ==
  /\ Spec
  /\ \A r \in Requests : WF_vars(Advance(r))
  /\ \A w \in Workers : WF_vars(TakeAny(w) \/ Process(w))

-----------------------------------------------------------------------------
\* Nobody will finish d: every later request is refused with 409.
Stuck(d) == doc[d] = "PROCESSING" /\ On(d) = {}

\* ingestion.service.ts:80-92: a document is left in PROCESSING only by a request
\* that died on it, or whose update to FAILED failed.
StuckWasAbandoned == \A d \in Docs : Stuck(d) => d \in abandoned

\* ingestion.service.ts:131: a commit whose event is refused leaves a FAILED document in
\* the registry.  Still nothing of a FAILED document can be found, unless two
\* requests ingested it at once.
FailedIsNotFound ==
  \A d \in Docs : (doc[d] = "FAILED" /\ d \notin overlapped) =>
    \A i \in 1..Len(Stores) :
      /\ \A k \in Chunks : index[Stores[i]][d][k] = 0
      /\ d \in registry => d \in lost[Stores[i]]

Quiet(s, d) ==
  /\ jobs[s][d] = 0 /\ Writing(s, d) = {}
  /\ \A r \in On(d) : s \notin Owed(r)

\* When nothing is under way a store holds the clean text that is in storage now,
\* whatever was uploaded again, ingested twice or retried, unless a job was lost
\* or two workers wrote the document at once.
QuietIndexIsCurrent ==
  \A i \in 1..Len(Stores) : \A d \in Docs :
    LET s == Stores[i] IN
      (clean[d] # 0 /\ Quiet(s, d) /\ d \notin lost[s] \cup raced[s])
        => \A k \in 1..Length[clean[d]] : index[s][d][k] = clean[d]

Found(s, d) == clean[d] # 0 /\ \A k \in 1..Length[clean[d]] : index[s][d][k] # 0

\* ingestion.service.ts:145-147: what is registered comes to be found in every store
\* if no job is lost.
RegisteredIsFound ==
  \A i \in 1..Len(Stores) : \A d \in Docs :
    d \in registry ~> (Found(Stores[i], d) \/ d \in lost[Stores[i]])
=============================================================================
