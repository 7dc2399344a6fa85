---------------------------- MODULE Conversations ----------------------------
(***************************************************************************)
(* Conversations (modules/connectors, conversations): channels deliver     *)
(* messages at least once and in any order; a webhook finds or provisions  *)
(* the customer, upserts the thread's conversation, stores the message and *)
(* asks for its embedding.  Workers embed what a conversation holds and,   *)
(* when somebody asks, summarize as much of its end as fits the prompt,    *)
(* unless its summary is newer than its last message.                      *)
(***************************************************************************)
EXTENDS Integers, FiniteSets, Sequences
LOCAL INSTANCE Functions

CONSTANTS
  Threads,       \* external ids of conversations (wa:, mail:, slack:)
  Messages,      \* what channels deliver: [thread, from, id, sentAt, size]
  Identity,      \* Identity[from]: who a spelling of an address stands for, normalized
  Webhooks,      \* API requests in progress
  Workers,       \* consumers of ai-jobs and summary-jobs
  CONTEXT_CHARS, \* CONVERSATION_SUMMARY_CONTEXT_CHARS
  MaxDeliveries, MaxRequests, MaxTime,  \* bounds: requests and the clock
  MaxFaults      \* bound: calls that throw; fewer than the attempts of a job

\* sentAt 0: none was sent.  id 0: the channel gave the message no id.
\* size: what the message takes of a prompt, its body and 40 characters.
\* Identity "unknown": nothing to look the customer up by.
Spellings == DOMAIN Identity
Message == [thread : Threads, from : Spellings, id : Nat, sentAt : Nat, size : Nat \ {0}]

ASSUME ConversationsAssumption ==
  /\ IsFiniteSet(Threads) /\ IsFiniteSet(Webhooks) /\ IsFiniteSet(Workers)
  /\ Messages \subseteq Message
  /\ {CONTEXT_CHARS, MaxDeliveries, MaxRequests, MaxTime, MaxFaults} \subseteq Nat

VARIABLES
  customer,      \* rows of customers: the address of each, and who it came from
  conversation,  \* of a thread: its customer (0: none), the messages its summary is made of
  stored,        \* rows of messages: [thread, id, sentAt, size]
  webhook,       \* what a request is doing
  embedJobs, summaryJobs,  \* jobs of a thread that wait
  worker,        \* what a worker is doing, and the messages it has read
  vectors,       \* messages in the collection conversation_{org}
  clock,
  overlapped,    \* identities two webhooks looked up at once
  lost,          \* messages whose embedding job was lost
  late,          \* messages that the present summary missed: stored after it was begun,
                 \* and when it was there dated before it
  asked,         \* messages of a thread when its summary was last asked for
  deliveries, requests, faults

threadVars == <<customer, conversation, stored, webhook, overlapped, late, deliveries>>
indexVars == <<embedJobs, vectors, lost>>
summaryVars == <<summaryJobs, asked, requests>>
vars == <<threadVars, indexVars, summaryVars, worker, clock, faults>>

Idle == [at |-> "idle"]
NoConversation == [exists |-> FALSE, customer |-> 0, summary |-> {}, summaryGeneratedAt |-> 0]

Init ==
  /\ customer = <<>> /\ stored = <<>>
  /\ conversation = [t \in Threads |-> NoConversation]
  /\ webhook = [w \in Webhooks |-> Idle]
  /\ embedJobs = [t \in Threads |-> 0] /\ summaryJobs = [t \in Threads |-> 0]
  /\ worker = [w \in Workers |-> Idle]
  /\ vectors = {} /\ lost = {} /\ late = {} /\ overlapped = {}
  /\ asked = [t \in Threads |-> {}]
  /\ clock = 1 /\ deliveries = 0 /\ requests = 0 /\ faults = 0

Fault == faults < MaxFaults /\ faults' = faults + 1

RowsOf(t) == {i \in DOMAIN stored : stored[i].thread = t}
At(w, at) == webhook[w].at = at
On(t) == {w \in Webhooks : webhook[w] # Idle /\ webhook[w].of.thread = t}
Working(t, job) == {w \in Workers : worker[w] # Idle /\ worker[w].of = t /\ worker[w].job = job}

-----------------------------------------------------------------------------
(* POST /connectors/:channel/inbound *)

\* Mutant: addresses are compared as they were written.
AsWritten(from) == from
normalize(from) == Identity[from]

\* A message is delivered, again perhaps.  resolveCustomer looks it up.
Receive(w, m) ==
  /\ webhook[w] = Idle /\ m.sentAt <= clock
  /\ deliveries < MaxDeliveries /\ deliveries' = deliveries + 1
  /\ LET who == normalize(m.from)
         found == {c \in DOMAIN customer : customer[c].address = who /\ who # "unknown"}
         message == IF m.sentAt = 0 THEN [m EXCEPT !.sentAt = clock] ELSE m
     IN \E c \in IF found = {} THEN {0} ELSE found :
          /\ webhook' = [webhook EXCEPT ![w] =
               [at |-> IF c = 0 THEN "provision" ELSE "upsert", of |-> message, customer |-> c]]
          /\ overlapped' = overlapped \cup
               {Identity[m.from] : x \in {x \in Webhooks : At(x, "provision")
                                           /\ Identity[webhook[x].of.from] = Identity[m.from]}}
  /\ UNCHANGED <<customer, conversation, stored, late, indexVars, summaryVars, worker, clock, faults>>

\* POST /conversations with the external id of a thread: the customer, if it
\* names one, is an id, and has been looked up in the organization.
Post(w, m) ==
  /\ webhook[w] = Idle /\ m.sentAt \in 1..clock
  /\ deliveries < MaxDeliveries /\ deliveries' = deliveries + 1
  /\ \E c \in {0} \cup DOMAIN customer :
       webhook' = [webhook EXCEPT ![w] = [at |-> "upsert", of |-> m, customer |-> c]]
  /\ UNCHANGED <<customer, conversation, stored, overlapped, late, indexVars, summaryVars,
                 worker, clock, faults>>

Provision(w) ==
  /\ At(w, "provision")
  /\ customer' = Append(customer, [address |-> normalize(webhook[w].of.from),
                                  from |-> webhook[w].of.from])
  /\ webhook' = [webhook EXCEPT ![w].at = "upsert", ![w].customer = Len(customer) + 1]
  /\ UNCHANGED <<conversation, stored, overlapped, late, deliveries, indexVars, summaryVars,
                 worker, clock, faults>>

\* The conversation takes the customer of its latest delivery.
UpsertConversation(w) ==
  /\ At(w, "upsert")
  /\ LET c == webhook[w].customer IN
       conversation' = [conversation EXCEPT ![webhook[w].of.thread].exists = TRUE,
                          ![webhook[w].of.thread].customer = IF c = 0 THEN @ ELSE c]
  /\ webhook' = [webhook EXCEPT ![w].at = "store"]
  /\ UNCHANGED <<customer, stored, overlapped, late, deliveries, indexVars, summaryVars,
                 worker, clock, faults>>

\* createMany with skipDuplicates: the unique key is of the conversation and
\* the message's id, where it has one.
Duplicate(m) == m.id # 0 /\ \E i \in RowsOf(m.thread) : stored[i].id = m.id

IsLate(m) == m.sentAt <= conversation[m.thread].summaryGeneratedAt

StoreMessage(w) ==
  /\ At(w, "store")
  /\ LET m == webhook[w].of IN
       IF Duplicate(m) THEN UNCHANGED <<stored, late>>
       ELSE /\ stored' = Append(stored, [thread |-> m.thread, id |-> m.id,
                                        sentAt |-> m.sentAt, size |-> m.size])
            /\ late' = IF IsLate(m) THEN late \cup {Len(stored) + 1} ELSE late
  /\ webhook' = [webhook EXCEPT ![w].at = "enqueue"]
  /\ UNCHANGED <<customer, conversation, overlapped, deliveries, indexVars, summaryVars,
                 worker, clock, faults>>

\* The event, and the embedding job; their failures are swallowed.
Notify(w) ==
  /\ At(w, "enqueue")
  /\ LET t == webhook[w].of.thread IN
       \/ embedJobs' = [embedJobs EXCEPT ![t] = @ + 1] /\ UNCHANGED <<lost, faults>>
       \/ lost' = lost \cup RowsOf(t) /\ Fault /\ UNCHANGED embedJobs
  /\ webhook' = [webhook EXCEPT ![w] = Idle]
  /\ UNCHANGED <<customer, conversation, stored, overlapped, late, deliveries, vectors,
                 summaryVars, worker, clock>>

\* A query throws, or the process dies: the channel will deliver again.
RequestFails(w) ==
  /\ webhook[w] # Idle /\ Fault
  /\ webhook' = [webhook EXCEPT ![w] = Idle]
  /\ lost' = IF At(w, "enqueue") THEN lost \cup RowsOf(webhook[w].of.thread) ELSE lost
  /\ UNCHANGED <<customer, conversation, stored, overlapped, late, deliveries, embedJobs,
                 vectors, summaryVars, worker, clock>>

\* ConnectorService.receive, then ConversationService.create.
receive(w) == Provision(w) \/ RequestFails(w)
create(w) == UpsertConversation(w) \/ StoreMessage(w) \/ Notify(w)

-----------------------------------------------------------------------------
(* conversation.embed *)

TakeEmbed(w, t) ==
  /\ worker[w] = Idle /\ embedJobs[t] > 0
  /\ embedJobs' = [embedJobs EXCEPT ![t] = @ - 1]
  /\ worker' = [worker EXCEPT ![w] = [at |-> "upsert", job |-> "embed", of |-> t, read |-> RowsOf(t)]]
  /\ UNCHANGED <<threadVars, vectors, lost, summaryVars, clock, faults>>

\* Point ids are those of the messages: a second upsert changes nothing.
UpsertVectors(w) ==
  /\ worker[w].at = "upsert"
  /\ vectors' = vectors \cup worker[w].read
  /\ worker' = [worker EXCEPT ![w] = Idle]
  /\ UNCHANGED <<threadVars, embedJobs, lost, summaryVars, clock, faults>>

\* A processor of another job on ai-jobs takes it and skips it.
TakenByAnother(t) ==
  /\ embedJobs[t] > 0 /\ Fault
  /\ embedJobs' = [embedJobs EXCEPT ![t] = @ - 1]
  /\ lost' = lost \cup RowsOf(t)
  /\ UNCHANGED <<threadVars, vectors, summaryVars, worker, clock>>

-----------------------------------------------------------------------------
(* conversation.summarize *)

\* POST /conversations/:id/summary; a failure to enqueue is swallowed.
requestSummary(t) ==
  /\ conversation[t].exists
  /\ requests < MaxRequests /\ requests' = requests + 1
  /\ \/ /\ summaryJobs' = [summaryJobs EXCEPT ![t] = @ + 1]
        /\ asked' = [asked EXCEPT ![t] = RowsOf(t)]
        /\ UNCHANGED faults
     \/ Fault /\ UNCHANGED <<summaryJobs, asked>>
  /\ UNCHANGED <<threadVars, indexVars, worker, clock>>

\* Mutant: the first message of the transcript is taken for its last.
FirstOf(S) == CHOOSE i \in S : \A j \in S : stored[i].sentAt <= stored[j].sentAt
LastOf(S) == CHOOSE i \in S : \A j \in S : stored[i].sentAt >= stored[j].sentAt

AlreadySummarized(t) ==
  \/ RowsOf(t) = {}
  \/ /\ conversation[t].summaryGeneratedAt # 0
     /\ conversation[t].summaryGeneratedAt >= stored[LastOf(RowsOf(t))].sentAt

TakeSummary(w, t) ==
  /\ worker[w] = Idle /\ summaryJobs[t] > 0
  /\ summaryJobs' = [summaryJobs EXCEPT ![t] = @ - 1]
  /\ worker' = IF AlreadySummarized(t) THEN worker
               ELSE [worker EXCEPT ![w] =
                       [at |-> "complete", job |-> "summary", of |-> t, read |-> RowsOf(t)]]
  /\ UNCHANGED <<threadVars, indexVars, asked, requests, clock, faults>>

SumOf(f) == FoldFunction(+, 0, f)
Chars(S) == SumOf([i \in S |-> stored[i].size])
Latest(S) == {i \in S : \A j \in S : stored[j].sentAt <= stored[i].sentAt}

\* The ends of a transcript that fill the prompt: the last message however long,
\* and those before it until one has no room.  Rows of one time come in any order.
windowTranscript(S) ==
  {kept \in (SUBSET S) \ {{}} :
     /\ \A i \in kept, j \in S \ kept : stored[j].sentAt <= stored[i].sentAt
     /\ Cardinality(kept) = 1 \/ Chars(kept) <= CONTEXT_CHARS
     /\ kept = S \/ \E j \in Latest(S \ kept) : Chars(kept \cup {j}) > CONTEXT_CHARS}

\* The model has answered about the window of what was read (the rows do not
\* change, so the window is still the same); the row's time is that of the write.
WriteSummary(w) ==
  /\ worker[w].at = "complete"
  /\ LET t == worker[w].of
         read == worker[w].read
     IN /\ \E kept \in windowTranscript(read) :
             conversation' = [conversation EXCEPT ![t].summary = kept,
                                                  ![t].summaryGeneratedAt = clock]
        /\ late' = (late \ RowsOf(t)) \cup (RowsOf(t) \ read)
  /\ worker' = [worker EXCEPT ![w] = Idle]
  /\ UNCHANGED <<customer, stored, webhook, overlapped, deliveries, indexVars,
                 summaryVars, clock, faults>>

\* Mutant: the error is logged and the job completes.
Logged(jobs, t) == jobs
Again(jobs, t) == [jobs EXCEPT ![t] = @ + 1]

\* The job throws, or its process dies: it is tried again.
WorkFails(w) ==
  /\ worker[w] # Idle /\ Fault
  /\ LET t == worker[w].of IN
       IF worker[w].job = "embed"
       THEN embedJobs' = Again(embedJobs, t) /\ UNCHANGED summaryJobs
       ELSE summaryJobs' = Again(summaryJobs, t) /\ UNCHANGED embedJobs
  /\ worker' = [worker EXCEPT ![w] = Idle]
  /\ UNCHANGED <<threadVars, vectors, lost, asked, requests, clock>>

Tick == clock < MaxTime /\ clock' = clock + 1
        /\ UNCHANGED <<threadVars, indexVars, summaryVars, worker, faults>>

ConnectorController == \E w \in Webhooks, m \in Messages : Receive(w, m)
summarize == \E t \in Threads : requestSummary(t)
ConversationController == summarize \/ \E w \in Webhooks, m \in Messages : Post(w, m)

Next ==
  \/ Tick \/ ConnectorController \/ ConversationController
  \/ \E w \in Webhooks : receive(w) \/ create(w)
  \/ \E t \in Threads : TakenByAnother(t)
  \/ \E w \in Workers : \/ UpsertVectors(w) \/ WriteSummary(w) \/ WorkFails(w)
                        \/ \E t \in Threads : TakeEmbed(w, t) \/ TakeSummary(w, t)

Spec == Init /\ [][Next]_vars

-----------------------------------------------------------------------------
(* Properties *)

\* Two customers of one address take two webhooks that both found none of it:
\* however an address is spelled and often a message is delivered.
OneCustomerPerIdentity ==
  \A c, d \in DOMAIN customer :
    LET who == Identity[customer[c].from] IN
      c # d /\ who = Identity[customer[d].from] => who \in overlapped \cup {"unknown"}

\* Once its jobs are done the collection has every message of a conversation,
\* redelivered or not, but those whose job was lost on the way.
StoredIsEmbedded ==
  \A t \in Threads :
    On(t) = {} /\ embedJobs[t] = 0 /\ Working(t, "embed") = {} => RowsOf(t) \subseteq vectors \cup lost

\* No room for message i in the prompt of the summary: it is not newer than any
\* message there, nor than the first one that did not fit.
Omitted(t, i) ==
  LET summary == conversation[t].summary IN
    /\ summary # {} /\ \A k \in summary : stored[i].sentAt <= stored[k].sentAt
    /\ \E j \in RowsOf(t) \ summary : /\ stored[i].sentAt <= stored[j].sentAt
                                      /\ Chars(summary \cup {j}) > CONTEXT_CHARS

\* Once its jobs are done a summary covers every message that was there when it
\* was last asked for, but the oldest, when the prompt has no room for them, and
\* those that it missed: stored between its read and its write, or later with a
\* time before it.  For these the next job finds a summary that looks fresh; a
\* summary that is made later has them.
AskedIsCovered ==
  \A t \in Threads :
    summaryJobs[t] = 0 /\ Working(t, "summary") = {} =>
      \A i \in asked[t] \ late : i \in conversation[t].summary \/ Omitted(t, i)
=============================================================================
