# Verification of the AI operations copilot backend

TLA+ models of the backend in `src/apps/backend`, the TLC runs that check them on
small instances, and TLAPS proofs of the properties that matter most for every
instance. Everything is translated from the TypeScript source; `PROJECT.json` names,
for each definition, the lines it stands for.

Contents: [1 the system](#1-the-system), [2 how it is modelled](#2-how-it-is-modelled),
[3 the modules](#3-the-modules), [4 the runs](#4-the-runs), [5 the proofs](#5-the-proofs),
[6 where code and documentation disagree](#6-where-code-and-documentation-disagree),
[7 what is not modelled](#7-what-is-not-modelled), [8 plan](#8-plan).

## 1 The system

The backend is one NestJS code base started as two kinds of process: API pods
(`main.ts`) serve HTTP, worker pods (`main-worker.ts`) do not; both consume the same
BullMQ queues and both run an outbox relay. All state is outside the processes:
PostgreSQL (through Prisma), Redis (BullMQ), RabbitMQ, and derived stores (Qdrant,
OpenSearch, Neo4j, MinIO). There are no locks in the code: processes meet only in
database statements, transactions, guarded `updateMany` calls and unique keys.

| Component | State | Operations | Meets the others through |
|---|---|---|---|
| Outbox and relay (`modules/events`) | `outbox_events`; per pod a timer and the broker connection | `append`, `relayOnce`, connect/disconnect, shutdown | every service appends after its commit; rows are shared by all relays |
| Job queues (`modules/queue`, all `*.worker.ts`) | jobs in Redis, locks, attempts | `enqueue`, a processor's `process`, retry, stalled-job recovery | six queues; `ai-jobs` and `ops-jobs` have several processor classes each |
| Invoices (`modules/invoices`) | `invoices`, `invoice_number_counters` | create, issue, pay, void, overdue sweep | sweep runs beside requests; writes `notifications`, appends events |
| Recurring invoices | `recurring_invoices` | create, pause, resume, delete, recurrence run | the run creates invoices in the transaction that advances the schedule |
| Inventory (`modules/inventory`) | `inventory_movements`, `products.below_reorder_point` | record a movement, evaluate the alert, sweep | alert state is derived from all movements |
| Purchasing | `purchase_recommendations` | recommendation sweep, accept, dismiss | reads inventory |
| Appointments | `appointments` | create, reschedule, change status, reminder sweep | writes `notifications` |
| Notification delivery | `notifications.delivery_status` | delivery sweep | e-mail provider |
| Ingestion, storage | `documents`, `knowledge_documents`, objects in MinIO | upload, register, ingest, re-ingest | enqueues embedding, search and graph jobs |
| Tasks | `tasks` | CRUD, planner, autocomplete | reads invoices and products |
| Workflow engine | `workflow_rules`, `workflow_runs` | edit a rule, rule sweep | reads invoices, products, tasks; writes tasks and notifications |
| Conversations, connectors | `conversations`, `messages`, `customers` | webhook, post, embed, summarise | enqueues jobs; channels deliver again |
| Embeddings, search, graph | Qdrant, OpenSearch, Neo4j | jobs that upsert chunks; queries | jobs; object storage |
| Chat, hybrid search | none | parallel queries, fusion, grounding | reads the three stores, asks a model |
| Dashboard, briefings | none; `executive_briefings` | parallel figures; a job that asks a model | read rows others write |
| Forecasting, pricing, calendar, chunking | none | calculations | called by the others |
| Lists of every module | none | `page`, `limit` | read rows others write |
| Auth, health, openapi, shared | none | per-request functions | |

What is hard, and what makes each part correct:

* **Several actors, no locks.** A handler awaits between reading a row and writing
  it, and meanwhile any other request, sweep or pod runs. Correct means: guarded
  writes take effect once, unguarded ones do no harm. (Invoices, schedules,
  appointments, recommendations, reorder flag.)
* **Two statements that should be one.** A claim and its effect (a reminder, an
  alert, an e-mail), or a change and its event, are separate commits; a crash in
  between loses or repeats the effect. (Outbox, reminders, reorder alerts, delivery.)
* **At-least-once machinery.** Jobs are rerun after stalls and exceptions; events are
  published again after a crash. Correct means: no loss without a record, a final
  verdict, bounded repetition.
* **Sharing a queue.** A BullMQ queue has no routing: any processor of the queue gets
  any job. Correct means: a completed job was done.
* **Asking a model between a read and a write.** Planner, recommendation sweep, summary
  and briefing hold what they read for as long as a model takes to answer. Correct means:
  a duplicate or a gap can be traced to jobs that overlapped, never to one alone.
* **Copies.** Three stores hold the text of a document, a vector of every message, a
  summary of a conversation. Correct means: when nothing is under way they agree with the
  original, or the loss is on record.
* **Reading many rows at once.** Pages of a list, the figures of a dashboard, the lists
  that a search fuses are separate queries. Correct means: what did not move is counted
  once.
* **Numbers.** Gapless invoice numbers under rollback; cents, months and their last
  days; a backlog that is skipped in one go.

`PROJECT.json` lists these hazards at the lines where they bite.

## 2 How it is modelled

* A process is an element of a constant set with a program counter (`relay`, `run`,
  `proc`). Each `await` on shared state is a step boundary; a database statement, or a
  transaction whose first statement takes the lock that serialises it, is one step.
* A handler that has read something keeps a record of what it read (`Moving(i, from,
  to)`, `Toggle(s, active, next)`, `Sweeping(todo)`), so that stale writes happen.
* Crashes, rollbacks, lost connections and calls that throw are actions. `MaxFaults`
  bounds them; in `Invoices`, `Recurring` and `Appointments` any process may abort at any
  time, without a bound. None of them is ever fair. `MaxTime` bounds the clocks.
* What a language model answers is any answer that its parser lets pass: any sequence of
  signals, products or citations, made-up ones included.
* Payloads, titles, notes and wording are left out; one organisation and one calendar
  year of numbering stand for all, because every query is scoped to them.
* History variables record what no row says: which actors overlapped on what
  (`overlapped`, `paired`, `raced`, `touched`), and what a failure cost (`lost`,
  `abandoned`). A property of the form "this can only be a race" is then an invariant.
* Sweeps over a batch keep their real order (`createdAt`, `dueDate`, `nextRunAt`) and
  their limit.
* Providers and the database are configured; the fail-soft paths that make a service
  inert are not interesting and are left out.

## 3 The modules

### EventDelivery, Outbox
`EventDelivery` is what the outbox promises: an event is delivered only after it was
recorded, acknowledged only after it was delivered, and may be abandoned.

`Outbox` is the code. `row` is `outbox_events.status`, `createdAt` its order,
`connected` the flag of `EventBusService`, `relay[i]` the place of one execution of
`relayOnce`.

| Code | Action |
|---|---|
| business commit, then `emit` -> `append` | `CommitChange`, then `AppendRow` or (error swallowed, or crash) `SkipAppend` |
| `relayOnce`: `isConnected`, `findMany` | `Poll` |
| `publish`: confirmed / no channel / throws | `PublishConfirmed`, `PublishUnavailable`, `PublishThrows` |
| `markProcessed`, `markFailed` / the update fails | `Mark`, `MarkThrows` |
| bootstrap, `connect` and its handlers | `Boot`, `Connect`, `Disconnect` |
| `onApplicationShutdown`, end of the process | `Shutdown`, `Exit`, `Crash` |

The timer does not wait for `relayOnce`, so a pod may have several iterations;
`Iterations` and `PodOf` are constants. `PublishThrows` may leave a copy at the broker.

### JobQueue
Two layers: what the repository does (`enqueue`, the options, the name check and the
normal return of a processor) and what BullMQ does with it (states, lock, attempts,
stalled counter), which is external and follows the defaults the code leaves alone.

| Code | Action |
|---|---|
| `QueueService.enqueue` | `Enqueue` |
| BullMQ gives a job to a worker of its queue | `Take` |
| `job.name !== ...` -> return | `SkipOther` |
| the work / the return / an exception | `Process`, `Complete`, `Throw` |
| backoff, stalled-job check, lost lock, death of a pod | `Promote`, `Reclaim`, `LoseLock`, `Crash` |

### Invoices
`invoice` holds status, number, due date and whether `issuedAt` and `paidAt` are set;
`counter` is the row of the year; `alerts` counts notification batches.

| Code | Action |
|---|---|
| `insertInvoice`: counter statement (row lock) / insert and commit | `BeginInsert`, `CommitInsert` |
| `transition`: `findFirst` and the checks / `update` by id | `ReadForMove`, `Move` |
| overdue sweep: `findMany` / guarded flip with notifications / flip lost or failed | `StartSweep`, `Flip`, `SkipFlip` |
| `emit`, `emitOverdue` | `Emit` |
| error, rollback, crash | `Abort` |

Requests that end in a 404, a 409 or the idempotent no-op change nothing and have no
action. `SkipFlip` needs no lost race: one invoice's transaction may fail and be logged.

### Recurring
Extends `Invoices` with `schedule`, `origin` (`recurringInvoiceId`), `run`, and the
history variable `stale` (schedules whose `nextRunAt` a toggle moved back). A billing
run takes the counter through `BeginInsert` and commits invoice and schedule together
in `CommitBill`; when the guard on `nextRunAt` does not match, or anything else fails,
`RollBackBill`. A schedule's cadence is a fixed number of time units (`Period`): weeks
exactly, months without the clamping of their last day. `CatchUp` is the cap of 240 in
`advancePastNow`.

### Inventory
`product[p]` is the row: reorder point (0 stands for null too: not tracked), `active`,
`below` (`belowReorderPoint`) and `recency`, the rank of `updatedAt` among the products,
which is all the sweep's order depends on. `onHand` is the sum of the movements. A
request or a sweep keeps the row it read and, a sweep, the rest of its batch (`proc`).
`alerts` and `clears` count notification batches and cleared flags. `trace` is a history
variable: the last evaluation of a product went `"alone"` if, from the read of its row to
its end, no other evaluation of the product was in progress and no query of it failed.

| Code | Action |
|---|---|
| `recordMovement`: `findFirst` / `inventoryMovement.create` | `ReadForMovement`, `Record` |
| `ProductService.update`: reorder point or `active`, which are evaluated / anything else | `UpdateProduct`, `Rename` |
| sweep: `findMany` | `StartSweep` |
| `evaluateReorderAlert`: sum the stock and compare / guarded flip down / notify / guarded flip up | `Sum`, `Claim`, `Notify`, `Clear` |
| a query throws: the request ends, the sweep catches and goes on | `Fail` |
| the process dies | `Crash` |

The sweep's `for` loop is the `Finish` of every evaluation. Each product has somebody to
alert, so `Notify` always writes; the recipients' cache changes nothing else. Products are
never deleted by the code, and `create` evaluates nothing: its result is the initial state.
`changes` bounds movements and updates, `faults` the failures.

### Delivery
`note[n]` is `deliveryStatus`; notifications are numbers in the order of `createdAt`. A
sweep holds the row it is at, the status it *read* of it (the guard of its claims), and
the rows of the batch that follow. `mails` is a history variable outside the code's reach:
the e-mails the recipient got for a row. `Bad` are the rows whose user has no e-mail.

| Code | Action |
|---|---|
| a service's `notification.createMany` | `Create` |
| `findMany` of the oldest PENDING and FAILED rows | `Start` |
| `email.send`, or the check for an address fails | `Send` |
| `email.send` throws, the mail taken or not | `SendThrows` |
| `claim`: the guarded `updateMany` to SENT or, in the catch block, to FAILED | `Record` |
| the claim of SENT throws, applied or not, and control goes to the catch block | `MarkThrows` |
| the claim of FAILED throws out of the loop, or the process dies | `Crash` |

`Deliver` is the sweep going on undisturbed: `Send` or `Record`. A missing SMTP
configuration is a send that throws.

### Appointments
`appt[a]` is the row; the time window is a member of `Windows`, `reminded` says that
`reminderSentAt` is set. A request or a sweep keeps in `proc` what it read and what it is
about to write, a sweep also the rest of its batch with the start times it read. History:
`since` in each of these records holds the appointments that others wrote since it read,
`raced` the pairs of which the last booking was written by a request that had not seen the
other, `lost` the claims whose notification failed.

| Code | Action |
|---|---|
| `create`: `assertNoConflict` / `appointment.create` | `Book`, `Insert` |
| `update` with a new time: `load` and the status check / `assertNoConflict` / `update` by id | `ReadForMove`, `Check`, `Move` |
| `updateStatus`: `load` and the table / `update` by id | `ReadForMark`, `Mark` |
| a conflict, a failed query or the end of the process | `Abort` |
| reminder sweep: `findMany` / guarded `updateMany` / `notification.createMany` | `StartSweep`, `Claim`, `Notify` |
| either of the last two throws, applied or not; the process dies | `ClaimThrows`, `NotifyThrows`, `Crash` |

Requests that end in a 404, a 409 on what they read, or the idempotent no-op have no
action. `Nobody` is a request without an assignee if it is among the `Assignees`: it skips
the conflict check. Such an appointment's reminder goes to managers, who exist here.

### Knowledge
One document on its way from an upload to what search finds. A text is the number of the
version it was uploaded as, a chunk is its index and the version it is of, so that a store
that mixes two texts shows. `doc` is `documents.status`, `original` and `clean` the two
objects in storage, `registry` the rows of `knowledge_documents`, `jobs` what waits per
store, `index` what a store holds.

| Code | Action |
|---|---|
| a client uses its presigned URL | `Upload` |
| `create` / `ingest`: `findFirst` and the status check | `Create`, `Ingest` |
| `update` to PROCESSING / `getObject`, `extract`, `cleanText` / `putObject` | `Claim`, `Fetch`, `PutClean` |
| the transaction / `outbox.append` / the three enqueues | `Commit`, `AppendEvent`, `Enqueue` |
| the catch block | `Fail` |
| a call throws: before the `try`, in it, in the catch, in an enqueue; the process dies | `ThrowBeforeTry`, `ThrowInTry`, `ThrowInCatch`, `SkipEnqueue`, `Crash` |
| a worker takes a job and reads the clean text / looks for its collection and creates it | `Take`, `ReadClean`, `Ensure`, `CreateContainer`, `FinishContainer`, `CreateLost` |
| `upsertChunks`, `indexChunks`, `upsertDocumentChunks` | `Write` |
| a job throws, some of a bulk request applied | `WorkFails` |
| a processor of another name takes a job of `ai-jobs` | `TakenByAnother` |

Upserts go by chunk index, and nothing deletes the chunks of a longer text that was there
before: `Written` keeps them.

### Tasks, Workflows, Purchasing, Work
`Tasks` has the planner's job (`BeginPlan`, `FindDuplicate`, `CreatePlanned`,
`PlanThrows`), the completion sweep (`BeginSweep`, `ReadSignals`, `Complete`,
`CompleteFails`), the change of status through the API (`UpdateStatus`) and the world that
both read: invoices that become overdue, paid or void, stock that crosses the reorder point
(`low`) and the flag that says so some time later (`belowReorderPoint`, see `Inventory`).
The planner goes by the stock, the sweep by the flag, as the code does.

`Workflows` extends it with rules. `BeginRules` reads the active ones, the copy it works
from until it ends; `FetchEntities` reads the entities of one kind, once for all rules
about it; `FindRun` is the check for an earlier run; `Fire` is the transaction of run,
tasks and notifications; `FireFails` is its rollback, for the unique key too. What a rule
can be is one of the `Editions`; a rule not created yet is one that is not active.

`Purchasing` has the recommendation sweep (`BeginRecommend` with the model's answer,
`FindPending`, `CreateRecommendation`, `NotifyRecommendations`, `RecommendFails`) and the
requests that resolve a row by its id (`Load`, `Resolve`).

`Work` composes the three on processes that share `ai-jobs` and `ops-jobs`. `Schedules` are
the sets of job kinds that may be under way together in a behaviour.

### Conversations
Connectors and conversations. A channel delivers `Messages` at least once and in any
order; `Identity` says which spellings of an address normalise to the same one. A message
has a `size`, what it takes of the summarizer's prompt. `windowTranscript` gives the ends of
a transcript that may be kept (messages of one time come from the database in any order);
what it drops is not part of the summary. A `Post` carries one message; that the code takes
a list and stores it in one insert is left out.

| Code | Action |
|---|---|
| webhook: `resolveCustomer` looks the address up / creates the customer | `Receive`, `Provision` |
| `POST /conversations` | `Post` |
| `ConversationService.create`: upsert / `createMany` with `skipDuplicates` / event and job | `UpsertConversation`, `StoreMessage`, `Notify` |
| `conversation.embed`: read all messages / upsert by message id | `TakeEmbed`, `UpsertVectors` |
| `POST /conversations/:id/summary` | `requestSummary` |
| `conversation.summarize`: the freshness check and the read / the window of the prompt and the write | `TakeSummary`, `WriteSummary` |
| a query or a job throws, a process dies, a job goes to another processor | `RequestFails`, `WorkFails`, `TakenByAnother` |

`TakenByAnother` draws on the bound of faults (`MaxFaults`), though it needs no failure: on
the shared queue any processor may take the job (section 6).

### Calculations
What needs no other process, and the requests that only read. Each is a module of its own;
`Calculations` lets a behaviour go through one of them (`turn`), so that one run checks
them all without multiplying their states.

* `Totals`: lines are priced one by one; `exactPrice` and `exactTax` are history, the
  amounts without rounding. `computeLine`, `refuseLine`.
* `Calendar`: `nextRunDate` and `advancePastNow` over real months and leap years. A date is
  an instant, a time of a day, and is compared as one; a sweep may come at an earlier or a
  later time of the day than the schedule's, a week or months late.
* `Chunker`: one step per sentence of `chunkText`; a text is the lengths of its sentences.
* `Forecast`: one step per paid invoice; the line, the weekday profile and the prediction
  are functions of the rows, over exact fractions with the denominator named.
* `Answers`: the parallel queries of a hybrid search (`tryRun`), their fusion, the context
  and the grounding of the model's answer (`search`, `complete`).
* `Listings`: a client that walks through the pages of one of twelve lists (`findMany`,
  `count`, `respond`) while others write (`Insert`, `Update`, `Delete`). A `Table` says how
  rows of the list can move; `Orders` are all orders the `orderBy` allows.
* `Snapshots`: the parallel figures of the dashboard (`summary`) and of a briefing
  (`requestGenerate`, `brief`), while invoices and tasks move on.

### MC modules
They give functions, small sets and symmetry sets to the configurations; they hold no
property.

## 4 The runs

Each passing run has at most a few properties, none of which is a type invariant: those
are proved (section 5) or implied.

| Run | Instance |
|---|---|
| `outbox` | 2 pods, 1 iteration each, 3 events, batch of 2, 2 faults |
| `job_queue` | shared queue (2 classes) and dedicated queue (1 class in 2 pods), a job on each, 3 attempts, 1 stall, 3 faults |
| `job_queue_shared` | 2 classes, 1 job, no faults; a disagreement, section 6 |
| `invoices` | 3 processes, 2 invoices, batch of 2, 2 instants |
| `recurring` | 2 processes, 2 invoices, 1 schedule of period 2, 4 instants |
| `inventory` | 2 products, 2 requests, 1 sweep, batch of 2, 2 changes, 1 fault |
| `delivery` | 3 sweeps, 3 notifications of which the oldest has no address, batch of 2, 2 faults |
| `appointments` | 2 processes, 2 appointments of 1 assignee, 3 windows, batch of 2, 3 instants |
| `knowledge` | 1 document whose object is replaced twice, by texts of 1 and 0 chunks after one of 2; 2 requests, 2 workers, 2 stores, 1 fault |
| `work` | 2 processes, 1 invoice, 1 product, 2 rules, 2 requests, at most 2 tasks and 2 recommendations, 1 edit, 1 fault; three sets of job kinds |
| `conversations` | 1 thread, 3 messages, 2 deliveries at once, 2 workers, 2 requests for a summary, 3 instants, a prompt of 3 units and messages of 1 and 4, 1 fault |
| `calculations` | see below |

**outbox.** `DeliveredUnlessFault`: overlap, batching and late connections alone never lose
an event; one that is lost saw a failed publish, a failed append or a crash. `DeliverySpec`:
the refinement of `EventDelivery`, with its fairness: what is marked PROCESSED was
published, FAILED is final, and no row stays PENDING for ever. Two faults let one relay
lose its broker while the other dies; three events against a batch of two make a relay
come back for the rest.

**job_queue.** `RerunsAreAccountedFor` and `EveryJobEnds` hold on both queues whatever
dies; `DedicatedQueueDoesTheWork` holds where a queue has one processor class. Three
faults exceed what one job can survive (one stall), so every verdict is reached.

**invoices.** `NumbersGapless`, `OverdueWasAlerted`, `IllegalMoveIsStale`. Three processes
are enough for two stale writers and a sweep to meet on one invoice; a sweep that holds two
invoices goes on to the second while others move it; with one due date and two instants,
invoices expire while they are handled and others are born overdue. What the sweep's order
and limit add is left to the proofs, which hold for every `BatchSize` and all `DueDates`.

**recurring.** `NeverOverbilled`, and `InvoicesSpec`: with schedules, the invoices still
implement `Invoices`. Two processes are two billing runs that hold the same schedule, or a
run and a toggle. Four instants against a period of two give a schedule that is due twice
and one that was missed. The two invoice slots bound the run: a third invoice is never
created; the theorems have no such bound.

**inventory.** `AlertsAccountedFor`: however many evaluations overlap, every setting of the
flag has at most one alert and, without faults, exactly one. `AloneIsRight`: an evaluation
that ran alone leaves the flag as the stock demands, whatever state it found.
`SweepsRepair`: if sweeps go on being requested and the batch has room for all tracked
products, their flags agree with the stock in the end. The flag is *not* right whenever
everybody is at rest: two movements that read the row before either wrote theirs may leave
it wrong, which is why the sweep matters. Two changes are two racing movements, or a
movement and an update, beside a sweep that holds both products; the one fault falls on
any step. That the sweep goes by `updatedAt` and takes a limited batch is in the model, and
the theorems hold for every `BatchSize`; the run gives it room, because `SweepsRepair` is
false without (section 6).

**delivery.** `RepeatsAreBounded`: the e-mail goes out before the claim, so overlapping
sweeps each send it. The bound is exact: without faults one e-mail per sweep,
with them 2n-1+faults for n sweeps, which TLC reaches for two sweeps and for three. A
FAILED written in between gives back a turn to every sweep but one, because the claims made
from PENDING are void then. `GoodOnesArrive`: if sweeps are started again and again and the
rows without an address do not fill the batch, every other row is SENT in the end. A batch
of two with one such row, always the oldest, is the smallest where the others get through
one at a time; three sweeps are two that overlap and one that comes back to what they left.

**appointments.** `DoubleBookingIsARace`: the conflict check is right, adjacent windows and
the excluded own id included; only a request that checked before the other booking was
written books twice, or a late status change that brings a booking back. `RemindersAccountedFor`:
a claim has one notification or a failure to show for it, however the sweeps overlap. `OnlyTheOvertakenErr`:
illegal transitions, and reminders of appointments that are off or were moved, come from
stale reads alone. Two processes on two appointments are two racing bookings, a booking and
a revival of the other, two sweeps with the same batch, or a sweep of both beside a request
on either; of the three windows two overlap in part and one touches the first without
overlapping it; with a reminder window of 1 an appointment becomes due, is due, and is past.

**knowledge.** `StuckWasAbandoned`: a document that stays PROCESSING with nobody at work on
it was left by a request that died or whose last update failed; every other way out of the
handler ends in INDEXED or FAILED. `FailedIsNotFound`: a FAILED
document has no chunk in any store, though it may be in the registry. `QuietIndexIsCurrent`:
when nothing is under way a store has the text that is in storage, whatever was replaced,
retried or half-written, unless a job was lost or two workers wrote at once.
`RegisteredIsFound`: what is registered is found in the end, in every store. One document is
enough, since no step looks at two; a text that gets shorter is what leaves chunks behind,
and an empty one is a job that does nothing. Two stores, one on the shared queue, both with
a container that two workers may try to create.

**work.** `OneOpenTaskPerSignal`, `OnePendingPerProduct`, `ResolvedOnce`: duplicates come
from jobs or requests that overlapped, or from a person who reopened a task.
`FiresOncePerEntity`: one task and one notice of a rule about an entity, ever, and a record
of it. `NoCascade`: a rule about tasks does not act on what it created in the same sweep.
`ResolvedIsCompleted` and `MatchedIsFired`: sweeps that are requested again and again
complete what is resolved and fire what matches, unless there is more than a batch. The
three job sets put together what meets on rows: planner with completion, completion with
rules (one about invoices, one about the tasks the first creates), recommendation sweeps
with each other. Two processes are two jobs of a kind or one of each.

**conversations.** `OneCustomerPerIdentity`: however an address is spelled and however
often a message comes, a second customer takes two webhooks at once. `StoredIsEmbedded`:
when the jobs are done, every stored message has its vector or its job was lost.
`AskedIsCovered`: when the jobs are done, the summary covers what was there when somebody
asked, but for two kinds of messages. Some had no room: nothing in the summary is older
than they are, and neither is the first message that did not fit (`Omitted`); the summary
counts as fresh all the same. Some the last summary missed, because they were stored
between its read and its write or later with a time before it (`late`); a summary that is
made later takes them in. One message has an id and a time, one has neither, one comes from
somebody unknown and is longer than the prompt, so that it is kept alone; three instants
put a message before, at and after a summary. Two rows meet in a behaviour: windows of
several messages that leave others out are left to the theorem.

**calculations.**
* `RoundingIsBounded`: three lines of all combinations of three quantities, five prices
  and four rates, halves of cents and invalid values among them.
* `PeriodsAreKept`: from the last day of a long month, of a year and of a leap February,
  all cadences, intervals 0, 1 and 5, sweeps a week and up to seven months late, two years.
  Schedules are at 9 or 18 o'clock and so are sweeps: the next date is later than the sweep
  and may be later on its day, when the schedule is due again (a weekly one of last Monday
  at 18, swept this Monday at 9, is next due this Monday at 18). Weeks are counted in days
  of the calendar (`CalendarDay`), months in months. `GUARD` is 4 in place of 240, so that
  the cap is reached.
* `SentencesAreKept`: texts of four sentences, one of them longer than a chunk.
* `TrendsContinue`: histories of four days with a week of three, so that weekdays are
  unequally frequent in it, and up to four invoices, from the day before the history to
  today.
* `CitationsWereRetrieved`, `FusionKeepsDominance`: three stores that rank three chunks in
  every way or fail, a budget that cuts the context, a model that makes things up.
* `WalksAreComplete`: all twelve lists, three rows, places that rows may share, pages of
  one row, two writes at any moment of the walk.
* `FiguresAddUp`: one invoice, one task, two writes between any two of the seven queries,
  and a retry of the briefing's job.

**Fairness.** `outbox`, `job_queue`, `inventory`, `delivery`, `knowledge` and `work` use it.
Weak fairness of the steps of a relay, a worker or a request: the event loop resumes a
handler whose await has settled, and the timer (`setInterval`) and BullMQ's polling never
end. Weak fairness of `Boot`, `Connect`, `Exit`: the orchestrator restarts a container, the
connection manager redials every five seconds, a shutdown ends. `Reclaim` and
`Promote` are timers of BullMQ. Nothing in the repository schedules a sweep: they are jobs
that an endpoint enqueues. So `SweepsRepair` and `GoodOnesArrive` have the repetition of the
sweep as a premise, and in `work` it is the assumption behind the strong fairness of
`BeginSweep` and `BeginRules`: somebody asks again and again, and a process that is free
again and again takes the job. Business flows, exceptions, failures and crashes are
never fair; the appearance of a failed write (`SkipAppend`) and of a good one
(`AppendRow`) are fair only as an alternative.

**Deadlock** is checked in `job_queue`, which states its rest explicitly (`Quiet`), and in
`job_queue_shared`. The other modelled worlds really may stop: all events are settled and
the faults spent, the clock is at its bound and no request comes, a calculation is done.

**Symmetry** over processes, and over invoices or appointments, is used in `invoices`,
`recurring`, `appointments` and `conversations`, where no liveness property is checked.

## 5 The proofs

For every value of the constants allowed by the assumptions of the modules
(`OutboxAssumption`, `JobQueueAssumption`, ...), which TLC evaluates in every run.
`InvoicesProofs` also holds what is proved of `Recurring`, which extends `Invoices`, and of
`JobQueue`; `CalculationsProofs` also what is proved of `Conversations`. A theorem about
`Calculations` holds of each of its modules: the turns share no variable.

**OutboxProofs.** The inductive invariant `IInv` is `TypeOK`, `ProcessedWasPublished`,
and what the relay's hands guarantee: a row in the hands of an iteration is recorded
(it was PENDING when read and rows are never deleted), a mark that says `ok` is about an
event the broker has, what the broker has was recorded, and a flow whose row exists is
past its append (so a row is appended once). `ProcessedWasPublished`
alone is not inductive: `Mark` writes PROCESSED from `ok`, which was set some steps
earlier, maybe with crashes of other relays in between.
* `OutboxTypeCorrect`: `Spec => []TypeOK`
* `ProcessedImpliesPublished`: `Spec => []ProcessedWasPublished`
* `FailedRowsAreAbandoned`: `Spec => FailedIsADeadEnd`. The argument: an abandoned row
  can only be taken again by `Poll`, which reads PENDING rows.
* `OutboxImplementsDelivery`: `Spec => Delivery!Spec`, step by step: `AppendRow` is
  `Record`, a publish that reaches the broker is `Deliver`, `Mark` is `Acknowledge` or
  `Abandon`, everything else stutters.
* `NothingIsLostWithoutFault`: `Spec => []OnlyFaultsLose`, the safety half of
  `DeliveredUnlessFault`: while no fault has happened, a committed event is still to be
  appended, PENDING, or with the broker. It needs `NoFaultInv`: an iteration under way has
  its broker connection, so every outcome it carries is a success and no row is FAILED.
  That the event then does reach the broker is the liveness TLC checks.

**JobQueue** (in `InvoicesProofs`). `QueueInv` adds to the types and
`DedicatedQueueDoesTheWork`: only an active job is locked (`LockInv`), what a worker
reports it has done (`RunInv`), a job that has not failed has tries left (`TriesInv`),
and a budget (`WorkInv`): work done, plus workers that hold the job and have yet to do
it, never exceeds attempts + stalls + 1 for the run that is granted. The budget is what
makes the bound on repetition inductive: a worker that lost its lock is one more who may
do the work, and the stall that took its lock has paid for it.
* `JobQueueTypeCorrect`, `DedicatedQueuesWork`, `RerunsAreBounded`, `FailuresAreEarned`:
  `QueueSpec => []` of `QueueTypes` and of three invariants
* `VerdictsAreFinal`: `QueueSpec => VerdictIsFinal`, from `LockInv`

**Invoices** (in `InvoicesProofs`). The inductive invariant is the conjunction of the properties with
`RowsInv` (what the fields of one row say of each other), `HeldInv` (what a process
remembers was true and still implies what it needs: `issued` and `paid` never go back,
so a stale status is still evidence) and `OneInsert` (at most one process holds the
counter's row lock).
* `InvoicesTypeCorrect`, `NumberingIsGapless`, `PaymentsFollowIssue`,
  `OverdueImpliesAlerted`, `AnnouncementsAreTrue`: `Spec => []` of the five invariants
* `IllegalMovesAreStale`: `Spec => IllegalMoveIsStale`

**Recurring** (in `InvoicesProofs`). `NeverOverbilled` bounds the number of invoices of a schedule by the
time of its last run. That is not inductive: the next bill advances both. `OnTime` adds
that as many periods as were billed fit before `next`, which a run turns into the bound on
`last` because it bills only what was due when it began, and `Reading` says that a run
holds only such schedules. A toggle that moves a schedule back loses `OnTime`, and makes it
`stale`. `AdvancePastNow` moves by at least one period: the least of a set of numbers, from
the well-foundedness of `<`.
* `PeriodsAreBilledOnce`: `RecurringSpec => []NeverOverbilled`
* `RecurringImplementsInvoices`: `RecurringSpec => InvoicesSpec`, with the due dates that
  billing can give added to those of requests. A commit of a bill is `CommitInsert`, its
  rollback is `Abort`, what only touches schedules stutters.

**InventoryProofs.** The inductive invariant is `TypeOK`, `AlertsAccountedFor` and
`AloneInv`. The last says where an evaluation that is alone on its product may be: it is
the only one that holds the row, the flag it remembers is the flag of the row, the row it
holds is the row of the table but for its rank, and once it has decided to claim or
to clear the stock still demands it; when it is done, or only the notification is left,
flag and stock agree. `AloneIsRight` speaks of the end only, and a step of *another*
process must not disturb it: whoever begins on the product turns the trace to `"mixed"`.
* `InventoryTypeCorrect`, `OneAlertPerFlag`, `UndisturbedEvaluationsAreRight`:
  `Spec => []` of the three invariants

**AppointmentsProofs.** The inductive invariant is `TypeOK`, `DoubleBookingIsARace`,
`RemindersAccountedFor` and `HandsInv`: what a process has in hand is still true of every
appointment that nobody has written since. For `create` and `update` that is what the
check found (`BookOk`, `MoveOk`), for a sweep that its rows are held and start when it
read (`SweepOk`). A status change checks no conflict and may yet rebook: `MarkOk` says that
the bookings in the way of its appointment, whatever status that has by now, were
written since it read or are in `raced` already. An appointment that leaves the holding
statuses keeps its pairs in `raced` for that reason.
* `AppointmentsTypeCorrect`, `DoubleBookingsAreRaces`, `RemindersAreOneShot`: `Spec => []`
  of the three invariants
* `MistakesAreStale`: `Spec => OnlyTheOvertakenErr`

**DeliveryProofs.** The inductive invariant is `TypeOK`, `HandsInv` (a row in the hands of
a sweep exists, and if it is still PENDING it was read PENDING) and a budget for every row
(`BudgetOf`), which counts the sweeps that have yet to send it and those that sent it and
have yet to record it:
* while the row is PENDING, every e-mail is due to a sweep about to claim, or to a fault;
* while it is FAILED, the e-mails and the sweeps that will send *in vain* (they read
  PENDING, so their claim is void) stay within the sweeps that hold it from FAILED,
  the faults, and n-1;
* once it is SENT nobody takes it up, so the e-mails and the sweeps still to send it stay
  within the bound.

`RepeatsAreBounded` says nothing of who holds the row and is far from inductive.
* `DeliveryTypeCorrect`, `SentMeansMailed`, `RepeatsAreFew`: `Spec => []` of the three
  invariants
* `SentStays`: `Spec => SentIsFinal`; a claim changes a row only from the status that was
  read, and no sweep reads SENT

**CalculationsProofs.** The specification is that of `Calculations`; each turn has an
invariant over its own variables, which the other turns leave alone.
* `RoundingStaysBounded`: `RoundingIsBounded` itself is inductive once the sums are
  integers; the work is in the arithmetic of one line (`Round` is off by half a unit).
* `NoSentenceIsLost`: `SentencesAreKept` speaks of what would be returned now, the chunks
  and the one being filled. `ChunksInv` separates the two: the chunks follow one another,
  and the current one follows on the last and ends at the last sentence taken.
* `ShownFiguresAddUp`: `UpToDate` says that the figures collected so far agree with the
  tables on every row not touched since the first of them, whenever they were asked.
  Queries of one moment agree with each other (`CountsAgree`), so the figures do, on those
  rows.
* `CitationsAreGrounded` (`CitationsWereRetrieved`) and `DominanceIsKept`
  (`FusionKeepsDominance`): `AnswersInv` says that a list that was ranked has each hit at one
  rank (`ListsAreRanked`) and that the context is what the fusion of these very lists
  begins with (`ContextIsFused`), which is how a citation is traced to a store. That a hit
  ranked before another everywhere comes first takes `EarlierCountsMore`: the terms
  1/(RRF_K + rank) fall with the rank, as whole numbers over a common multiple of all
  denominators (`UnitExists`). The order of the hits is total (`PrecedesIsOrder`), so that
  each has a place of its own (`PlacesAreTaken`).
* `WalksMeetAll` (`WalksAreComplete`): of a row that stood still all along, `UnmetIsAhead`
  says that a client who has not met it has not yet read up to its index, unless rows before
  it went; `MetIsBehind` that one who has met it is past its index, unless rows came before
  it; `CountIsOfPage` that, unless `torn`, the last count is of the moment of the last page,
  so that the walk does not end before the list does (`LastPage`). The property speaks of
  finished walks only. The work is in how a write moves the index of another row
  (`WriteMoves`) and in what an order that the database may choose anew for each page leaves
  certain (`IndexInOrder`: the place of a row that shares its key with none).
* `PeriodsStay` (`PeriodsAreKept`): a month starts where the one before it ends, over the
  turn of a year and a leap February (`MonthsFollow`), so that adding days adds as many days
  of the calendar (`AddedDays`) and adding months as many months (`AddedMonths`). Every date
  of the loop is whole periods after the first one at the same time (`DatesAreLater`), and
  the loop stops at the first that is later than the sweep or at its cap (`LoopsEnd`).
* `TrendsGoOn` (`TrendsContinue`): the state is only a list of invoices; the proof is about
  sums over finite sets. A sum is additive whatever element it takes first (`TotalSums`),
  splits over disjoint sets, is linear, and is bounded by its terms. So days add up to the
  window (`DaysAddUp`), an average is between the least and the greatest (`FlatIsBetween`), a
  line is fitted exactly (`LineIsFitted`; the denominator is not zero because the number of
  days times it is a sum of squares, `DaysAreSpread`) and leaves nothing for the weekdays
  (`LineGoesOn`).

These four go through functions defined by recursion, and no induction theorem of the library can be
instantiated here. `RecursionExists`, `SumExists` and `UpTo` take its place: they speak of
functions and sets, which are values, in place of operators, and rest on the least element
of a set of numbers (`LeastExists`): if some number had no function up to it, take the least.

**WorkProofs.** The inductive invariant is `WorkTypes`, the five properties and what each
needs of the jobs and requests under way.
* `PlannedTasksAreUnique` (`OneOpenTaskPerSignal`): between `findFirst` and `create` of a
  plan, a task of its signal is opened only by a plan that overlaps or by a person
  (`NoneWasOpened`), and two plans in progress share no signal that is not on record as
  overlapped (`SharedKeysOverlap`).
* `RulesFireOnce` (`FiresOncePerEntity`) is inductive by itself: run, tasks and notices are
  written in one transaction, which the unique key refuses the second time.
* `NoRuleFeedsItself` (`NoCascade`): a sweep that has fetched its entities knows only rows
  that existed then (`FetchedAreRows`), and what it creates since has a higher number.
* `OneRecommendationPending` (`OnePendingPerProduct`): as for plans (`NoneIsPending`,
  `SharedProductsPair`).
* `ResolvedByOneRequest` (`ResolvedOnce`): a request that is alone with its recommendation
  finds it as it loaded it, and two requests about one are on record (`RequestsInv`).

**KnowledgeProofs.** What a document, its registry entry and three stores say of each other
is held together only by the requests and jobs on their way. The twelve parts of the
inductive invariant say what those owe:
* a request owes every store a job until it enqueues, then some (`AllIsOwed`), and has a
  text, and the document a clean copy, from the step that fetches or puts it
  (`TextIsKnown`, `JobsHaveText`); two requests about a document are on record as
  overlapped (`RequestsOverlap`);
* a document in PROCESSING is in the hands of a request or was abandoned
  (`ProcessingIsOwned`), which gives `NothingIsStuckByItself`;
* what is on its way to a store is of an INDEXED document, and so is what was committed
  (`StartedIsIndexed`, `CommittedIsIndexed`, `RegisteredIsIndexed`): with these
  `FailedStaysUnknown`. A FAILED document is not found, though its row is in the registry;
* a store holds the text in storage, or a worker is writing, or a job is still to come
  (`IndexedOrComing`). That is inductive only with an account of workers that read a text
  which was replaced since: another job follows theirs (`StaleIsFollowed`), and two that
  write one document to one store are on record (`WritersRace`). `QuietIsCurrent` is what
  is left of it when nobody is at work.

`KnowledgeTypes` is the type invariant.

**Conversations** (in `CalculationsProofs`). The inductive invariant has a part for each
property.
* `AddressesHaveOneCustomer` (`OneCustomerPerIdentity`): between the lookup of a webhook
  and its insert nobody adds the identity, unless two lookups overlap (`NoneWasProvisioned`,
  `LookupsOverlap`).
* `MessagesAreEmbedded` (`StoredIsEmbedded`): every stored message has its vector, or is on
  record as lost, or a job of its thread waits, or a webhook is about to enqueue one, or a
  worker that has read it is about to write (`EmbeddingDue`).
* `SummariesCoverWhatWasAsked` (`AskedIsCovered`): what a worker has read, and what a
  summary is made of, are rows of the thread (`ReadIsStored`, `SummaryIsStored`). Whatever
  the window, what it leaves out is not newer than what it keeps, nor than the first message
  without room (`WindowLeavesOldest`). So a row is in the summary, or had no room, or came
  late (`Covered`), or is dated after the summary (`SummaryMissesLater`), which is what makes
  the freshness check right to skip; `Covered` stays true while rows come
  (`CoveredStays`). What was there when somebody asked is covered, or a job will see to it
  (`AskedIsDue`).

The inductive invariants were checked by TLC on small instances before they were proved.

Stated by theorems and not run: the type invariants, `ProcessedWasPublished`,
`FailedIsADeadEnd`, `FailedUsedItsTries`, `VerdictIsFinal`, `PaidWasIssued`, `OnlyFaultsLose`,
`AnnouncedHappened`, `SentWasMailed`, `SentIsFinal`.

Only model-checked: the liveness properties (`DeliveredUnlessFault`, `EveryJobEnds`,
`SweepsRepair`, `GoodOnesArrive`, `RegisteredIsFound`, `ResolvedIsCompleted`,
`MatchedIsFired` and the fairness of `DeliverySpec`), which are beyond the prover. Every
invariant and every action property that a passing run checks is proved.

## 6 Where code and documentation disagree

`job_queue_shared` violates a property that quotes the repository (the finding of
`PROJECT.json`): processors of several names are said to coexist on a queue; the one that
skips a job completes it. Fifteen processors share six queues; `ai-jobs` and `ops-jobs` are
the shared ones.

Disagreements that a property has built in as an exception, with what holds instead:
* `outbox.service.ts:8`, `event-bus.service.ts:8` and `:59` say that a publish that returns
  false is retried. The row becomes FAILED and nothing reads FAILED rows
  (`DeliveredUnlessFault` takes such a fault).
* `outbox.service.ts:4-5` says events are written in the transaction of the change. They are
  written after it, on another connection, and errors are swallowed (the same).
* `API_SPEC.md:585-587` and `invoice.service.ts:10-11` say any other transition is a 409.
  Two requests that read the same status get past the check, and VOID becomes SENT
  (`IllegalMoveIsStale` names the only way).
* `recurring-invoice.service.ts:150` and `API_SPEC.md:613-614` say a resume fires exactly once.
  A resume that read the schedule before a run puts `nextRunAt` back, and the period is
  billed again (`NeverOverbilled` excepts `stale` schedules).
* `task.planning.worker.ts` says an open task is never duplicated across runs, and the
  recommendation sweep that it skips products with a pending one. Both are a find and a
  create (`OneOpenTaskPerSignal`, `OnePendingPerProduct`).

Also seen:
* API_SPEC says numbering is "retried up to 5x" on a collision; the code has no retry, and
  by `NumbersGapless` needs none.
* API_SPEC says a booking that overlaps one of the same assignee is a 409. The check and the
  write are two statements, so two requests at once both succeed (`DoubleBookingIsARace` is
  what holds); and a confirm that read SCHEDULED before a cancel brings the booking back to
  a slot that may be taken.
* A reschedule leaves `reminderSentAt` as it is: a moved appointment that was reminded is
  not reminded of its new time. A sweep that read before a cancel or a move reminds of what
  it read.
* `inventory.service.ts:182-184` and API_SPEC promise exactly one notification per dip.
  `AlertsAccountedFor` is what holds: one per setting of the flag. A crash or failed
  insert between claim and notification leaves the dip without one, and an evaluation with
  a stale row may set or clear the flag when no dip begins or ends.
* `notification.delivery.worker.ts:130` and API_SPEC say the guarded `updateMany` keeps a
  concurrent sweep from sending twice. The e-mail is sent before it: overlapping sweeps each
  send once (`RepeatsAreBounded` is what holds), and only one of them counts it as sent.
* The same worker says a per-notification error is logged and the loop continues. The claim
  in the catch block is outside the `try`: if it throws, the rest of the batch is not
  reached. Rows without an address are taken first by every sweep, for ever; as many of
  them as the batch has room for keep all newer rows from being sent.
* `inventory.reorder.worker.ts:8-10` says the sweep re-evaluates every active, tracked
  product. It takes those written least recently, and an evaluation with no change writes
  nothing, so with more tracked products than `REORDER_SWEEP_BATCH_SIZE` the same quiet
  ones are taken every time.
* Ingestion: a document left PROCESSING by a crash is refused with a 409 for ever. When the
  event of a committed ingestion is refused, the document becomes FAILED and its jobs are
  never enqueued, while its row is in the registry. Comments say that an enqueue that was
  skipped can be re-scheduled from the event bus; nothing does. A re-indexed text that is
  shorter leaves the old text's last chunks in all three stores.
* The completion sweep goes by `belowReorderPoint`, which lags behind the stock, and
  completes again what a person reopened. It takes its batch without an order, so tasks
  without a signal may fill it.
* A rule that is edited or switched off while a sweep holds it still acts as it was.
* A redelivered message without an id is stored twice. Slack messages without an e-mail
  address always provision a new customer. A message that arrives while a summary is made,
  or is dated before it, is never summarised until a later one comes. Of a conversation
  longer than the prompt a summary leaves out the beginning, and counts as fresh.
* A hit of the graph carries the id of its point, the others `document:index`, so the fusion
  never merges it with theirs; the bulk body of the text store nests its fields under
  `source` while the search filters a top-level `org_id`. With 20 candidates no fused score
  of a cited hit is below the grounding threshold of 0.01, and ten hits of 800 characters
  never fill the context.
* `API_SPEC.md:44` and `:359-382` document `page` and `limit` for every list. Those of
  knowledge, tasks, invoices, recurring invoices and conversations refuse them: the
  validation pipe does not convert the text of the query string, and their query classes
  do not either. Lists ordered by name, time or creation have no tiebreaker.
* Revenue of a day or month goes by the creation of an invoice, not by its payment. A
  briefing is QUEUED when the queue is down, too; a crash after it is stored stores a
  second.
* The chunker's documentation has an oversized sentence in a chunk of its own; the chunk
  begins with the tail of the one before it.

## 7 What is not modelled

* Wording: titles, prompts, the patterns of the entity extractor, how text is cleaned and
  cut. Vectors and relevance: a store ranks as it likes.
* Binary fractions: prices, tax and forecasts are exact here. `RoundingIsBounded` and
  `TrendsContinue` say what the algorithm does, not what a double adds to it.
* Checks of a request that touch no state (lengths, formats, required fields), and figures
  that relate to nothing else (confidence, average delays).
* Tenancy and roles: every query carries the organisation of the token; guards are a
  function of the token. Webhook signatures are checked before the modelled handler.
* The creation of products and customers through the API: both are there from the start, or
  come from a webhook.
* `dueToday` and `byPriority` of the dashboard: counts by date and by priority over rows
  that `openTasks` counts, too.
* Loops over more than one planned task or recommendation are not run (`MaxPlan` is 1); the
  theorems about `Work` hold for any.
* Wiring, telemetry, health, environment checks, design tokens, the mobile and web
  surfaces, manifests.
* BullMQ's, RabbitMQ's, PostgreSQL's and the stores' own correctness: used as described in
  section 3.

## 8 Plan

Done: every module of section 3, with its runs, and a proof of every safety property that
a passing run checks.

Next:
1. What the liveness properties rest on, as invariants: what a fair step cannot undo
   (`Knowledge`, `Work`), as `NothingIsLostWithoutFault` has it for `Outbox`.
2. `Recurring` over the dates of `Calendar` in place of fixed periods.
3. `Inventory` under `Work`: its flag in place of the abstract one the sweeps read.
