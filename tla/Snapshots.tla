------------------------------ MODULE Snapshots -----------------------------
(***************************************************************************)
(* The dashboard (dashboard.service.ts) and the executive briefing         *)
(* (insights/executive-briefing.worker.ts).  Both ask for their figures in *)
(* one Promise.all: queries that run side by side, outside a transaction,  *)
(* while invoices and tasks move on.  A briefing's figures go into a       *)
(* prompt, and are stored with what the model makes of them.  A figure is  *)
(* the set of the rows it sums or counts; those that relate to no other    *)
(* figure are left out.                                                    *)
(***************************************************************************)
EXTENDS Integers, FiniteSets

CONSTANTS
  Bills, Chores,    \* rows of invoices and tasks
  Month,            \* Month[b]: when the invoice was created
  Late,             \* the tasks whose due date has passed
  MAX_ATTEMPTS,     \* of a job
  MaxMoves,         \* bound: writes to rows
  MaxBriefings      \* bound: requests for a briefing

ASSUME SnapshotsAssumption ==
  /\ Month \in [Bills -> {"this", "last", "earlier"}] /\ Late \subseteq Chores
  /\ MAX_ATTEMPTS \in Nat /\ MaxMoves \in Nat /\ MaxBriefings \in Nat

VARIABLES
  bill,       \* status of each invoice
  open,       \* the tasks that are TODO or IN_PROGRESS
  reader,     \* [at, for, attempts]: a summary request or a briefing job
  figures,    \* the figures that are there
  touched,    \* history: rows written since the first query was sent
  shown,      \* [figures, touched]: the last summary returned or briefing stored
  jobs,       \* briefings asked for and not begun
  moves, ordered  \* counters of the bounds

rowVars == <<bill, open, moves>>
snapshotVars == <<rowVars, reader, figures, touched, shown, jobs, ordered>>

NotReading == [at |-> "idle", for |-> "nobody", attempts |-> 0]
NoFigures == [q \in {} |-> {}]

SnapshotsInit ==
  /\ bill = [b \in Bills |-> "SENT"] /\ open = Chores
  /\ reader = NotReading /\ figures = NoFigures /\ touched = {}
  /\ shown = [figures |-> NoFigures, touched |-> {}]
  /\ jobs = 0 /\ moves = 0 /\ ordered = 0

-----------------------------------------------------------------------------
(* Others write. *)
MoveBill(b) ==
  /\ \/ bill[b] = "SENT" /\ bill' \in {[bill EXCEPT ![b] = s] : s \in {"OVERDUE", "PAID", "VOID"}}
     \/ bill[b] = "OVERDUE" /\ bill' \in {[bill EXCEPT ![b] = s] : s \in {"PAID", "VOID"}}
  /\ touched' = touched \cup {b}
  /\ UNCHANGED open

MoveTask(c) ==
  /\ open' = IF c \in open THEN open \ {c} ELSE open \cup {c}
  /\ touched' = touched \cup {c}
  /\ UNCHANGED bill

Write ==
  /\ moves < MaxMoves /\ moves' = moves + 1
  /\ (\E b \in Bills : MoveBill(b)) \/ (\E c \in Chores : MoveTask(c))
  /\ UNCHANGED <<reader, figures, shown, jobs, ordered>>

-----------------------------------------------------------------------------
(* collectSignals and summary: the conditions of the queries. *)
OPEN_RECEIVABLE_STATUSES == {"SENT", "OVERDUE"}
Paid == {b \in Bills : bill[b] = "PAID"}

\* Mutant: no upper bound on createdAt.
SinceLastMonth == {b \in Paid : Month[b] # "earlier"}
LastMonth == {b \in Paid : Month[b] = "last"}

Queries == {"revenueTotal", "revenueThisMonth", "revenueLastMonth", "receivables", "overdue",
            "openTasks", "overdueTasks"}
Counted(q) ==
  CASE q = "revenueTotal" -> Paid
    [] q = "revenueThisMonth" -> {b \in Paid : Month[b] = "this"}
    [] q = "revenueLastMonth" -> LastMonth
    [] q = "receivables" -> {b \in Bills : bill[b] \in OPEN_RECEIVABLE_STATUSES}
    [] q = "overdue" -> {b \in Bills : bill[b] = "OVERDUE"}
    [] q = "openTasks" -> open
    [] q = "overdueTasks" -> open \cap Late

Query(q) ==
  /\ reader.at = "collecting" /\ q \notin DOMAIN figures
  /\ figures' = [f \in DOMAIN figures \cup {q} |-> IF f = q THEN Counted(q) ELSE figures[f]]
  /\ UNCHANGED <<rowVars, reader, touched, shown, jobs, ordered>>

collectSignals == \E q \in Queries : Query(q)

Collecting(who, attempts) ==
  /\ reader' = [at |-> "collecting", for |-> who, attempts |-> attempts]
  /\ figures' = NoFigures /\ touched' = {}

AllThere == reader.at = "collecting" /\ DOMAIN figures = Queries
Show == shown' = [figures |-> figures, touched |-> touched]

-----------------------------------------------------------------------------
(* The dashboard. *)
AskSummary ==
  /\ reader = NotReading /\ Collecting("dashboard", 0)
  /\ UNCHANGED <<rowVars, shown, jobs, ordered>>

ReturnSummary ==
  /\ AllThere /\ reader.for = "dashboard"
  /\ Show /\ reader' = NotReading
  /\ UNCHANGED <<rowVars, figures, touched, jobs, ordered>>

\* DashboardService.summary; a query that fails fails the request.
summary ==
  \/ AskSummary \/ ReturnSummary
  \/ /\ reader.at = "collecting" /\ reader.for = "dashboard" /\ reader' = NotReading
     /\ UNCHANGED <<rowVars, figures, touched, shown, jobs, ordered>>

-----------------------------------------------------------------------------
(* The briefing. *)
\* The endpoint answers QUEUED, also when the queue cannot be reached.
requestGenerate ==
  /\ ordered < MaxBriefings /\ ordered' = ordered + 1
  /\ jobs' \in {jobs, jobs + 1}
  /\ UNCHANGED <<rowVars, reader, figures, touched, shown>>

BeginBriefing ==
  /\ reader = NotReading /\ jobs > 0 /\ jobs' = jobs - 1
  /\ Collecting("briefing", 1)
  /\ UNCHANGED <<rowVars, shown, ordered>>

Prompt ==
  /\ AllThere /\ reader.for = "briefing" /\ reader' = [reader EXCEPT !.at = "prompted"]
  /\ UNCHANGED <<rowVars, figures, touched, shown, jobs, ordered>>

\* parseBriefingPayload: the briefing is stored, and its event appended or not.
StoreBriefing ==
  /\ reader.at = "prompted"
  /\ Show /\ reader' = [reader EXCEPT !.at = "stored"]
  /\ UNCHANGED <<rowVars, figures, touched, jobs, ordered>>

Retry == Collecting("briefing", reader.attempts + 1)

\* A query, the model or its payload fails, or the process dies, after the
\* briefing was stored too: the job is tried again from the start.
BriefingFails ==
  /\ reader.for = "briefing"
  /\ IF reader.attempts < MAX_ATTEMPTS THEN Retry
     ELSE reader' = NotReading /\ UNCHANGED <<figures, touched>>
  /\ UNCHANGED <<rowVars, shown, jobs, ordered>>

CompleteBriefing ==
  /\ reader.at = "stored" /\ reader' = NotReading
  /\ UNCHANGED <<rowVars, figures, touched, shown, jobs, ordered>>

brief == BeginBriefing \/ Prompt \/ StoreBriefing \/ BriefingFails \/ CompleteBriefing

SnapshotsNext == Write \/ collectSignals \/ summary \/ requestGenerate \/ brief

SnapshotsSpec == SnapshotsInit /\ [][SnapshotsNext]_snapshotVars

-----------------------------------------------------------------------------
\* The figures of a summary or a briefing agree with each other on every row
\* that was left alone while they were collected, first try or not: no invoice
\* is both revenue and receivable, what is overdue is outstanding, the months
\* are parts of the revenue that do not overlap.  A row written meanwhile may be
\* counted twice or nowhere.
FiguresAddUp ==
  LET F == shown.figures IN
    DOMAIN F # {} =>
      \A r \in (Bills \cup Chores) \ shown.touched :
        /\ r \notin F["revenueTotal"] \cap F["receivables"]
        /\ r \in F["overdue"] => r \in F["receivables"]
        /\ r \in F["revenueThisMonth"] \cup F["revenueLastMonth"] => r \in F["revenueTotal"]
        /\ r \notin F["revenueThisMonth"] \cap F["revenueLastMonth"]
        /\ r \in F["overdueTasks"] => r \in F["openTasks"]
=============================================================================
