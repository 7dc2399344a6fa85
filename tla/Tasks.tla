-------------------------------- MODULE Tasks --------------------------------
(***************************************************************************)
(* Tasks (modules/tasks): the planner's jobs turn signals, overdue         *)
(* invoices and low stock, into tasks that carry the signal's key; the     *)
(* auto-completion sweep marks those whose signal has gone; people set any *)
(* status through the API.  Invoices and products are read as their own    *)
(* modules leave them.                                                     *)
(***************************************************************************)
EXTENDS Integers, FiniteSets, Sequences

CONSTANTS
  Invoices, Products,  \* of one organization
  Processes,    \* consumers of ai-jobs and ops-jobs
  Schedules,    \* kinds of jobs that are requested together in a behaviour
  BatchSize,    \* TASK_AUTOCOMPLETE_BATCH_SIZE
  MaxPlan,      \* bound: tasks in a plan
  MaxTasks,     \* bound: tasks; one more is refused as by a failing database
  MaxEdits,     \* bound: changes people make, and movements of stock
  MaxFaults     \* bound: transactions that fail

Signals == Invoices \cup Products

ASSUME TasksAssumption ==
  /\ IsFiniteSet(Invoices) /\ IsFiniteSet(Products) /\ IsFiniteSet(Processes)
  /\ Invoices \cap Products = {} /\ "none" \notin Signals
  /\ BatchSize \in Nat \ {0} /\ MaxPlan \in Nat /\ MaxTasks \in Nat
  /\ MaxEdits \in Nat /\ MaxFaults \in Nat

VARIABLES
  kinds,       \* the kinds of jobs requested in this behaviour
  invoice,     \* status of an invoice
  product,     \* is its stock below the reorder point, and does its row say so
  task,        \* the rows of tasks, in the order they were created
  proc,        \* the job a process runs, and what it has read
  overlapped,  \* signals that two plans in progress had at once
  edits, faults

world == <<invoice, product>>
taskVars == <<kinds, world, task, proc, overlapped, edits, faults>>

InvoiceStatuses == {"SENT", "OVERDUE", "PAID", "VOID"}
TaskStatuses == {"TODO", "IN_PROGRESS", "DONE", "CANCELLED"}
\* Mutant: a task somebody works on does not count.
OnlyTodo == {"TODO"}
OPEN_TASK_STATUSES == {"TODO", "IN_PROGRESS"}

\* reopened counts the times somebody made it open again; by is <<>>, or the
\* rule and entity of a workflow.
NewTask(key, by) == [status |-> "TODO", key |-> key, by |-> by, reopened |-> 0]

Idle == [job |-> "none"]
Rows == DOMAIN task
Full == Len(task) >= MaxTasks
Open(i) == task[i].status \in {"TODO", "IN_PROGRESS"}
OpenTasks == {i \in Rows : Open(i)}

TasksInit ==
  /\ kinds \in Schedules
  /\ invoice = [i \in Invoices |-> "SENT"]
  /\ product = [p \in Products |-> [low |-> FALSE, belowReorderPoint |-> FALSE]]
  /\ task = <<>>
  /\ proc = [p \in Processes |-> Idle]
  /\ overlapped = {} /\ edits = 0 /\ faults = 0

Edit == edits < MaxEdits /\ edits' = edits + 1
Fault == faults < MaxFaults /\ faults' = faults + 1
\* POST /tasks/plan, POST /tasks/sweep-autocomplete and their like: somebody asks
\* again and again.
Requested(kind) == kind \in kinds
Begin(p, kind) == proc[p] = Idle /\ Requested(kind)
Becomes(p, state) == proc' = [proc EXCEPT ![p] = state]

\* FindMany(S, n): what findMany can return of S with take: n and no order.
FindMany(S, n) ==
  {T \in SUBSET S : T = S \/ (Cardinality(S) > n /\ Cardinality(T) = n)}

-----------------------------------------------------------------------------
(* The planner's job *)

HasSignal(k) == IF k \in Invoices THEN invoice[k] = "OVERDUE" ELSE product[k].low

\* findSignalKey: a task's reason names one of the signals read, or none.
Plans(signals) == UNION {[1..n -> signals \cup {"none"}] : n \in 1..MaxPlan}
KeysOf(plan) == {plan[n] : n \in DOMAIN plan} \ {"none"}

\* The signals are read, and the model's answer is a plan about them.
BeginPlan(p) ==
  /\ Begin(p, "plan")
  /\ LET signals == {k \in Signals : HasSignal(k)} IN
       /\ signals # {}
       /\ \E plan \in Plans(signals) :
            /\ Becomes(p, [job |-> "plan", at |-> "find", todo |-> plan])
            /\ overlapped' = overlapped \cup
                 {k \in KeysOf(plan) : \E q \in Processes \ {p} :
                     proc[q].job = "plan" /\ k \in KeysOf(proc[q].todo)}
  /\ UNCHANGED <<kinds, world, task, edits, faults>>

PlanRest(p) ==
  IF Len(proc[p].todo) = 1 THEN Idle
  ELSE [proc[p] EXCEPT !.at = "find", !.todo = Tail(@)]

\* findFirst: an open task with the same signalKey is a duplicate.
FindDuplicate(p) ==
  /\ proc[p].job = "plan" /\ proc[p].at = "find"
  /\ LET key == Head(proc[p].todo)
         existing == {i \in Rows : task[i].status \in OPEN_TASK_STATUSES /\ task[i].key = key}
     IN Becomes(p, IF key # "none" /\ existing # {} THEN PlanRest(p)
                   ELSE [proc[p] EXCEPT !.at = "create"])
  /\ UNCHANGED <<kinds, world, task, overlapped, edits, faults>>

CreatePlanned(p) ==
  /\ proc[p].job = "plan" /\ proc[p].at = "create" /\ ~Full
  /\ task' = Append(task, NewTask(Head(proc[p].todo), <<>>))
  /\ Becomes(p, PlanRest(p))
  /\ UNCHANGED <<kinds, world, overlapped, edits, faults>>

\* A call throws, or the answer was malformed: the job fails, and is retried
\* from its beginning.
PlanThrows(p) ==
  /\ proc[p].job = "plan"
  /\ IF Full THEN UNCHANGED faults ELSE Fault
  /\ Becomes(p, Idle)
  /\ UNCHANGED <<kinds, world, task, overlapped, edits>>

-----------------------------------------------------------------------------
(* The auto-completion sweep *)

BeginSweep(p) ==
  /\ Begin(p, "sweep")
  /\ \E batch \in FindMany(OpenTasks, BatchSize) :
       LET candidates == {i \in batch : task[i].key # "none"} IN
         /\ candidates # {}
         /\ Becomes(p, [job |-> "sweep", at |-> "read", todo |-> candidates])
  /\ UNCHANGED <<kinds, world, task, overlapped, edits, faults>>

\* Mutant: a void invoice leaves its tasks open.
OnlyPaid == {"PAID"}
RESOLVED_INVOICE_STATUSES == {"PAID", "VOID"}

\* resolveSignal: it trusts the flag of the product, not its stock.
Resolved(k) ==
  IF k \in Invoices THEN invoice[k] \in RESOLVED_INVOICE_STATUSES
  ELSE ~product[k].belowReorderPoint

\* Invoices and products are read once for all candidates.
ReadSignals(p) ==
  /\ proc[p].job = "sweep" /\ proc[p].at = "read"
  /\ LET resolved == {i \in proc[p].todo : Resolved(task[i].key)} IN
       Becomes(p, IF resolved = {} THEN Idle
                  ELSE [job |-> "sweep", at |-> "complete", todo |-> resolved])
  /\ UNCHANGED <<kinds, world, task, overlapped, edits, faults>>

SweepRest(p, i) ==
  IF proc[p].todo = {i} THEN Idle ELSE [proc[p] EXCEPT !.todo = @ \ {i}]

\* The transaction: the claim, guarded by the status, and the notification of
\* people.
Complete(p) ==
  /\ proc[p].job = "sweep" /\ proc[p].at = "complete"
  /\ \E i \in proc[p].todo :
       /\ task' = IF Open(i) THEN [task EXCEPT ![i].status = "DONE"] ELSE task
       /\ Becomes(p, SweepRest(p, i))
  /\ UNCHANGED <<kinds, world, overlapped, edits, faults>>

\* Its error is logged; the sweep goes on.
CompleteFails(p) ==
  /\ proc[p].job = "sweep" /\ proc[p].at = "complete"
  /\ \E i \in proc[p].todo : Becomes(p, SweepRest(p, i))
  /\ Fault
  /\ UNCHANGED <<kinds, world, task, overlapped, edits>>

-----------------------------------------------------------------------------
(* People and the other modules *)

\* PATCH /tasks/:id: any status after any other.
UpdateStatus(i, status) ==
  /\ Edit /\ status # task[i].status
  /\ task' = [task EXCEPT ![i].status = status,
                ![i].reopened = IF ~Open(i) /\ status \in {"TODO", "IN_PROGRESS"}
                                THEN @ + 1 ELSE @]
  /\ UNCHANGED <<kinds, world, proc, overlapped, faults>>

MoveInvoice(i, status) ==
  /\ <<invoice[i], status>> \in {<<"SENT", "OVERDUE">>, <<"SENT", "PAID">>, <<"SENT", "VOID">>,
                                 <<"OVERDUE", "PAID">>, <<"OVERDUE", "VOID">>}
  /\ invoice' = [invoice EXCEPT ![i] = status]
  /\ UNCHANGED <<kinds, product, task, proc, overlapped, edits, faults>>

MoveStock(p) ==
  /\ Edit
  /\ product' = [product EXCEPT ![p].low = ~@]
  /\ UNCHANGED <<kinds, invoice, task, proc, overlapped, faults>>

\* evaluateReorderAlert, some time after the movement.
EvaluateReorder(p) ==
  /\ product[p].belowReorderPoint # product[p].low
  /\ product' = [product EXCEPT ![p].belowReorderPoint = product[p].low]
  /\ UNCHANGED <<kinds, invoice, task, proc, overlapped, edits, faults>>

Others ==
  \/ \E i \in Invoices, status \in InvoiceStatuses : MoveInvoice(i, status)
  \/ \E p \in Products : MoveStock(p) \/ EvaluateReorder(p)

TaskController == \E i \in Rows, status \in TaskStatuses : UpdateStatus(i, status)

PlanStep(p) == BeginPlan(p) \/ FindDuplicate(p) \/ CreatePlanned(p) \/ PlanThrows(p)
SweepStep(p) == BeginSweep(p) \/ ReadSignals(p) \/ Complete(p) \/ CompleteFails(p)

TaskJobs == \E p \in Processes : PlanStep(p) \/ SweepStep(p)

\* A worker goes on with its job; a sweep that is requested again and again is
\* taken again and again.
TaskFairness ==
  \A p \in Processes :
    /\ WF_taskVars(FindDuplicate(p) \/ CreatePlanned(p) \/ (Full /\ PlanThrows(p)))
    /\ WF_taskVars(ReadSignals(p) \/ Complete(p))
    /\ SF_taskVars(BeginSweep(p))

-----------------------------------------------------------------------------
(* Properties *)

\* Two open tasks about the same signal ("an open task carrying the same
\* signalKey is never duplicated across runs") take two planner jobs that held
\* it at once, or somebody who reopened one of them.
OneOpenTaskPerSignal ==
  \A i, j \in Rows :
    i # j /\ Open(i) /\ Open(j) /\ task[i].key # "none" /\ task[i].key = task[j].key =>
      task[i].key \in overlapped \/ task[i].reopened + task[j].reopened > 0

Gone(k) == IF k \in Invoices THEN invoice[k] \in {"PAID", "VOID"}
           ELSE ~product[k].belowReorderPoint

\* A task whose signal has gone does not stay open, unless there are more open
\* tasks than a sweep takes.
ResolvedIsCompleted ==
  "sweep" \in kinds =>
    \A i \in 1..MaxTasks :
      []<>(i \in OpenTasks /\ task[i].key # "none" =>
             ~Gone(task[i].key) \/ Cardinality(OpenTasks) > BatchSize)
=============================================================================
