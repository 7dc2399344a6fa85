------------------------------ MODULE Workflows ------------------------------
(***************************************************************************)
(* Workflow rules (modules/workflows): the engine's sweep reads the active *)
(* rules, then the entities each kind of rule is about, and fires a rule   *)
(* once on each entity that meets its conditions.  What a rule creates are *)
(* tasks, which rules about tasks see in their turn.                       *)
(***************************************************************************)
EXTENDS Tasks

CONSTANTS
  Rules,             \* the rows of workflow_rules
  Trigger,           \* the kind of entity a rule is about
  Editions,          \* what a rule can be: active, the values it matches, its actions
  RuleBatchSize,     \* WORKFLOW_RULE_BATCH_SIZE
  EntityBatchSize    \* WORKFLOW_ENTITY_BATCH_SIZE

\* The fourth kind, APPOINTMENT, is read the way INVOICE is and is left out.
TriggerEntities == {"INVOICE", "PRODUCT", "TASK"}
ActionTypes == {"CREATE_TASK", "SEND_NOTIFICATION"}

\* WORKFLOW_FIELD_SCHEMA: a field of each kind of entity, by its values.
FieldValues(kind) ==
  CASE kind = "INVOICE" -> InvoiceStatuses
    [] kind = "PRODUCT" -> {"below", "above"}
    [] kind = "TASK" -> TaskStatuses

\* What passes validation: the values its conditions let pass, and one action or
\* more.  A rule that is not created yet is one that is not active.
validateConditions(when) == when \subseteq UNION {FieldValues(kind) : kind \in TriggerEntities}
validateActions(actions) == actions \subseteq ActionTypes /\ actions # {}

ASSUME WorkflowsAssumption ==
  /\ IsFiniteSet(Rules)
  /\ Trigger \in [Rules -> TriggerEntities]
  /\ \A e \in Editions :
       e.active \in BOOLEAN /\ validateConditions(e.when) /\ validateActions(e.actions)
  /\ RuleBatchSize \in Nat \ {0} /\ EntityBatchSize \in Nat \ {0}

VARIABLES
  rule,    \* the edition of a rule
  runs,    \* the rows of workflow_runs: a rule and an entity
  notices  \* times people were notified for a rule and an entity

workflowVars == <<rule, runs, notices>>

Entities == Signals \cup 1..MaxTasks

\* Where no sweep runs them, the rules do not matter: one choice is enough.
WorkflowsInit ==
  /\ rule \in [Rules -> IF "rules" \in kinds THEN Editions ELSE {CHOOSE e \in Editions : TRUE}]
  /\ runs = {}
  /\ notices = [x \in Rules \X Entities |-> 0]

\* PATCH /workflow-rules/:id
UpdateRule(r) ==
  /\ "rules" \in kinds /\ Edit
  /\ \E e \in Editions \ {rule[r]} : rule' = [rule EXCEPT ![r] = e]
  /\ UNCHANGED <<kinds, world, task, proc, overlapped, faults, runs, notices>>

-----------------------------------------------------------------------------
(* The sweep *)

\* Mutant: the sweep ends after the first kind of entity.
OneKind(active) == {CHOOSE kind \in TriggerEntities : \E r \in active : Trigger[r] = kind}
KindsOf(active) == {Trigger[r] : r \in active}

BeginRules(p) ==
  /\ Begin(p, "rules")
  /\ \E active \in FindMany({r \in Rules : rule[r].active}, RuleBatchSize) :
       /\ active # {}
       /\ Becomes(p, [job |-> "rules", at |-> "fetch", rules |-> [r \in active |-> rule[r]],
                      left |-> KindsOf(active),
                      todo |-> {}, pair |-> <<>>, own |-> {}])
  /\ UNCHANGED <<kinds, world, task, overlapped, edits, faults, workflowVars>>

OfKind(kind) ==
  CASE kind = "INVOICE" -> Invoices
    [] kind = "PRODUCT" -> Products
    [] kind = "TASK" -> Rows

\* The field of an entity that conditions are about.
Value(e) ==
  IF e \in Invoices THEN invoice[e]
  ELSE IF e \in Products THEN IF product[e].belowReorderPoint THEN "below" ELSE "above"
  ELSE task[e].status

\* evaluateConditions: every condition of the edition holds.
evaluateConditions(edition, e) == \E v \in edition.when : v = Value(e)

At(p, at) == proc[p].job = "rules" /\ proc[p].at = at

\* The rest of the sweep after the pairs in todo.
Going(p, state) ==
  Becomes(p, IF state.todo # {} THEN [state EXCEPT !.at = "find"]
             ELSE IF state.left # {} THEN [state EXCEPT !.at = "fetch"]
             ELSE Idle)

\* fetchEntities, once for all rules about a kind of entity.
FetchEntities(p) ==
  /\ At(p, "fetch")
  /\ \E kind \in proc[p].left :
     \E fetched \in FindMany(OfKind(kind), EntityBatchSize) :
       LET copies == proc[p].rules IN
         Going(p, [proc[p] EXCEPT !.left = @ \ {kind}, !.own = {},
                     !.todo = {x \in (DOMAIN copies) \X fetched :
                       Trigger[x[1]] = kind /\ evaluateConditions(copies[x[1]], x[2])}])
  /\ UNCHANGED <<kinds, world, task, overlapped, edits, faults, workflowVars>>

\* findFirst of the run: the entity is skipped, or the rule is fired on it.
FindRun(p) ==
  /\ At(p, "find")
  /\ \E x \in proc[p].todo :
       IF x \in runs THEN Going(p, [proc[p] EXCEPT !.todo = @ \ {x}])
       ELSE Becomes(p, [proc[p] EXCEPT !.at = "fire", !.pair = x])
  /\ UNCHANGED <<kinds, world, task, overlapped, edits, faults, workflowVars>>

\* Mutant: a run can be recorded twice.
NoUniqueKey(x) == TRUE
\* @@unique([ruleId, entityId])
Unique(x) == x \notin runs

\* Mutant: the tasks are fetched again for each rule and entity.
Refetched(p, new) ==
  (proc[p].todo \ {proc[p].pair}) \cup
    {x \in (DOMAIN proc[p].rules) \X new : Trigger[x[1]] = "TASK"}
Remaining(p, new) == proc[p].todo \ {proc[p].pair}

Fired(p, new) ==
  Going(p, [proc[p] EXCEPT !.todo = Remaining(p, new), !.pair = <<>>,
              !.own = IF Trigger[proc[p].pair[1]] = "TASK" THEN @ \cup new ELSE @])

\* fire: the run, the tasks and the notifications in one transaction.
Fire(p) ==
  /\ At(p, "fire")
  /\ LET x == proc[p].pair
         actions == proc[p].rules[x[1]].actions
         new == IF "CREATE_TASK" \in actions THEN {Len(task) + 1} ELSE {}
     IN /\ Unique(x) /\ (new # {} => ~Full)
        /\ runs' = runs \cup {x}
        /\ task' = IF new # {} THEN Append(task, NewTask("none", x)) ELSE task
        /\ notices' = IF "SEND_NOTIFICATION" \in actions
                      THEN [notices EXCEPT ![x] = @ + 1] ELSE notices
        /\ Fired(p, new)
  /\ UNCHANGED <<kinds, world, overlapped, edits, faults, rule>>

\* The transaction fails, for its unique key or otherwise: it leaves nothing
\* behind, the error is logged and the sweep goes on.
FireFails(p) ==
  /\ At(p, "fire")
  /\ LET x == proc[p].pair IN
       IF ~Unique(x) \/ ("CREATE_TASK" \in proc[p].rules[x[1]].actions /\ Full)
       THEN UNCHANGED faults ELSE Fault
  /\ Fired(p, {})
  /\ UNCHANGED <<kinds, world, task, overlapped, edits, workflowVars>>

RulesStep(p) == BeginRules(p) \/ FetchEntities(p) \/ FindRun(p) \/ Fire(p) \/ FireFails(p)

WorkflowRuleController == \E r \in Rules : UpdateRule(r)

WorkflowFairness ==
  \A p \in Processes :
    /\ WF_<<taskVars, workflowVars>>(FetchEntities(p) \/ FindRun(p) \/ Fire(p) \/ FireFails(p))
    /\ SF_<<taskVars, workflowVars>>(BeginRules(p))

-----------------------------------------------------------------------------
(* Properties *)

TasksOf(x) == {i \in Rows : task[i].by = x}

\* Fires once per entity, ever: sweeps that overlap, fail half-way or work on
\* rules that were edited since leave at most one task and one notice of a rule
\* about an entity, and none without the run that records it.
FiresOncePerEntity ==
  \A x \in Rules \X Entities :
    /\ Cardinality(TasksOf(x)) <= 1 /\ notices[x] <= 1
    /\ (TasksOf(x) # {} \/ notices[x] > 0) <=> x \in runs

\* A rule about tasks does not feed on its own tasks within a sweep: those it
\* creates wait for the next one.
NoCascade ==
  \A p \in Processes : proc[p].job = "rules" =>
    \A x \in proc[p].todo : Trigger[x[1]] = "TASK" => x[2] \notin proc[p].own

\* A rule that stays active fires on each entity that goes on matching it,
\* unless there are more rules or entities than a sweep fetches, or no room for
\* another task.
MatchedIsFired ==
  "rules" \in kinds =>
    \A r \in Rules : \A e \in Entities :
      []<>(e \in OfKind(Trigger[r]) /\ rule[r].active /\ evaluateConditions(rule[r], e) =>
             \/ <<r, e>> \in runs
             \/ Cardinality(OfKind(Trigger[r])) > EntityBatchSize
             \/ Cardinality({q \in Rules : rule[q].active}) > RuleBatchSize
             \/ Full)
=============================================================================
