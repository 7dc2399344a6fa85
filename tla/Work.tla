--------------------------------- MODULE Work ---------------------------------
(***************************************************************************)
(* The jobs about tasks, workflow rules and purchases on the processes     *)
(* that share the queues ai-jobs and ops-jobs, and the people who change   *)
(* tasks, rules, recommendations and stock meanwhile.                      *)
(***************************************************************************)
EXTENDS Workflows, Purchasing

vars == <<taskVars, workflowVars, purchaseVars>>

Kinds == {"plan", "sweep", "rules", "recommend"}

ASSUME WorkAssumption == Schedules \subseteq SUBSET Kinds

Init == TasksInit /\ WorkflowsInit /\ PurchasingInit

Next ==
  \/ (TaskJobs \/ TaskController \/ Others) /\ UNCHANGED <<workflowVars, purchaseVars>>
  \/ (WorkflowRuleController \/ \E p \in Processes : RulesStep(p)) /\ UNCHANGED purchaseVars
  \/ (PurchaseRecommendationController \/ \E p \in Processes : RecommendStep(p))
       /\ UNCHANGED workflowVars

Spec == Init /\ [][Next]_vars
FairSpec == Spec /\ TaskFairness /\ WorkflowFairness
=============================================================================
