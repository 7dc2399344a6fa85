---------------------------- MODULE MCRecurring -----------------------------
(***************************************************************************)
(* One schedule that bills every two time units, two processes.            *)
(***************************************************************************)
EXTENDS Recurring, TLC

MCPeriod == [s \in Schedules |-> 2]
MCNetTerms == [s \in Schedules |-> 1]
MCIssues == [s \in Schedules |-> TRUE]

Symmetry == Permutations(Procs) \cup Permutations(Ids)
=============================================================================
