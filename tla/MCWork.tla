-------------------------------- MODULE MCWork --------------------------------
EXTENDS Work
CONSTANTS i1, p1, r1, r2

MCSchedules == {{"plan", "sweep"}, {"sweep", "rules"}, {"recommend"}}
MCTrigger == [r \in {r1, r2} |-> IF r = r1 THEN "INVOICE" ELSE "TASK"]
MCEditions == {
  [active |-> TRUE, when |-> {"OVERDUE", "TODO"}, actions |-> {"CREATE_TASK", "SEND_NOTIFICATION"}],
  [active |-> FALSE, when |-> {"OVERDUE", "TODO"}, actions |-> {"CREATE_TASK"}]}
=============================================================================
