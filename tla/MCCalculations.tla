--------------------------- MODULE MCCalculations ---------------------------
EXTENDS Calculations
CONSTANTS c1, c2, c3, b1, t1, r1, r2, r3

Date(y, m, d, t) == [y |-> y, m |-> m, d |-> d, t |-> t]
\* The last days of a year, of a month of 31 days and of a February, and an
\* ordinary one; 2023 is followed by a leap year.  At 9 and at 18 o'clock, before
\* and after a sweep of the same day.
MCStarts == {Date(2023, 11, 31, 18), Date(2023, 9, 31, 9), Date(2024, 1, 29, 18), Date(2023, 3, 15, 18)}
MCPrices == {-1, 0, 4, 15, 1999}
MCFabricated == {<<"index", "made up">>}
MCStores == <<"vector", "text", "graph">>
MCCharacters == [c \in {c1, c2, c3} |-> IF c = c1 THEN 5 ELSE 2]
\* From the day before the history to today.
MCCreated == -1..4
MCMonth == [b \in {b1} |-> "this"]
MCLists == {GetInvoices, GetRecurringInvoices, GetTasks, GetConversations, GetWorkflowRules,
            GetWorkflowRuns, GetProducts, GetMovements, GetKnowledge, GetRecommendations,
            GetAppointments, GetBriefings}
=============================================================================
