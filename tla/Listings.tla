------------------------------ MODULE Listings ------------------------------
(***************************************************************************)
(* The lists of the API (the list methods of the services and controllers *)
(* under modules/).  A client walks through the pages of one list while    *)
(* others write its rows.  A page is two queries at once: findMany with    *)
(* skip and take over an order that need not be total, and count.          *)
(***************************************************************************)
EXTENDS Integers, FiniteSets, Sequences

CONSTANTS
  Rows,        \* of the table, at any time
  Ranks,       \* places in the order of the list; rows may share one
  PageSize,    \* limit, of the client or the default of 20
  Lists,       \* the lists a client walks through
  MaxWrites    \* bound: writes during a walk

(***************************************************************************)
(* The lists.  New rows of a list come ahead of the others, or anywhere;   *)
(* an update may move a row ahead or anywhere, or not at all; it may take  *)
(* a row out of the filter or bring one in; rows of some are deleted.      *)
(***************************************************************************)
Table(inserts, moves, filtered, deletes) ==
  [inserts |-> inserts, moves |-> moves, filtered |-> filtered, deletes |-> deletes]

invoices == Table("ahead", "never", TRUE, FALSE)          \* newest first, by status
recurringInvoices == Table("ahead", "never", FALSE, TRUE)
tasks == Table("anywhere", "never", TRUE, FALSE)          \* by priority
conversations == Table("ahead", "ahead", FALSE, FALSE)    \* last written first
workflowRules == Table("ahead", "never", TRUE, FALSE)
workflowRuns == Table("ahead", "never", FALSE, FALSE)
products == Table("anywhere", "anywhere", TRUE, FALSE)    \* by name
movements == Table("ahead", "never", FALSE, FALSE)
knowledge == Table("ahead", "never", FALSE, FALSE)
recommendations == Table("ahead", "anywhere", TRUE, FALSE) \* by status, newest first
appointments == Table("anywhere", "anywhere", TRUE, FALSE) \* soonest first
executiveBriefings == Table("ahead", "never", FALSE, FALSE)

(***************************************************************************)
(* Their endpoints.  What a query string says of page and limit is text:   *)
(* a query class that converts it lets it pass, one that does not refuses  *)
(* it with a 400, so that only the first page is ever served.              *)
(***************************************************************************)
Converted(table) == [table |-> table, paged |-> TRUE]
Unconverted(table) == [table |-> table, paged |-> FALSE]

GetInvoices == Unconverted(invoices)
GetRecurringInvoices == Unconverted(recurringInvoices)
GetTasks == Unconverted(tasks)
GetConversations == Unconverted(conversations)
GetWorkflowRules == Converted(workflowRules)
GetWorkflowRuns == Converted(workflowRuns)
GetProducts == Converted(products)
GetMovements == Converted(movements)
GetKnowledge == Unconverted(knowledge)
GetRecommendations == Converted(recommendations)
GetAppointments == Converted(appointments)
GetBriefings == Converted(executiveBriefings)

ASSUME ListingsAssumption ==
  /\ IsFiniteSet(Rows)
  /\ Ranks \subseteq Nat /\ PageSize \in Nat \ {0} /\ MaxWrites \in Nat
  /\ Lists \subseteq [table : [inserts : {"ahead", "anywhere"},
                               moves : {"never", "ahead", "anywhere"},
                               filtered : BOOLEAN, deletes : BOOLEAN],
                      paged : BOOLEAN]

VARIABLES
  list,      \* the list of the walk
  rank,      \* place of each row in its order, 0: there is no such row
  matches,   \* the rows that the filter lets pass
  walk,      \* [state, page, found, items, total]: the page that is being read
  seen,      \* the rows the client got, in order
  steady,    \* history: rows that were in the list all along, alone at their place
  pushed, pulled,  \* history: steady rows before which a row came, or went
  torn,      \* history: something was written between the two queries of a page
  writes

tableVars == <<rank, matches, steady, pushed, pulled, torn, writes>>
listVars == <<list, tableVars, walk, seen>>

Stored == {r \in Rows : rank[r] # 0}
Listed == Stored \cap matches
Ahead(r) == {q \in Listed \ {r} : rank[q] <= rank[r]}
Alone == {r \in Listed : \A q \in Listed \ {r} : rank[q] # rank[r]}

Reading(page) ==
  [state |-> "reading", page |-> page, found |-> FALSE, items |-> <<>>, total |-> -1]

ListingsInit ==
  /\ list \in Lists
  /\ rank \in [Rows -> Ranks \cup {0}]
  /\ IF list.table.filtered THEN matches \in SUBSET Stored ELSE matches = Stored
  /\ walk = Reading(1) /\ seen = <<>>
  /\ steady = Alone /\ pushed = {} /\ pulled = {}
  /\ torn = FALSE /\ writes = 0

-----------------------------------------------------------------------------
(* The writes of others. *)

\* What a write means to the walk.
Disturb ==
  /\ writes < MaxWrites /\ writes' = writes + 1
  /\ steady' = {r \in steady \cap Alone' : rank'[r] = rank[r]}
  /\ pushed' = pushed \cup {r \in steady' : ~(Ahead(r)' \subseteq Ahead(r))}
  /\ pulled' = pulled \cup {r \in steady' : ~(Ahead(r) \subseteq Ahead(r)')}
  /\ torn' = (torn \/ walk.found # (walk.total # -1))
  /\ UNCHANGED <<list, walk, seen>>

Places(where) ==
  CASE where = "anywhere" -> Ranks
    [] where = "ahead" -> {k \in Ranks : \A q \in Stored : k <= rank[q]}
    [] where = "never" -> {}

Insert(r) ==
  /\ rank[r] = 0
  /\ \E k \in Places(list.table.inserts) : rank' = [rank EXCEPT ![r] = k]
  /\ matches' \in {matches \cup {r}} \cup IF list.table.filtered THEN {matches} ELSE {}
  /\ Disturb

Update(r) ==
  /\ rank[r] # 0
  /\ \/ /\ \E k \in Places(list.table.moves) : rank' = [rank EXCEPT ![r] = k]
        /\ UNCHANGED matches
     \/ /\ list.table.filtered
        /\ matches' = IF r \in matches THEN matches \ {r} ELSE matches \cup {r}
        /\ UNCHANGED rank
  /\ Disturb

Delete(r) ==
  /\ list.table.deletes /\ rank[r] # 0
  /\ rank' = [rank EXCEPT ![r] = 0] /\ matches' = matches \ {r}
  /\ Disturb

-----------------------------------------------------------------------------
(* One page. *)

\* Mutant: pages are numbered from zero.
SkipFromZero(page) == page * PageSize
skip(page) == (page - 1) * PageSize

\* skip and take.
Take(o, n) ==
  LET left == Len(o) - n
  IN [k \in 1..IF left < PageSize THEN left ELSE PageSize |-> o[n + k]]

Orders == {o \in [1..Cardinality(Listed) -> Listed] :
             /\ \A m, n \in DOMAIN o : o[m] = o[n] => m = n
             /\ \A m, n \in DOMAIN o : m < n => rank[o[m]] <= rank[o[n]]}

findMany ==
  /\ walk.state = "reading" /\ ~walk.found
  /\ \E o \in Orders :
       walk' = [walk EXCEPT !.found = TRUE, !.items = Take(o, skip(walk.page))]
  /\ UNCHANGED <<list, tableVars, seen>>

count ==
  /\ walk.state = "reading" /\ walk.total = -1
  /\ walk' = [walk EXCEPT !.total = Cardinality(Listed)]
  /\ UNCHANGED <<list, tableVars, seen>>

pages(total) == IF total = 0 THEN 1 ELSE (total + PageSize - 1) \div PageSize

\* The response, and what the client asks for next.
respond ==
  /\ walk.state = "reading" /\ walk.found /\ walk.total # -1
  /\ seen' = seen \o walk.items
  /\ \/ /\ walk.page >= pages(walk.total) /\ walk' = [walk EXCEPT !.state = "done"]
        /\ UNCHANGED torn
     \/ /\ walk.page < pages(walk.total) /\ list.paged /\ walk' = Reading(walk.page + 1)
        /\ torn' = FALSE
     \/ /\ walk.page < pages(walk.total) /\ ~list.paged
        /\ walk' = [walk EXCEPT !.state = "refused"]
        /\ UNCHANGED torn
  /\ UNCHANGED <<list, rank, matches, steady, pushed, pulled, writes>>

ListingsNext ==
  \/ \E r \in Rows : walk.state = "reading" /\ (Insert(r) \/ Update(r) \/ Delete(r))
  \/ findMany \/ count \/ respond

ListingsSpec == ListingsInit /\ [][ListingsNext]_listVars

-----------------------------------------------------------------------------
\* A client that walks to the last page meets a row that was in the list all
\* along: it can miss it only if a row before it went, or if the last page's
\* count is of another moment than its rows, and can meet it twice only if a
\* row came before it.  Of rows that share their place none of this is sure,
\* even when nothing is written: two products of the same name may take turns.
WalksAreComplete ==
  walk.state = "done" =>
    \A r \in steady :
      LET met == {n \in DOMAIN seen : seen[n] = r} IN
        /\ r \notin pulled /\ ~torn => met # {}
        /\ r \notin pushed => Cardinality(met) <= 1
=============================================================================
