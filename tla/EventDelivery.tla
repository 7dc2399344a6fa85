--------------------------- MODULE EventDelivery ---------------------------
(***************************************************************************)
(* What the outbox promises to the rest of the system, whatever number of  *)
(* relays serve it: an event reaches the broker only after its row was     *)
(* recorded, possibly several times, and the row is acknowledged only when *)
(* the broker has the event.  A row may also be given up.                  *)
(***************************************************************************)
CONSTANT Events

VARIABLES
  recorded,    \* events that have an outbox row
  delivered,   \* events the broker holds at least one copy of
  verdict      \* what the row says became of the event

vars == <<recorded, delivered, verdict>>

TypeOK ==
  /\ recorded \subseteq Events
  /\ delivered \subseteq recorded
  /\ verdict \in [Events -> {"open", "acknowledged", "abandoned"}]

Init ==
  /\ recorded = {}
  /\ delivered = {}
  /\ verdict = [e \in Events |-> "open"]

Record(e) ==
  /\ e \notin recorded
  /\ recorded' = recorded \cup {e}
  /\ UNCHANGED <<delivered, verdict>>

Deliver(e) ==
  /\ e \in recorded
  /\ delivered' = delivered \cup {e}
  /\ UNCHANGED <<recorded, verdict>>

Acknowledge(e) ==
  /\ e \in delivered
  /\ verdict' = [verdict EXCEPT ![e] = "acknowledged"]
  /\ UNCHANGED <<recorded, delivered>>

\* Two relays that disagree about the same event may overwrite each other.
Abandon(e) ==
  /\ e \in recorded
  /\ verdict' = [verdict EXCEPT ![e] = "abandoned"]
  /\ UNCHANGED <<recorded, delivered>>

Settle(e) ==
  /\ verdict[e] = "open"
  /\ Acknowledge(e) \/ Abandon(e)

Next == \E e \in Events : Record(e) \/ Deliver(e) \/ Acknowledge(e) \/ Abandon(e)

Spec == Init /\ [][Next]_vars

\* No recorded event is left undecided for ever.
FairSpec == Spec /\ \A e \in Events : WF_vars(Settle(e))
=============================================================================
