------------------------------ MODULE MCOutbox ------------------------------
(***************************************************************************)
(* Two pods with an iteration of relayOnce each, and one event more than a *)
(* batch holds.  Two faults let one relay lose the broker and the other    *)
(* one die in the middle.                                                  *)
(***************************************************************************)
EXTENDS Outbox, TLC

CONSTANTS p1, p2, i1, i2

MCPodOf == (i1 :> p1) @@ (i2 :> p2)
=============================================================================
