----------------------------- MODULE MCInventory -----------------------------
(* Two products and two requests race with a sweep. *)
EXTENDS Inventory

MCPoints == {0, 1}
MCDeltas == {-1, 1}
=============================================================================
