----------------------------- MODULE MCDelivery -----------------------------
(* Three notifications, the oldest of which cannot be delivered. *)
EXTENDS Delivery

MCNotes == 1..3
MCBad == {1}
=============================================================================
