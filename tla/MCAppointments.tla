---------------------------- MODULE MCAppointments ----------------------------
(* Two appointments, two processes, each a request or a sweep at a time. *)
EXTENDS Appointments, TLC

\* Two windows that overlap in part, and one that touches the first.
MCWindows == {[start |-> 0, end |-> 2], [start |-> 1, end |-> 3], [start |-> 2, end |-> 3]}
MCAsked == {"CONFIRMED", "CANCELLED"}
MCSymmetry == Permutations(Appts) \cup Permutations(Procs)
=============================================================================
