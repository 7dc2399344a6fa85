----------------------------- MODULE MCInvoices -----------------------------
(***************************************************************************)
(* Two invoices that fall due together and fit one sweep.  Processes are   *)
(* interchangeable, and so are invoices before they have a number.         *)
(***************************************************************************)
EXTENDS Invoices, TLC

Symmetry == Permutations(Procs) \cup Permutations(Ids)
=============================================================================
