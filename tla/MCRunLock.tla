----------------------------- MODULE MCRunLock -----------------------------
(***************************************************************************)
(* Three command-line drivers of one run directory and one in a resident   *)
(* process; two of the command-line ones get the same pid when one starts  *)
(* after the other is gone.                                                *)
(***************************************************************************)
EXTENDS RunLock

CONSTANTS d1, d2, d3, ui, p1, p2, pUi

PidOf == [d \in Drivers |-> CASE d = d1 -> p1 [] d = d2 -> p2 [] d = d3 -> p2 [] OTHER -> pUi]
=============================================================================
