----------------------------- MODULE MCRowStore -----------------------------
(* Instances of RowStore. *)
EXTENDS RowStore

CONSTANTS p1, p2, a1, a2
=============================================================================
