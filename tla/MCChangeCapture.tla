--------------------------- MODULE MCChangeCapture ---------------------------
(* Three rows in two tables, one with and one without an update column. *)
EXTENDS ChangeCapture, TLC

CONSTANTS a1, a2, b1

MCTableOf == [r \in RowId |-> IF r = b1 THEN "B" ELSE "A"]
MCSymmetry == Permutations({a1, a2})
=============================================================================
