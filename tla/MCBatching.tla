----------------------------- MODULE MCBatching -----------------------------
(* Every cursor of up to MaxInput rows, each row short, long or oversize. *)
EXTENDS Batching

CONSTANT MaxInput   \* the longest cursor tried

MCRowIds == 1..MaxInput

MCCursors ==
  UNION {{[i \in 1..n |-> [rowid |-> i, len |-> f[i]]] : f \in [1..n -> RowSizes]}
           : n \in 0..MaxInput}
=============================================================================
