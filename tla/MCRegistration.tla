--------------------------- MODULE MCRegistration ---------------------------
(* Two administrators and two tables, with names of their own or with one
   name in two schemas. *)
EXTENDS Registration

MCTables == {[owner |-> "A", name |-> "T1"], [owner |-> "B", name |-> "T2"]}
MCSameName == {[owner |-> "A", name |-> "T"], [owner |-> "B", name |-> "T"]}
=============================================================================
