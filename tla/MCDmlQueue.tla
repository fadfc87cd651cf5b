----------------------------- MODULE MCDmlQueue -----------------------------
(* Two messages, two callback sessions, two retries, one killed session. *)
EXTENDS DmlQueue
=============================================================================
