---------------------------- MODULE MCEntraToken ----------------------------
(* Two messages sharing the cached token of their credential. *)
EXTENDS EntraToken
=============================================================================
