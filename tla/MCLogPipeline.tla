---------------------------- MODULE MCLogPipeline ----------------------------
(* Rows logged by others, and those the pipeline adds about itself. *)
EXTENDS LogPipeline

CONSTANTS s1, s2
=============================================================================
