------------------------------ MODULE MCAgent -------------------------------
(***************************************************************************)
(* A small instance of Agent: one source with two lines, so that two       *)
(* containers of it can be in different stages of the pipeline.            *)
(***************************************************************************)
EXTENDS Agent

CONSTANT log

MCSource == {log}
=============================================================================
