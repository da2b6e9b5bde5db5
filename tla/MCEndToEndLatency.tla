-------------------------- MODULE MCEndToEndLatency --------------------------
(***************************************************************************)
(* Three messages: one can be disturbed, the next one can meet what is     *)
(* left of it, and the last one shows that the run goes on.                *)
(***************************************************************************)
EXTENDS EndToEndLatency
=============================================================================
