----------------------------- MODULE MCResource -----------------------------
(***************************************************************************)
(* Resource for TLC: every combination of the constructor's options; two   *)
(* attempts per Retry loop, so that a try can follow a failed one; three   *)
(* polls with the deeper check on the second; two Deletes, so that one can *)
(* follow another that failed half-way.                                    *)
(***************************************************************************)
EXTENDS Resource
=============================================================================
