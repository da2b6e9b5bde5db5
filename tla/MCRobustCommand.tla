--------------------------- MODULE MCRobustCommand ---------------------------
(***************************************************************************)
(* Two attempts per ssh call, so that a call can fail once and be retried, *)
(* or fail for good, and two faults of any kind.                           *)
(***************************************************************************)
EXTENDS RobustCommand
=============================================================================
