------------------------- MODULE MCNonPollingQueue -------------------------
(***************************************************************************)
(* NonPollingQueue for TLC: two writers and four Puts are enough for two   *)
(* appends to share one signal, twice, and for a signal to outlive the     *)
(* item it announced while the next Put is under way.                      *)
(***************************************************************************)
EXTENDS NonPollingQueue
=============================================================================
