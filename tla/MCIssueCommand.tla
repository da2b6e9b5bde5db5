--------------------------- MODULE MCIssueCommand ---------------------------
(***************************************************************************)
(* IssueCommand has no constants: every combination of its arguments is an *)
(* initial state.                                                          *)
(***************************************************************************)
EXTENDS IssueCommand
=============================================================================
