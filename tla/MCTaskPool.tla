----------------------------- MODULE MCTaskPool -----------------------------
(***************************************************************************)
(* TaskPool for TLC.  Three tasks on two workers: a worker is reused, and  *)
(* the parent starts a task while another runs.  Two interrupts reach      *)
(* every phase of the handler and of __exit__.                             *)
(***************************************************************************)
EXTENDS TaskPool
=============================================================================
