--------------------------- MODULE MCBenchmarkRun ---------------------------
(***************************************************************************)
(* BenchmarkRun for TLC.  Two processes, so that a teardown can follow a   *)
(* run that failed, was killed or was asked to leave its resources; two    *)
(* failures, so that a handler can fail as well.                           *)
(***************************************************************************)
EXTENDS BenchmarkRun

Run(list, on) == [run_stage |-> list, on |-> on]

\* A whole run, a run that leaves its resources to a later process, and that
\* process, with every combination of the switches for failures; and runs
\* that freeze resources, keep them or are to.
FailureSwitches == {"create_failed_run_samples", "always_teardown_on_exception"}
Later == <<"provision", "prepare", "run">>
MCFlags ==
    {Run(list, on) : list \in {STAGES, Later, <<"cleanup", "teardown">>},
                     on \in SUBSET FailureSwitches}
      \cup {Run(list, {"freeze"} \cup on) :
              list \in {STAGES, Later, <<"teardown">>},
              on \in SUBSET {"skip_teardown_conditions"}}
      \cup {Run(STAGES, {"skip_teardown_conditions", "always_teardown_on_exception"}),
            Run(STAGES, {"always_call_cleanup"}),
            Run(<<"provision", "install_packages", "prepare_system", "start_services">>, {})}

TimeoutFlags ==
    {Run(STAGES, {"skip_teardown_on_command_timeout", "create_failed_run_samples"})}
=============================================================================
