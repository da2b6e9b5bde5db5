------------------------------- MODULE Stages -------------------------------
(***************************************************************************)
(* stages.py: the stages of a run and the lists of them --run_stage takes. *)
(***************************************************************************)
EXTENDS Naturals, Sequences, SequencesExt

STAGES == <<"provision", "prepare", "run", "cleanup", "teardown">>

SplitPrepare == {"install_packages", "prepare_system", "start_services"}

StageNames == ToSet(STAGES) \cup SplitPrepare

NEXT_STAGE ==
    [s \in StageNames |->
       CASE s = "provision" -> {"prepare", "teardown"} \cup SplitPrepare
         [] s = "prepare" -> {"run", "cleanup"}
         [] s = "install_packages" ->
              {"prepare_system", "start_services", "run", "cleanup"}
         [] s = "prepare_system" -> {"start_services", "run", "cleanup"}
         [] s = "start_services" -> {"run", "cleanup"}
         [] s = "run" -> {"cleanup"}
         [] s = "cleanup" -> {"teardown"}
         [] s = "teardown" -> {}]

\* RunStageParser.parse accepts a list of stage names (the word "all" stands
\* for STAGES): it is not empty, each stage may follow the one before it, and
\* prepare does not come with the stages it is made of.
Parses(list) ==
    /\ list # << >>
    /\ ToSet(list) \subseteq StageNames
    /\ \A i \in 1..(Len(list) - 1) : list[i + 1] \in NEXT_STAGE[list[i]]
    /\ ~("prepare" \in ToSet(list) /\ ToSet(list) \cap SplitPrepare # {})
=============================================================================
