------------------------------ MODULE RunPhase ------------------------------
(***************************************************************************)
(* The run stage and the samples it produces: DoRunPhase of pkb.py,        *)
(* publisher.SampleCollector, and the two places that publish what is left *)
(* of the samples, the finally block of RunBenchmark and RunBenchmarks.    *)
(*                                                                         *)
(* One benchmark and one attempt at it (Retries has the others).  Each run *)
(* gives one sample of its own and one about the system (lscpu, boot time  *)
(* and the like).  A clock is two facts that become true at some time: the *)
(* deadline of --run_stage_time has passed, --publish_period has elapsed.  *)
(***************************************************************************)
EXTENDS Naturals, Sequences, SequencesExt, Functions

CONSTANTS NumPublishers, Kind,   \* the publishers and how each of them writes
          Options,    \* values of --run_stage_time (given or not),
                      \* --run_stage_iterations, --run_stage_retries,
                      \* --publish_after_run and --publish_period (given or not)
          MaxRuns,    \* bound: runs before the deadline of --run_stage_time
          MaxFaults   \* bound: failures other than those of the runs

OptionsType == [time : BOOLEAN, iterations : Nat, retries : Nat,
                publish_after_run : BOOLEAN, publish_period : BOOLEAN]

\* A publisher adds to what it has written; or writes a file anew; or adds,
\* and logs an error where others raise it.
Kinds == {"append", "overwrite", "silent"}

ASSUME RunPhaseAssumption ==
    /\ NumPublishers \in Nat \ {0} /\ Kind \in [1..NumPublishers -> Kinds]
    /\ Options \subseteq OptionsType
    /\ MaxRuns \in Nat \ {0} /\ MaxFaults \in Nat

VARIABLES opt, pc,
          run_number, consecutive_failures, late,   \* DoRunPhase; deadline passed
          batch,      \* its local samples, those not added to the collector yet
          samples, published_samples,   \* the collector
          at, ret,    \* the publisher that is next; where PublishSamples returns
          received,   \* per publisher: the samples that are in its output
          raised,     \* an exception has left DoRunPhase
          runs,       \* per run of the benchmark: did it succeed
          added,      \* the samples that were ever added to the collector
          faults, unpublished,  \* failures; how often PublishSamples raised
          publications,         \* how often it got through with samples
          swallowed             \* publishers that kept a failure to themselves

phase == <<run_number, consecutive_failures, late, batch>>
collector == <<samples, published_samples, at, ret, received>>
history == <<raised, runs, added, faults, unpublished, publications, swallowed>>
vars == <<opt, pc, phase, collector, history>>

Publisher == 1..NumPublishers

Init ==
    /\ opt \in Options
    /\ pc = "run"
    /\ run_number = 0 /\ consecutive_failures = 0 /\ late = FALSE
    /\ batch = << >> /\ samples = << >> /\ published_samples = << >>
    /\ at = 1 /\ ret = "next"
    /\ received = [p \in Publisher |-> << >>]
    /\ raised = FALSE /\ runs = << >> /\ added = << >>
    /\ faults = 0 /\ unpublished = 0 /\ publications = 0 /\ swallowed = {}

Fault == faults < MaxFaults /\ faults' = faults + 1

-----------------------------------------------------------------------------
(***************************************************************************)
(* DoRunPhase.                                                             *)
(***************************************************************************)
\* The handlers of before_phase, or of after_phase in the inner finally
\* block, fail; or Ctrl-C strikes in the run or in the sleep after it.
RunAborted ==
    /\ pc \in {"run", "next"} /\ Fault
    /\ raised' = TRUE /\ pc' = "finally"
    /\ UNCHANGED <<opt, phase, collector, runs, added, unpublished,
                   publications, swallowed>>

\* BenchmarkRun returns its samples.
RunSucceeds ==
    /\ pc = "run"
    /\ batch' = <<[of |-> "run", run |-> run_number]>>
    /\ consecutive_failures' = 0
    /\ runs' = Append(runs, TRUE)
    /\ pc' = "extend"
    /\ UNCHANGED <<opt, run_number, late, collector, raised, added, faults,
                   unpublished, publications, swallowed>>

\* BenchmarkRun raises an Exception.
RunFails ==
    /\ pc = "run"
    /\ consecutive_failures' = consecutive_failures + 1
    /\ runs' = Append(runs, FALSE)
    /\ IF consecutive_failures' > opt.retries
       THEN raised' = TRUE /\ pc' = "finally"
       ELSE pc' = "extend" /\ UNCHANGED raised
    /\ batch' = << >>
    /\ UNCHANGED <<opt, run_number, late, collector, added, faults, unpublished,
                   publications, swallowed>>

\* Samples about the system are appended, whether or not the run failed; the
\* calls that collect them, or the handlers of the samples' events, may fail.
ExtendSamples ==
    /\ pc = "extend"
    /\ \/ /\ batch' = Append(batch, [of |-> "system", run |-> run_number])
          /\ pc' = "add" /\ UNCHANGED <<raised, faults>>
       \/ Fault /\ raised' = TRUE /\ pc' = "finally" /\ UNCHANGED batch
    /\ UNCHANGED <<opt, run_number, consecutive_failures, late, collector, runs,
                   added, unpublished, publications, swallowed>>

\* AddSamples, the next sample: its metadata may fail to be found.
AddSamples ==
    /\ pc = "add" /\ batch # << >>
    /\ \/ /\ samples' = Append(samples, Head(batch))
          /\ added' = Append(added, Head(batch))
          /\ batch' = Tail(batch)
          /\ UNCHANGED <<pc, raised, faults>>
       \/ /\ Fault /\ raised' = TRUE /\ pc' = "finally"
          /\ UNCHANGED <<samples, added, batch>>
    /\ UNCHANGED <<opt, run_number, consecutive_failures, late,
                   published_samples, at, ret, received, runs, unpublished,
                   publications, swallowed>>

\* All are added.  They are published if the period has elapsed.
Added ==
    /\ pc = "add" /\ batch = << >>
    /\ \/ pc' = "next" /\ UNCHANGED ret
       \/ /\ opt.publish_after_run /\ opt.publish_period
          /\ pc' = "publish" /\ ret' = "next"
    /\ UNCHANGED <<opt, phase, samples, published_samples, at, received, history>>

\* The deadline passes.
Tick ==
    /\ opt.time /\ ~late /\ pc # "end"
    /\ late' = TRUE
    /\ UNCHANGED <<opt, pc, run_number, consecutive_failures, batch, collector,
                   history>>

\* The end of the loop body, _IsRunStageFinished.
NextRun ==
    /\ pc = "next"
    /\ run_number' = run_number + 1
    /\ IF opt.time THEN late \/ run_number' < MaxRuns ELSE TRUE
    /\ pc' = IF IF opt.time THEN late ELSE run_number' >= opt.iterations
             THEN "finally" ELSE "run"
    /\ UNCHANGED <<opt, consecutive_failures, late, batch, collector, history>>

-----------------------------------------------------------------------------
(***************************************************************************)
(* PublishSamples, and its callers after the run stage.                    *)
(***************************************************************************)
\* Where a failure of PublishSamples goes: out of DoRunPhase, out of the
\* finally block (RunBenchmarkTask catches it) or out of RunBenchmarks.
Raised == [next |-> "finally", task |-> "task", end |-> "end"]

\* Faulty variant: samples are waited for.
PublishNothingWaits ==
    /\ pc = "publish" /\ at = 1 /\ samples = << >>
    /\ UNCHANGED vars

\* No publisher is called if there are no samples.
PublishNothing ==
    /\ pc = "publish" /\ at = 1 /\ samples = << >>
    /\ pc' = ret
    /\ UNCHANGED <<opt, phase, collector, history>>

\* What is left in p's output when it is opened: a CSV file, or a JSON file
\* with --json_write_mode=w, is written anew by every call.
Opened(p) == IF Kind[p] = "overwrite" THEN << >> ELSE received[p]

\* What may be in it after a failure: what was, or some of the samples too.
Cut(p) == {received[p]} \cup
            {Opened(p) \o SubSeq(samples, 1, n) : n \in 0..Len(samples)}

\* Faulty variant: the samples are taken over by the first publisher.
PublishToClears ==
    /\ pc = "publish" /\ samples # << >> /\ at <= NumPublishers
    /\ received' = [received EXCEPT ![at] = Opened(at) \o samples]
    /\ samples' = << >> /\ at' = 1 /\ pc' = ret
    /\ UNCHANGED <<opt, phase, published_samples, ret, history>>

\* The next publisher gets the samples; or it raises an exception.
PublishTo ==
    /\ pc = "publish" /\ samples # << >> /\ at <= NumPublishers
    /\ \/ /\ received' = [received EXCEPT ![at] = Opened(at) \o samples]
          /\ at' = at + 1
          /\ UNCHANGED <<pc, raised, faults, unpublished>>
       \/ /\ \E s \in Cut(at) : received' = [received EXCEPT ![at] = s]
          /\ Fault /\ unpublished' = unpublished + 1
          /\ raised' = (raised \/ ret = "next")
          /\ at' = 1 /\ pc' = Raised[ret]
    /\ UNCHANGED <<opt, phase, samples, published_samples, ret, runs, added,
                   publications, swallowed>>

\* InfluxDBPublisher._Publish logs that it could not write, and returns.
SwallowError ==
    /\ pc = "publish" /\ samples # << >> /\ at <= NumPublishers
    /\ Kind[at] = "silent" /\ Fault
    /\ \E s \in Cut(at) : received' = [received EXCEPT ![at] = s]
    /\ swallowed' = swallowed \cup {at} /\ at' = at + 1
    /\ UNCHANGED <<opt, pc, phase, samples, published_samples, ret, raised, runs,
                   added, unpublished, publications>>

\* Faulty variant: the samples stay.
PublishedKeeps ==
    /\ pc = "publish" /\ samples # << >> /\ at > NumPublishers
    /\ published_samples' = published_samples \o samples
    /\ at' = 1 /\ pc' = ret
    /\ UNCHANGED <<opt, phase, samples, ret, received, history>>

\* All publishers have them.
Published ==
    /\ pc = "publish" /\ samples # << >> /\ at > NumPublishers
    /\ published_samples' = published_samples \o samples /\ samples' = << >>
    /\ at' = 1 /\ pc' = ret
    /\ publications' = publications + 1
    /\ UNCHANGED <<opt, phase, ret, received, raised, runs, added, faults,
                   unpublished, swallowed>>

\* RunBenchmark's finally block.
Finally ==
    /\ pc = "finally"
    /\ ret' = "task" /\ pc' = IF opt.publish_after_run THEN "publish" ELSE "task"
    /\ UNCHANGED <<opt, phase, samples, published_samples, at, received, history>>

\* RunBenchmarkTask returns the samples left in the collector, whatever became
\* of RunBenchmark; RunBenchmarks publishes them with a collector of its own.
RunBenchmarks ==
    /\ pc = "task"
    /\ published_samples' = << >>
    /\ pc' = "publish" /\ ret' = "end"
    /\ UNCHANGED <<opt, phase, samples, at, received, history>>

RunStep ==
    RunAborted \/ RunSucceeds \/ RunFails \/ ExtendSamples \/ AddSamples
      \/ Added \/ NextRun

PublishStep == PublishNothing \/ PublishTo \/ SwallowError \/ Published

Next == RunStep \/ PublishStep \/ Tick \/ Finally \/ RunBenchmarks
          \/ (pc = "end" /\ UNCHANGED vars)

\* Runs and publications end, and time passes.
Spec ==
    /\ Init /\ [][Next]_vars
    /\ WF_vars(RunStep \/ PublishStep \/ Finally \/ RunBenchmarks)
    /\ WF_vars(Tick)

-----------------------------------------------------------------------------
(***************************************************************************)
(* Properties.                                                             *)
(***************************************************************************)
Samples == [of : {"run", "system"}, run : Nat]

TypeOK ==
    /\ opt \in Options
    /\ pc \in {"run", "extend", "add", "publish", "next", "finally", "task", "end"}
    /\ run_number \in Nat /\ late \in BOOLEAN
    /\ consecutive_failures \in 0..(opt.retries + 1)
    /\ batch \in Seq(Samples)
    /\ samples \in Seq(Samples) /\ published_samples \in Seq(Samples)
    /\ at \in 1..(NumPublishers + 1) /\ ret \in {"next", "task", "end"}
    /\ received \in [Publisher -> Seq(Samples)]
    /\ raised \in BOOLEAN /\ runs \in Seq(BOOLEAN) /\ added \in Seq(Samples)
    /\ faults \in Nat /\ unpublished \in Nat /\ publications \in Nat
    /\ swallowed \subseteq Publisher

\* Whatever goes wrong in the run stage and in publishing during it, every
\* sample that got into the collector is in the output of every publisher in
\* the end, if that last publication succeeds.  Excepted are a publisher that
\* did not report a failure, and one that writes its file anew if there was
\* more than one publication: SamplePublisher says that PublishSamples "will be
\* called exactly once", PublishSamples of the collector calls it each time.
NothingLost ==
    pc = "end" /\ samples = << >> =>
      \A p \in Publisher \ swallowed :
        Kind[p] # "overwrite" \/ publications <= 1
          => ToSet(added) \subseteq ToSet(received[p])

\* As long as no publisher fails, none has a sample twice, and all have them
\* in the order in which they were taken: those that add to their output from
\* the first sample on, the others a stretch of them.
PublishedOnce ==
    unpublished = 0 =>
      \A p \in Publisher \ swallowed :
        \E i \in 0..Len(added) :
          /\ Kind[p] # "overwrite" => i = 0
          /\ IsPrefix(received[p], SubSeq(added, i + 1, Len(added)))

\* The run stage, and the publication of its samples, come to an end.
RunEnds == <>(pc = "end")

\* "Run failed (consecutive_failures=%s); retrying.": a run that failed and
\* did not end the stage is followed by another, unless the time is up.
RunIsRetried ==
    pc \in {"finally", "task", "end"} /\ ~raised /\ ~opt.time => Last(runs)
=============================================================================
