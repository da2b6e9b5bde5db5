# A TLA+ model of PerfKit Benchmarker

PerfKit Benchmarker (PKB) provisions cloud resources, runs a benchmark on them,
publishes samples and tears everything down.  What can go wrong lies between
these steps: a call fails after the cloud has acted, Ctrl-C arrives in the middle
of a queue operation, a process is killed and another one has to clean up after
it.  This directory models that core, checks it with TLC on small instances, and
proves the central facts with TLAPS for instances of any size.

Paths below are relative to `src/perfkitbenchmarker/`.

## The system

| Component | State | Operations | Interacts with |
|---|---|---|---|
| Task queues (`background_tasks.py`) | a deque, a lock used as a signal | `Put`, `Get` | one per worker of the task pool |
| Parallel threads (`background_tasks.py`) | tasks, workers, stack of free workers, response queue, interrupts under way | `RunParallelThreads`, `HandleKeyboardInterrupt`, `__exit__` | creates, prepares and deletes VMs in parallel |
| Resource lifecycle (`resource.py`, `Retry` of `vm_util.py`) | `created`, `deleted`, `restored`, five timestamps | `Create`, `Restore`, `Freeze`, `Delete`, `GetSamples` | base class of everything a provider creates |
| Run stages (`stages.py`) | none | parsing of `--run_stage` | decides what a run does |
| Benchmark run (`pkb.py`, `benchmark_spec.py`) | the `BenchmarkSpec`, its resources, pickle file, freeze file, checker threads | `RunBenchmark`, `DoProvisionPhase`, `Provision`, `Delete`, `Pickle` | calls resources; its file is read by later processes |
| Retries (`pkb.py`) | attempts, tried zones and regions, `_TEARDOWN_EVENT` | `RunBenchmarkTask`, `ZoneRetryManager`, `RunBenchmarks` | repeats benchmark runs, in series or in processes |
| Run stage and samples (`pkb.py`, `publisher.py`) | run counters, collected and published samples | `DoRunPhase`, `AddSamples`, `PublishSamples` | inside a benchmark run; what is left goes to `RunBenchmarks` |
| Local commands (`vm_util.py`) | the process, the timer thread, two flags they share with the caller | `IssueCommand`, `_KillProcess` | every command of a provider |
| Robust remote commands (`linux_virtual_machine.py`, `scripts/execute_command.py`, `scripts/wait_for_command.py`) | on the VM a status file with its locks, an exclusive file, output files; at the caller the attempts of the ssh call under way | `RobustRemoteCommand`, the retry loop of `RemoteHostCommandWithReturnCode`, the two scripts | long commands of the benchmarks |
| Messaging latency (`scripts/messaging_service_scripts/common/e2e`) | three processes, four pipes, the receiver's state machine, registered messages | `EndToEndLatencyRunner`, `PublisherRunner`, `ReceiverRunner`, `StreamingPullReceiverRunner` | runs on a client VM, talks to a messaging service |
| Not modelled | | | see the end of this file |

What is hard about it, and what makes each part correct:

* *Queues.*  Signals on a lock do not add up, and a signal can outlive its item.
  Correct: no item waits with a reader that nobody will wake; items come out once
  and in order.
* *Threads.*  A KeyboardInterrupt strikes the parent between any two operations,
  a second one strikes the handler of the first.  Correct: every task is run,
  waited for and reported; the call ends; no task outlives it.
* *Resources.*  A call that raises may have acted, one that returns may not have.
  Correct: what is marked deleted is gone; durations make sense.
* *Benchmark run.*  Every call in the try, except and finally blocks may fail, and
  the process may be killed.  Correct: teardown happens all the same, the pickle
  file is good enough to clean up from, success means success.
* *Retries.*  Decisions combine a status, a substatus, two counters, two sets of
  zones and a shared event.  Correct: nothing is given up or repeated without
  reason, zones are exhausted before one is repeated, everything ends.
* *Samples.*  Published in three places that hand on the rest across exceptions.
  Correct: none lost, none twice.
* *Local commands.*  The timer that kills a process races with its end and with
  `cancel()`, without a lock.  Correct: a kill is seen as such, nothing times out
  that was in time, nothing is left running, the call ends.
* *Robust commands.*  A 255 of ssh does not tell whether the script was started,
  and a script may go on without its caller, beside the one that repeats it.
  Correct: success and complete output are never made up, waiting tolerates
  failures of ssh, the command does not run beside itself.
* *Messaging latency.*  Requests and acknowledgements in four pipes, a message that
  comes late, twice or not at all, and a receiver whose deadline passes while the
  main process gives up.  Correct: a report is about the message asked for, the
  next turn starts in step, one error costs one message, the run ends.

`PROJECT.json` lists the hazards line by line with the properties about them.

## Modules

| Module | Models | Notes |
|---|---|---|
| `FifoQueue` | what both queue classes promise | abstract specification, with its fairness |
| `NonPollingQueue` | `_NonPollingSingleReaderQueue` | one step per deque or lock operation |
| `NonPollingQueueProofs` | | theorems about it |
| `TaskPool` | `_RunParallelTasks`, `_BackgroundThreadTaskManager`, `_ExecuteBackgroundThreadTasks`, `_BackgroundTask.Run` | `Get` of a worker's queue is one step, as `FifoQueue` allows; the parent's `Put` stays two, since an interrupt may separate them |
| `TaskPoolProofs` | | theorems about it |
| `Resource` | `BaseResource` and its `Retry` loops | the provider's methods are external and may do anything their callers have to expect |
| `Lifecycle` | what `BenchmarkRun` relies on of `Create` and `Delete` | abstract specification, implemented by `Resource` |
| `ResourceProofs` | | theorems about it |
| `Stages` | stage names, their successors and the lists the parser accepts | constants only |
| `BenchmarkRun` | `RunBenchmark`, `DoProvisionPhase`, `InterruptChecker`, `BenchmarkSpec.Provision`, `Delete`, `Freeze`, `Pickle`, `GetBenchmarkSpec` | a resource is its two attributes and its existence; the outcomes of its calls are those of `Lifecycle`, which `Resource` has |
| `BenchmarkRunProofs` | | theorems about it |
| `Retries` | `RunBenchmarks`, `RunBenchmarkTask`, `ZoneRetryManager` | an attempt is one outcome of `BenchmarkRun` |
| `RetriesProofs` | | theorems about it |
| `RunPhase` | `DoRunPhase`, `SampleCollector`, publication in the finally block and in `RunBenchmarks` | one attempt |
| `RunPhaseProofs` | | theorems about it |
| `IssueCommand` | `IssueCommand` and `_KillProcess` | the caller, the timer thread and the process, one step per assignment or call that the other thread can see |
| `RobustCommand` | `RobustRemoteCommand`, `RemoteHostCommandWithReturnCode`, `execute_command.py`, `wait_for_command.py` | a file is the i-node its creator made, so that a lock on a deleted file protects nothing |
| `CommandProofs` | | theorems about `RobustCommand`, and about `IssueCommand`, which runs each ssh |
| `EndToEndLatency` | the main process, the publisher and both receivers of the latency benchmark | the service is a set of messages that may be delivered late and again |
| `EndToEndLatencyProofs` | | theorems about it |
| `MCNonPollingQueue`, `MCTaskPool`, `MCResource`, `MCBenchmarkRun`, `MCRetries`, `MCRunPhase`, `MCIssueCommand`, `MCRobustCommand`, `MCEndToEndLatency` | | instances for TLC, with one or more `.cfg` each |

How state and actions correspond to the code.  A variable is named after the
attribute or local it stands for (`created`, `should_teardown`, `regions_tried`);
`pc` is the place in the function, `hist` (or `put`, `got`) is history that only
properties read.  An action is a whole handler, or the part of it up to the next
point where a failure, another thread or a crash makes a difference.  A
definition marked "Faulty variant" is not part of any specification: it is the
bug that a property of the module is there to catch, and each property is known to
fail when its variant takes the place of the original.

Some choices that a reader of the code may ask about:

* `BenchmarkRun.Provision` and `Delete` go through the code's own hand-written
  orders: `at` is the position reached, `Due` the next resource that the config
  asks for, `AllDone` that there is none.  The four blocks of `Delete` that swallow
  exceptions are `Guarded`; a failure of the VMs' block skips the scratch disks,
  which share it.
* A failure is an ordinary exception, one that stands for a command timeout, or a
  KeyboardInterrupt (reported as `PROCESS_KILLED`).  Only the last passes through
  an `except Exception`.
* `Pickle` opens the file for writing and then writes: failing or being killed in
  between leaves a truncated file, be it the pickle or the freeze file.
* `freeze_path` and `always_call_cleanup` are attributes of the spec and are pickled
  with it (`spec.freeze`, `spec.always_call_cleanup`).  A later process without the
  freeze flag keeps the path and freezes again; a benchmark's own code may set
  `always_call_cleanup`.  All processes are assumed to name one freeze path.  Only a
  database with `enable_freeze_restore` is frozen (`EnableFreezeRestore`), and one
  with `delete_on_freeze_error` is deleted if that fails (`DeleteOnFreezeError`).
* In `Retries` the flags that a benchmark changed (`--zone`, `--retries`, the smart
  retries) stay changed for the benchmarks after it in the same process: all of them
  in a series, those that get its worker of the `ProcessPoolExecutor` in parallel.
* In `RunPhase` a publisher appends, writes its output anew (`CSVPublisher`,
  `--json_write_mode=w`), or appends and logs its errors (`InfluxDBPublisher`).  The
  filter for the console publisher (`publisher.py:1232`) is left out: it looks for a
  key that no sample has at its top level.
* `Resource` takes `_Exists` to tell the truth or to raise.  A provider that answers
  from an outdated listing can make `DeletedIsGone` fail.
* `EndToEndLatency` is one run on a fresh subscription.  A second iteration of the run
  stage uses the subscription again and counts its messages from 0 again, so that a
  message left by the first could be taken for one of the second; this is not covered.
* `InterruptChecker` has its own state: a Ctrl-C before the object is assigned
  leaves its threads behind, with nobody to join them (`"orphan"`).
* Formatting, logging, metadata and the contents of samples are left out.

## Runs

| Run | Instance | States | What it shows |
|---|---|---|---|
| `nonpolling_queue` | two writers, two items, four Puts | 4 k | `NoLostWakeup`, `PopFindsItem`, `FifoDelivery`; implements `FifoQueue` with its fairness (`ImplementsFairFifo`) |
| `task_pool` | three tasks, one of which swallows an interrupt, two workers, three interrupts | 191 k | `StackIsFreeWorkers`: the free-worker stack and the task counter agree. `OutcomeIsComplete`: every task is run once and reported. `NoTaskOutlivesCall`, `InterruptStopsWorkers`, `CallEnds`: interrupts end everything, in the right order. `ThirdInterruptFrees`: control comes back even if a task swallowed its interrupt |
| `resource` | every option; fresh and frozen objects; two attempts, three polls, two Deletes | 84 k | `DeletedIsGone`, `CallOutcome`, `DurationsNotNegative`. `ImplementsLifecycle`: a resource this process constructed, not user-managed and with an `_Exists`, changes only as `Lifecycle` allows |
| `benchmark_run` | networks, VMs, scratch disks, two databases, of which one is deleted if it cannot be frozen; 21 flag settings; two processes, two failures | 2.3 M | `TeardownDespiteErrors`, `OneFaultTeardown`, `Recoverable`, `SucceededIsClean`, `FrozenIsOnFile`, `AttemptOutcome`, `NetworksOutlive` |
| `timeout_teardown` | one process, one failure | violated | `--skip_teardown_on_command_timeout` has no effect on a failed run (finding) |
| `retries` | two benchmarks, in series and in parallel; four zones in two regions | 351 k | `GivenUpForAReason`, `StopStops`, `CapacityTriesAllZones`, `AllFinish` |
| `run_phase` | up to three runs, a publisher of each kind, two failures | 293 k | `NothingLost`, `PublishedOnce`, `RunEnds` |
| `run_stage_retry` | one iteration, one retry | violated | the retry is used up by the iteration counter (finding) |
| `issue_command` | every combination of arguments | 4 k | `KilledIsReported`, `TimeoutIsTimely`, `NothingLeftRunning`, `IssueEnds` |
| `robust_command` | two attempts per ssh call, two faults | 339 k | `SuccessIsTrue`, `WaitIsRobust`, `OneAtATime`, `CallEnds` |
| `end_to_end_latency` | three messages, three faults, both receivers | 35 k | `ReportIsAnswer`, `TurnIsClean`, `PullErrorCostsOne`, `RunEnds` |
| `purge_ack` | the same module | violated | a `Purge` is answered by a `ReceptionReport` (finding) |

### Bounds

* *Queue.*  Two Puts can leave one signal, a third can fall between `popleft` and
  the second emptiness test, a fourth follows.
* *Task pool.*  Three tasks on two workers make one worker be used again and one be
  free while the other is busy; two interrupts reach the handler and `__exit__`,
  and a third is needed where a target swallows one.
* *Resource.*  Two attempts per `Retry` loop give a repetition and a last failure;
  three polls with an error check every two give a poll with, and one without, the
  check; two Deletes give a repetition after any outcome.
* *Benchmark run.*  Networks, VMs and scratch disks are the guarded deletions that
  depend on each other; the databases are unguarded and can be frozen, and when the
  second cannot be the first already is.  Two failures let a handler fail too; two
  processes let one clean up after the other, with or without the first one's
  switches.
* *Retries.*  One region with a usable and an unusable alternative, one with a
  single zone: both kinds of exhaustion occur.  Attempts end by `--retries`.
* *Run phase.*  Three runs give a failure before, between and after successes; three
  publishers give one of each kind and a failure with part of the publication done.
* *Local command.*  No bounds: one call has finitely many states.
* *Robust command.*  Two attempts give a repetition and a last failure.  Two faults
  let an orphaned script run beside its repetition and something else go wrong
  meanwhile; there are as many slots for wait scripts as can be alive at a time.
* *Messaging latency.*  With three messages a fault of the first can reach the second
  and the turn after that is to be in step again; three faults allow an error, a
  redelivery and a timeout in one run.

### Fairness

* `NonPollingQueue`: a thread inside `Put` or `Get` goes on (`WF` of each step).
  Nothing makes a writer call `Put`.
* `TaskPool`: the parent and every worker go on, targets end, and a pending
  asynchronous interrupt surfaces in a worker that executes bytecode, the one
  that loops on `time.sleep` included, but never in one blocked in `acquire`.
  Interrupts themselves are not fair: they need not come.
* `Retries`: each process goes on and `RunBenchmark` returns.  In series only the
  benchmark whose turn it is has a step.
* `RunPhase`: calls return, and time passes, which is what ends
  `--run_stage_time`.
* `IssueCommand`: the caller and the timer thread go on and time passes.  Nothing
  makes the command end, and Ctrl-C need not come.
* `RobustCommand`: the caller, the scripts and their timeouts go on and a started
  command ends.  ssh need not fail and orphaned scripts need not die.
* `EndToEndLatency`: the three processes go on, deadlines pass, and a pull that
  gets no message ends with an error.  The service need not deliver, and redelivery
  and crashes need not happen.
* `Resource` and `BenchmarkRun` are checked for safety only.

Deadlock is checked where the system may only end at its end (`Retries`,
`RunPhase`: an explicit final step stutters there).  Elsewhere stopping is
allowed: a queue with no more Puts, a call that is over, a process that was the
last one.

## Proofs

All theorems hold for every value of the constants that satisfies the named
assumptions of the modules (`MaxPutsAssumption`, `PoolAssumption`,
`ResourceAssumption`, `RunAssumption`, `RetriesAssumption`, `RunPhaseAssumption`,
`RobustAssumption`, `LatencyAssumption`): bounds are natural numbers, and constants
have the right shape (the resources with `enable_freeze_restore` or `delete_on_freeze_error` are
resources of the config, every publisher is of one of the three kinds).  The one that
is more than a shape is that finitely many zones have a benchmark's machine types
(`IsFiniteSet(Supported)`), which the attempts counted against their number need.
Before they were proved, inductive invariants that TLC can evaluate were checked with
it on the instance of the component's run.

Each component has a type theorem, `TypeCorrect` (`LocalTypeCorrect` for
`IssueCommand`).  The others:

| Module | Theorem | Property |
|---|---|---|
| `NonPollingQueueProofs` | `WakeupSafe`, `PopSafe`, `DeliveredInOrder`, `Refinement` | `NoLostWakeup`, `PopFindsItem`, `FifoDelivery`, `ImplementsFifo` (the safety part of `ImplementsFairFifo`) |
| `TaskPoolProofs` | `StackSound`, `OutcomeSound`, `NoTaskOutlives`, `ThirdInterruptSound` | `StackIsFreeWorkers`, `OutcomeIsComplete`, `NoTaskOutlivesCall`, `ThirdInterruptFrees` |
| `ResourceProofs` | `DeletedResourceIsGone`, `DurationsSound`, `OutcomeSound`, `LifecycleRefinement` | `DeletedIsGone`, `DurationsNotNegative`, `CallOutcome`, `ImplementsLifecycle` |
| `BenchmarkRunProofs` | `Recovery`, `TeardownSound`, `OneFaultSound`, `FreezeSound`, `SuccessClean`, `OutcomeSound`, `NetworksSound` | `Recoverable`, `TeardownDespiteErrors`, `OneFaultTeardown`, `FrozenIsOnFile`, `SucceededIsClean`, `AttemptOutcome`, `NetworksOutlive` |
| `RetriesProofs` | `GivingUpSound`, `StoppingSound`, `CapacitySound` | `GivenUpForAReason`, `StopStops`, `CapacityTriesAllZones` |
| `RunPhaseProofs` | `NothingIsLost`, `NothingTwice` | `NothingLost`, `PublishedOnce` |
| `CommandProofs` | `KillIsReported`, `TimeoutInTime`, `CommandIsOver` | `KilledIsReported`, `TimeoutIsTimely`, `NothingLeftRunning` of `IssueCommand` |
| `CommandProofs` | `OneCommandAtATime`, `SuccessSound`, `RetriesSafe` | `OneAtATime`, `SuccessIsTrue`, `WaitIsRobust` of `RobustCommand` |
| `EndToEndLatencyProofs` | `AnswersSound`, `TurnsClean`, `ErrorCostsOne` | `ReportIsAnswer`, `TurnIsClean`, `PullErrorCostsOne` |

`NonPollingQueueProofs`.  `IInv == TypeOK /\ NoLostWakeup /\ PopFindsItem` is
inductive; `PopFindsItem` is needed for the type of what `popleft` returns.
`DeliveredInOrder` adds that what was got followed by the deque is what was put.
`Refinement` shows that every step is a step of `FifoQueue` or leaves its variables
alone.

`TaskPoolProofs`.  None of the four properties is inductive.  `PoolInv` goes by the
phases of the call.  `Interrupted` relates the number of interrupts to where the
parent can be; `NonePending` says that no worker is interrupted before the parent
was.  `Booting` counts every worker once while they are started.  In the loop,
`Held` says that a worker is on the stack, has a task queued, has one at hand or
has a response on its way, and only one of these; `Placed` and `Apart` say
where a task is by its state, and that it is in one place; `Listed` says that a
failure is on its way or on the list, once.  `Leaving` and `Ended` carry this
through `__exit__`: workers that will run nothing any more, and all tasks finished.

`ResourceProofs`.  `DeletedIsGone` is not inductive: one has to know that no
creation is under way once the mark is set (`CreateBeforeDelete`) and that the
statement setting it is reached only past the test for existence, on a resource
that was created (`MarkIsEarned`).  `DurationsSound` needs `StampInv` (every stamp
was read from a clock that has moved on, and an end is there only with the flag
that keeps its start from being overwritten), and then an order for each pair of
stamps.  `OutcomeSound` needs what a call has established by each statement
(`Progress`): past `_Exists` the resource is there, past the mark it is on record.

`LifecycleRefinement` (and `OrdinaryRefinement`, which states it as a refinement of
`Life!LifeSpec` for the ordinary resources) is the bridge between two levels:
`BenchmarkRun` creates and deletes a resource in one step, with the outcomes that
`Lifecycle` leaves open, and `Resource` has no other. That the one-step outcomes are
those of `Lifecycle` is by reading, not by proof, and an object that a later process
unpickles is not covered. The mapping takes the cloud's state to "exists or not" and
the place in the code to the call it belongs to; retries, polls, dependencies and
timestamps are not visible. On top of the invariants above it needs `OrdinaryInv`:
before `_CreateResource` there is nothing to restore, `_Create` is not tried on a
resource that is on record, and `_Delete` is called only on one that is on record
and not marked. Stating it showed that `BenchmarkRun.Delete` was wrong about a
database under `--freeze`: a call that raises after a failed freeze may have deleted
or marked the resource if `delete_on_freeze_error` is set, and only then; `Deletes`
says so.

`BenchmarkRunProofs`.  `TypeCorrect` needs that a stage under way is one of the
list of stages (`InBody`).  `Recovery` adds that what exists and is on record as
created is not marked deleted, in memory (`KnownLive`) and in the file
(`FileLive`), because the next process takes the file's word for it; and, since
`Provision` makes resources exist that the file has not heard of, that up to
there nothing is marked deleted either (`NotDeleted`, `FileNotDeleted`).

The teardown theorems rest on two invariants.  `CInv` is about control:
`ControlInv` (the try block runs with no exception under way, the except block only
with one), `CheckerInv` (no checker outside a stage unless there is an exception),
`TornInv` (from where on a run that is to tear down has been through `Delete`),
`CountInv` and `OneFaultInv` (an exception is a failure that was counted, so the
second call of `Delete` cannot fail as well).  `DeleteInv` is about
`Delete`: behind its position nothing on record is left but what is to be frozen or
was swallowed (`Passed`), hence nothing once the spec counts as deleted (`Emptied`);
it uses `KnownLive`, since `Delete` skips what is marked deleted.  `FreezeInv` says
that the freeze file knows every resource on record (`Knows`) while `Delete` is under
way and once it has ended, and, if something was frozen, until a second thing goes
wrong: a `Delete` that raised was the first, and its repetition opens the file
again.  Whether a spec freezes is a question to the spec, not to the flags, so the
theorems hold for a process that inherited its freeze path.  `NetworksSound` needs `Passed`, `NetworksFirst`
and four facts about the two orders (`OrderFact`).  `SuccessClean` needs the set of
completed stages at every statement (`DoneInv`) and that only the last statement
makes a run a success (`SavedInv`).  `OutcomeSound` is what `Retries` takes for
granted of an attempt.  It needs that the spec counts as failed from the first stage
on, that the failed-run sample, whose publication may change the substatus, is only
published once there is one, and that before the first process there is no file a
substatus could come from (`OutcomeInv`).  Statements that just go on or raise are treated
together (`Flow`, `Way`, `Aside`), the others one by one.

The proof of `OneFaultSound` brought out a case that the property had wrong and the
run's flags did not reach: with a teardown stage, after a decision to keep the
resources, a later exception does not tear them down even with
`--always_teardown_on_exception` (see below).  The property now says so and the run
has the flags.  `AttemptOutcome` in turn showed that `Retries` left out an outcome: if
only the finally block fails, the status is FAILED and there is no substatus, so that
the attempt is not retried; `Retries` has it now.

`RetriesProofs`.  Three invariants on top of `TypeInv`, which has to know that every
benchmark but a new one has a real zone (`ZoneKnown`).  `ReasonInv` counts the
results against the attempts.  `StopInv` adds that in a series at most one benchmark
is under way (`InTurn`), so that the event is not set behind its back.  `CapacityInv`
says that until all zones of the region were used, the manager remembers exactly
the zones used, each of them once (`ZonesRemembered`).

`RunPhaseProofs`.  Neither property says enough before the end of the run stage.
`Kept` is what holds all the time: a sample that was added is with every publisher that
keeps its output or still in the collector, a publisher that had its turn in the
publication under way has all that is in the collector, and one that writes its output
anew has everything after the first publication, until there are new samples.  `InStep`
speaks of sequences, while no publisher failed: what a publisher has, followed by what
is in the collector if it has not had its turn (`Stretch`), is what was added, in order,
from the first sample on or, for one that writes anew, from some sample on.  Both need that a
publication starts with the first publisher (`FromTheFirst`), and the types need that
the stage goes on only while there are retries left (`RetriesLeft`).

`CommandProofs`, `IssueCommand`.  The properties hold for every combination of arguments by the
order of assignments in two threads.  The inductive invariant says what each thread
may rely on: `CallerInv`, that past `process.wait()` the process is over and
`returncode` is its own; `TimerInv`, that `did_timeout` is set before the kill, and
only by a timer that woke before it was cancelled; `CommandInv`, how the process
and the command under it are related with and without `--time_commands`.

`CommandProofs`, `RobustCommand`.  `LockInv` says that two scripts never hold the lock of one
status file and that a command runs only while its script holds one; `StartInv`
(attempts to come have no script yet) and `WaiterInv` (which scripts have a file
open and a code read) are what the type invariant needs to be inductive.  For the
other two, `Linked` ties the ssh call to its wait script.  `Truth`, under the
hypothesis of `SuccessIsTrue`, says that there is one `execute_command.py` (`Alone`),
that output is complete once its command ended (`Complete`) and how far it is where a
wait script or the caller is (`Follows`, `ClientFollows`).  `Robust`, under that of
`WaitIsRobust`, says that the files are kept for the caller's own last wait (`Kept`),
also while orphaned wait scripts are alive, and what each script will tell (`Tells`,
`Answered`).

`EndToEndLatencyProofs`.  `LatencyInv` spells out the conversations of the main
process with the two workers, by where it is in a turn (`PublisherInStep`,
`ReceiverInStep`: what may be in the pipes, and what the worker may be doing), that
nothing of a message is anywhere before it is asked for (`NotYetPublished`), and that
the receiver works on that message (`Expected`).  `ErrorCostsOne` adds that each
message lost, the one being lost included, has a fault of its own
(`EachHasItsFault`).

Only model-checked:

* liveness and fairness (`ImplementsFairFifo` beyond its safety part, `CallEnds`,
  `IssueEnds`, `InterruptStopsWorkers`, `AllFinish`, `RunEnds`), which the prover does not handle.

Every invariant and action property of a passing run is a theorem.

## Where the code and its documentation disagree

The three violated runs are described as findings in `PROJECT.json`.  Other
disagreements that the models reproduce:

* `pkb.py:665` says that the first pickle lets a second run clean up after a
  failed provisioning.  After a crash inside `Provision` it says that nothing was
  created, and such a run deletes nothing; `Recoverable` excludes these states.
* `resource.py:96` calls `deleted` "True if the resource has been deleted"; it is
  also set for a resource that exists but whose creation was never confirmed.
* `flags.py:145` promises teardown "when there is exception during the PKB run";
  if publishing the failed-run sample or the cleanup in the except block fails as
  well, `pkb.py:1264` is not reached and nothing is torn down.
* `pkb.py:1263` says that "if TEARDOWN is specified, it will happen below".  It does
  not after `--skip_teardown_conditions` or a command timeout decided to keep the
  resources and a later statement fails; `OneFaultTeardown` excludes this case.
* `pkb.py:1179` runs `prepare_system` before `install_packages`; `stages.py:32`
  has the other order.
* `resource.py:102` promises a creation after a failed restore.  An object from a
  freeze file has `created` set by the run that froze it, so `_CreateResource`
  returns without creating anything.
* A quota error may lead back to the region it came from, while `flags.py:297`
  speaks of a new one, and `pkb.py:1568` chooses among the zones of the region the
  benchmark started in, which by then is not the one it runs in.
* `benchmark_status.py:46` says that an unsupported configuration moves to a new
  region; `pkb.py:1543` retries it like a lack of capacity.
* A Ctrl-C in the delay between two attempts (`pkb.py:1451`) leaves
  `RunBenchmarkTask` without a result.
* An unpickled spec keeps its `failed_substatus` (`benchmark_spec.py:1479`); a
  crash in `Pickle` leaves a truncated file (`benchmark_spec.py:1431`).
* A failure while system samples are recorded (`pkb.py:853`) discards those of a
  successful run.
* A task that swallows its KeyboardInterrupt keeps the handler waiting until further
  interrupts come; `ThirdInterruptFrees` says how many.
* `publisher.py:396` says that a publisher's `PublishSamples` "will be called exactly
  once" and that further calls may overwrite data.  With `--publish_after_run` the
  collector calls it up to once per run with `--publish_period`, once in the finally
  block and once from `RunBenchmarks`, whenever there are samples.  `CSVPublisher`
  (`publisher.py:439`) and `--json_write_mode=w` then keep the samples of the last call
  only, and `InfluxDBPublisher` (`publisher.py:977`) logs a failure and returns, so that
  the collector counts the samples as published.  `NothingLost` excepts both.
* The freeze path of a run is pickled with the spec (`benchmark_spec.py:240`), and
  `pkb.py:642` replaces it only if the flag is given: a later teardown without the flag
  freezes the databases, overwrites the freeze file and leaves them there.  If `Delete`
  froze a database and raised, the call in the finally block opens the freeze file for
  writing again, and if it cannot write it the database is frozen and on no file;
  `FrozenIsOnFile` is about runs in which at most one thing goes wrong.
* `wait_for_command.py:144` ends with code 0 if it cannot get the lock, also with nobody
  holding it, and says "This will be retried with a subsequent wait."  After the last
  wait there is none: `linux_virtual_machine.py:692` does not look at the text, and
  the call returns success with this text as its output.  `SuccessIsTrue` and
  `WaitIsRobust` exclude it.
* `vm_util.py:468` says that a command that times out is killed; with
  `--time_commands` it is `/usr/bin/time` that is killed and the command goes on.
* `RobustRemoteCommand` tolerates a 255 while waiting, as its docstring says, but
  not one at either end: a repeated start truncates the files of the first, and
  a repeated last wait finds them deleted.  An ssh that hangs for 1800 s raises an
  error that the except clause at `linux_virtual_machine.py:699` does not name, so
  that the log is not printed.

## Not modelled

* *Virtual machine boot, static VM pool, conditions for skipping teardown, VPN
  tunnels, background workloads*: within reach, see the plan.
* *The rest of local and remote commands*: `IssueRetryableCommand` is the `Retry`
  loop of `Resource` around `IssueCommand`; `IssueBackgroundCommand` only starts a
  process; `_SetupRobustCommand` pushes the scripts once per VM, under a lock.
* *Parallel processes*: scheduling is that of `concurrent.futures`; the loop around
  it is the one of `TaskPool`.
* *Providers, managed services, disks, networks*: a provider's methods are commands
  to a cloud; their outcomes are a free choice in `Resource`.
* *Benchmarks, packages, data, publishers' formats*: input and output only.
* *Configs and flags*: sequential parsing.  The flags that matter are constants.
* *Events, traces, timing, logging*: calls that may fail, and nothing else.

## Plan

Done, in this order, the behaviour that most depends on interleaving and failure
first: queues and their proofs; the task pool on top of them; resources and their
proofs; benchmark runs, which use resources through their outcomes, and their
proofs; retries, which use runs through their outcomes; the run stage; local
commands, robust remote commands and their proofs; the messaging latency
benchmark, the one benchmark that is a protocol of its own; then the remaining
safety properties of all of these as theorems; last `Lifecycle`, so that the outcomes
`BenchmarkRun` assumes of a resource are those `Resource` has.

Next, modelling:

1. `VmBoot`: `CreateAndBoot` with `--required_cpu_version` on top of `Resource`;
   a second `Create` on an object that was deleted (`virtual_machine.py:592`).
2. `StaticPool`: VMs that return to the pool with the attributes of their last use
   (`static_virtual_machine.py:296`).
3. `SkipConditions`: `ParseSkipTeardownConditions` and `MetricMeetsConditions`
   against a reference definition, as functions over small inputs.
4. An attempt of `BenchmarkRun` as an abstract specification that `Retries` composes,
   in place of its set of outcomes.

Next, proving: the refinement of that specification, and a deletion by a later process,
on an unpickled object that `created` already describes, as a case of `Lifecycle`.
