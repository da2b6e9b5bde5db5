---------------------------- MODULE BenchmarkRun ----------------------------
(***************************************************************************)
(* RunBenchmark of pkb.py on one BenchmarkSpec: the stages, its except and *)
(* finally blocks, BenchmarkSpec.Provision and Delete, the spec's pickle   *)
(* file, and later processes that work on the unpickled spec.              *)
(*                                                                         *)
(* A step is a call that may fail.  A failure is an exception, one that    *)
(* stands for a command that timed out, or a KeyboardInterrupt; which      *)
(* handler gets it depends on where it happens.  A crash ends the process  *)
(* with no handler at all.  Create and Delete of a resource have the       *)
(* outcomes that Resource shows possible: a creation that fails may have   *)
(* taken effect, recorded or not, and a Delete of a resource that was not  *)
(* recorded as created does nothing.                                       *)
(***************************************************************************)
EXTENDS Stages

CONSTANTS Present,    \* the kinds of resources the benchmark's config asks for
          EnableFreezeRestore, DeleteOnFreezeError,  \* those so configured
          Flags,      \* values of --run_stage, with the switches that are on
          MaxRuns,    \* bound: processes working on the spec
          MaxFaults   \* bound: failures and crashes, in all of them together

\* The order in which Provision creates, scratch disks (PrepareAfterBoot)
\* included.  An NFS service on VMs comes after the VMs, others before.
ProvisionOrder ==
    <<"capacity_reservations", "networks", "container_registry",
      "container_cluster", "nfs_service", "lustre_service", "smb_service",
      "multi_attach_disk", "placement_groups", "vms", "managed_vm_groups",
      "unmanaged_nfs_service", "scratch_disks", "cluster", "dpb_service",
      "relational_db", "non_relational_db", "key", "tpus", "ai_model",
      "pinecone", "vvs", "edw_service", "edw_compute_resource",
      "memory_store", "example_resource", "base_job", "vpn_service",
      "messaging_service", "data_discovery_service">>

\* Faulty variant: deletion in the order of creation.
DeleteOrderAsCreated == ProvisionOrder

\* The order in which Delete deletes.
DeleteOrder ==
    <<"container_registry", "dpb_service", "relational_db",
      "non_relational_db", "key", "tpus", "edw_service",
      "edw_compute_resource", "example_resource", "base_job", "nfs_service",
      "unmanaged_nfs_service", "lustre_service", "smb_service",
      "multi_attach_disk", "messaging_service", "memory_store", "ai_model",
      "data_discovery_service", "pinecone", "vvs", "capacity_reservations",
      "managed_vm_groups", "vms", "scratch_disks", "placement_groups",
      "container_cluster", "cluster", "networks", "vpn_service">>

\* Deletions inside a `try ... except Exception` that goes on.  The VMs and
\* their scratch disks share one.
Guarded == {"capacity_reservations", "vms", "scratch_disks", "networks"}

\* Resources whose Delete is told to freeze, if the spec has a freeze path.
Freezable == {"relational_db", "non_relational_db"}

\* The stages between provisioning and teardown, as RunBenchmark tests them.
BodyOrder == <<"prepare", "prepare_system", "install_packages",
               "start_services", "run", "cleanup">>

\* Stages during which an InterruptChecker watches the VMs.
Checked == {"prepare", "run", "cleanup"}

ASSUME RunAssumption ==
    /\ Present \subseteq ToSet(ProvisionOrder)
    /\ EnableFreezeRestore \subseteq Present
    /\ DeleteOnFreezeError \subseteq Present
    /\ \A f \in Flags : Parses(f.run_stage)
    /\ MaxRuns \in Nat /\ MaxFaults \in Nat

VARIABLES flags,    \* of the running process
          pc, at,   \* where it is; position in the order being worked through
          ret,      \* what called Delete: "teardown", "except" or "finally"
          exc,      \* the exception under way, by its substatus, or "none"
          spec,     \* the BenchmarkSpec: deleted, status, failed_substatus,
                    \* whether it has a freeze_path, always_call_cleanup
          objs,     \* its resources' attributes `created` and `deleted`
          should_teardown, checker,   \* RunBenchmark's locals
          samples,  \* failed_substatus values in the collector's samples
          preempted,  \* a checker saw that a VM was reclaimed by the cloud
          cloud,    \* the resources that exist
          file,     \* the pickle file of the spec
          frozen,   \* the file at the spec's freeze_path
          hist      \* what happened in this run, for the properties

process == <<flags, pc, at, ret, exc, spec, objs, should_teardown, checker,
             preempted, samples>>
vars == <<process, cloud, file, frozen, hist>>

Fresh == [r \in Present |-> [created |-> FALSE, deleted |-> FALSE]]
NewSpec == [deleted |-> FALSE, status |-> "SKIPPED", substatus |-> "none",
            freeze |-> FALSE, always_call_cleanup |-> FALSE]
NoFile == [state |-> "none", objs |-> Fresh, spec |-> NewSpec]
Truncated == [NoFile EXCEPT !.state = "partial"]

\* Nothing has run yet.
Init ==
    /\ flags \in Flags
    /\ pc = "idle" /\ at = 1 /\ ret = "finally" /\ exc = "none"
    /\ spec = NewSpec /\ objs = Fresh
    /\ should_teardown = TRUE /\ checker = "none" /\ preempted = FALSE
    /\ samples = {}
    /\ cloud = {} /\ file = NoFile /\ frozen = NoFile
    /\ hist = [runs |-> 0, faults |-> 0, here |-> 0, caught |-> FALSE,
               done |-> << >>, froze |-> {}, swallowed |-> {},
               undeleted |-> FALSE, lost |-> FALSE]

-----------------------------------------------------------------------------
In(stage) == stage \in ToSet(flags.run_stage)
On(switch) == switch \in flags.on

\* An order is worked through from `at` on, without the resources that are
\* not there: i is the position of the next one, or all are done.
Due(order, i) == /\ i >= at /\ order[i] \in Present
                 /\ \A j \in at..(i - 1) : order[j] \notin Present
AllDone(order) == \A j \in at..Len(order) : order[j] \notin Present

\* errors.GetBenchmarkStatusFromException: what an exception is reported as.
Substatus == {"UNCATEGORIZED", "COMMAND_TIMEOUT", "PROCESS_KILLED"}

\* A failure is counted, h being the history with what else is to be noted.
Fault(h) ==
    /\ hist.faults < MaxFaults
    /\ hist' = [h EXCEPT !.faults = @ + 1, !.here = @ + 1]

\* An exception leaves the statement at pc for its handler.
Raise(handler) ==
    /\ exc' \in Substatus
    /\ pc' = handler /\ at' = 1

Goto(label) == pc' = label /\ at' = 1 /\ UNCHANGED exc

\* Where a failure within Delete goes, and where Delete returns to, by the
\* block that called it.
Handler == [teardown |-> "except", except |-> "finally", finally |-> "ended"]
Return == [teardown |-> "torn_down", except |-> "except_torn_down",
           finally |-> "publish"]

rest == <<flags, ret, spec, objs, should_teardown, checker, preempted, samples,
          cloud, file, frozen>>

\* A statement that has no effect on this state, and may fail.
Try(label, next, handler) ==
    /\ pc = label
    /\ \/ Goto(next) /\ UNCHANGED hist
       \/ Raise(handler) /\ Fault(hist)
    /\ UNCHANGED rest

\* Pickle: the file is opened for writing, which empties it, then written.
Pickle(next, handler) ==
    \/ /\ file' = [state |-> "saved", objs |-> objs, spec |-> spec]
       /\ Goto(next) /\ UNCHANGED hist
    \/ /\ file' = Truncated
       /\ Raise(handler) /\ Fault([hist EXCEPT !.lost = TRUE])

-----------------------------------------------------------------------------
(***************************************************************************)
(* A process begins.                                                       *)
(***************************************************************************)
\* GetBenchmarkSpec: a new spec if there is a provision stage (of a new
\* run_uri: the first process), otherwise the unpickled one, whose other
\* attributes, freeze_path among them, are those of the earlier process.
GetBenchmarkSpec(f) ==
    /\ pc \in {"idle", "ended"} /\ hist.runs < MaxRuns
    /\ IF "provision" \in ToSet(f.run_stage)
       THEN /\ hist.runs = 0 /\ objs' = Fresh
            /\ spec' = [NewSpec EXCEPT !.always_call_cleanup =
                                         "always_call_cleanup" \in f.on]
       ELSE /\ file.state = "saved"
            /\ objs' = file.objs
            /\ spec' = [file.spec EXCEPT !.deleted = FALSE, !.status = "SKIPPED"]
    /\ flags' = f /\ pc' = "start" /\ at' = 1 /\ ret' = "finally" /\ exc' = "none"
    /\ should_teardown' = TRUE /\ checker' = "none" /\ preempted' = FALSE
    /\ samples' = {}
    /\ hist' = [hist EXCEPT !.runs = @ + 1, !.here = 0, !.caught = FALSE,
                  !.done = << >>, !.froze = {}, !.swallowed = {},
                  !.undeleted = FALSE]
    /\ UNCHANGED <<cloud, file, frozen>>

\* A registered check says that pending runs are to be skipped.
SkipPendingRun ==
    /\ pc = "start"
    /\ Goto("ended")
    /\ UNCHANGED <<rest, hist>>

Start ==
    /\ pc = "start"
    /\ Goto("setup")
    /\ spec' = [spec EXCEPT !.status = "FAILED"]
    /\ UNCHANGED <<flags, ret, objs, should_teardown, checker, preempted,
                   samples, cloud, file, frozen, hist>>

\* _SetRestoreSpec, which may fail, and _SetFreezePath: without the flag an
\* unpickled spec keeps the path it has.
SetPaths ==
    /\ pc = "setup"
    /\ LET set == [spec EXCEPT !.freeze = @ \/ On("freeze")]
       IN \/ /\ Goto(IF In("provision") THEN "construct" ELSE "body")
             /\ spec' = set /\ UNCHANGED hist
          \/ Raise("except") /\ Fault(hist) /\ spec' \in {spec, set}
    /\ UNCHANGED <<flags, ret, objs, should_teardown, checker, preempted,
                   samples, cloud, file, frozen>>

-----------------------------------------------------------------------------
(***************************************************************************)
(* DoProvisionPhase.                                                       *)
(***************************************************************************)
\* The before_phase handlers, ConstructResources and CheckPrerequisites.
ConstructResources == Try("construct", "pickle_before", "except")

PickleBefore ==
    /\ pc = "pickle_before"
    /\ Pickle("benchmark_start", "except")
    /\ UNCHANGED <<flags, ret, spec, objs, should_teardown, checker, preempted,
                   samples, cloud, frozen>>

BenchmarkStart == Try("benchmark_start", "provision", "except")

\* Provision: the next resource is created, or its creation fails before it
\* has an effect, after it has one, or after that was recorded too.
Provision ==
    /\ pc = "provision"
    /\ \E i \in 1..Len(ProvisionOrder) :
         LET r == ProvisionOrder[i]
             recorded == [objs EXCEPT ![r].created = TRUE]
         IN /\ Due(ProvisionOrder, i)
            /\ \/ /\ at' = i + 1 /\ UNCHANGED <<pc, exc, hist>>
                  /\ cloud' = cloud \cup {r} /\ objs' = recorded
               \/ /\ Raise("pickle_after") /\ Fault(hist)
                  /\ \/ UNCHANGED <<cloud, objs>>
                     \/ cloud' = cloud \cup {r} /\ objs' \in {objs, recorded}
    /\ UNCHANGED <<flags, ret, spec, should_teardown, checker, preempted,
                   samples, file, frozen>>

Provisioned ==
    /\ pc = "provision" /\ AllDone(ProvisionOrder)
    /\ Goto("pickle_after")
    /\ UNCHANGED <<rest, hist>>

\* Faulty variant: the spec is pickled again only after a success.
PickleAfterSuccess ==
    /\ pc = "pickle_after"
    /\ IF exc = "none" THEN Pickle("provision_end", "except")
       ELSE Goto("except") /\ UNCHANGED <<file, hist>>
    /\ UNCHANGED <<flags, ret, spec, objs, should_teardown, checker, preempted,
                   samples, cloud, frozen>>

\* The inner finally block, with or without an exception under way.
PickleAfter ==
    /\ pc = "pickle_after"
    /\ Pickle(IF exc = "none" THEN "provision_end" ELSE "except", "except")
    /\ UNCHANGED <<flags, ret, spec, objs, should_teardown, checker, preempted,
                   samples, cloud, frozen>>

\* The after_phase handlers.
ProvisionEnd ==
    /\ pc = "provision_end"
    /\ \/ Goto("body") /\ hist' = [hist EXCEPT !.done = Append(@, "provision")]
       \/ Raise("except") /\ Fault(hist)
    /\ UNCHANGED rest

-----------------------------------------------------------------------------
(***************************************************************************)
(* The stages between provisioning and teardown.                           *)
(***************************************************************************)
SkipStage ==
    /\ pc = "body" /\ at <= Len(BodyOrder) /\ ~In(BodyOrder[at])
    /\ at' = at + 1
    /\ UNCHANGED <<pc, exc, rest, hist>>

\* InterruptChecker starts its threads; a KeyboardInterrupt before the object
\* is assigned leaves them to themselves.
StartStage ==
    /\ pc = "body" /\ at <= Len(BodyOrder) /\ In(BodyOrder[at])
    /\ \/ /\ pc' = "stage" /\ UNCHANGED <<at, exc, hist>>
          /\ checker' = IF BodyOrder[at] \in Checked THEN "running" ELSE checker
       \/ /\ BodyOrder[at] \in Checked /\ checker' = "orphan"
          /\ exc' = "PROCESS_KILLED" /\ pc' = "except" /\ at' = 1 /\ Fault(hist)
    /\ UNCHANGED <<flags, ret, spec, objs, should_teardown, preempted, samples,
                   cloud, file, frozen>>

\* A checker thread finds that its VM was reclaimed.
CheckInterrupt ==
    /\ checker # "none" /\ ~preempted /\ pc # "idle"
    /\ preempted' = TRUE /\ Fault(hist)
    /\ UNCHANGED <<flags, pc, at, ret, exc, spec, objs, should_teardown, checker,
                   samples, cloud, file, frozen>>

\* Do...Phase; a benchmark's own code may ask for its cleanup.
DoStage ==
    /\ pc = "stage"
    /\ spec' \in {spec, [spec EXCEPT !.always_call_cleanup = TRUE]}
    /\ \/ pc' = "end_stage" /\ UNCHANGED <<at, exc, hist>>
       \/ Raise("except") /\ Fault(hist)
    /\ UNCHANGED <<flags, ret, objs, should_teardown, checker, preempted,
                   samples, cloud, file, frozen>>

\* Faulty variant: the threads are joined, what they saw is not looked at.
EndStageUnheard ==
    /\ pc = "end_stage" /\ checker' = "none"
    /\ pc' = "body" /\ at' = at + 1 /\ UNCHANGED exc
    /\ hist' = [hist EXCEPT !.done = Append(@, BodyOrder[at])]
    /\ UNCHANGED <<flags, ret, spec, objs, should_teardown, preempted, samples,
                   cloud, file, frozen>>

\* EndCheckInterruptThreadAndRaiseError, after a checked stage; Ctrl-C may
\* strike before the threads have been joined.
EndStage ==
    /\ pc = "end_stage"
    /\ \/ /\ preempted /\ checker' = "none"
          /\ exc' = "INSUFFICIENT_CAPACITY" /\ pc' = "except" /\ at' = 1
          /\ UNCHANGED hist
       \/ /\ ~preempted /\ checker' = "none"
          /\ pc' = "body" /\ at' = at + 1 /\ UNCHANGED exc
          /\ hist' = [hist EXCEPT !.done = Append(@, BodyOrder[at])]
       \/ /\ checker = "running" /\ UNCHANGED checker
          /\ exc' = "PROCESS_KILLED" /\ pc' = "except" /\ at' = 1 /\ Fault(hist)
    /\ UNCHANGED <<flags, ret, spec, objs, should_teardown, preempted, samples,
                   cloud, file, frozen>>

EndBody ==
    /\ pc = "body" /\ at > Len(BodyOrder)
    /\ Goto(IF In("teardown") THEN "logs" ELSE "samples")
    /\ UNCHANGED <<rest, hist>>

-----------------------------------------------------------------------------
(***************************************************************************)
(* The teardown stage, and Delete.                                         *)
(***************************************************************************)
CaptureVMLogs == Try("logs", "should_teardown", "except")

\* ShouldTeardown: metrics that meet --skip_teardown_conditions, or a sample
\* that reports a command timeout.
ShouldTeardown ==
    /\ pc = "should_teardown"
    /\ \/ /\ should_teardown' =
               ~(/\ On("skip_teardown_on_command_timeout")
                 /\ "COMMAND_TIMEOUT" \in samples)
          /\ Goto(IF should_teardown' THEN "teardown" ELSE "keep") /\ UNCHANGED hist
       \/ /\ On("skip_teardown_conditions") /\ should_teardown' = FALSE
          /\ Goto("keep") /\ UNCHANGED hist
       \/ Raise("except") /\ Fault(hist) /\ UNCHANGED should_teardown
    /\ UNCHANGED <<flags, ret, spec, objs, checker, preempted, samples, cloud,
                   file, frozen>>

UpdateTimeoutMetadata == Try("keep", "samples", "except")

\* DoTeardownPhase up to Delete, in the try block or in the except block.
DoTeardownPhase ==
    /\ pc \in {"teardown", "except_teardown"}
    /\ ret' = IF pc = "teardown" THEN "teardown" ELSE "except"
    /\ \/ Goto("delete") /\ UNCHANGED hist
       \/ Raise(Handler[ret']) /\ Fault(hist)
    /\ UNCHANGED <<flags, spec, objs, should_teardown, checker, preempted,
                   samples, cloud, file, frozen>>

\* Faulty variants: the spec counts as deleted from the first call of Delete
\* on; the freeze file is written in the teardown stage only.
DeleteStartMarks ==
    /\ pc = "delete"
    /\ spec' = [spec EXCEPT !.deleted = TRUE]
    /\ Goto(IF spec.deleted THEN Return[ret] ELSE "deleting")
    /\ UNCHANGED <<flags, ret, objs, should_teardown, checker, preempted,
                   samples, cloud, file, frozen, hist>>

DeleteStartInStage ==
    /\ pc = "delete"
    /\ Goto(IF spec.deleted THEN Return[ret] ELSE "deleting")
    /\ frozen' = IF ~spec.deleted /\ spec.freeze /\ ret = "teardown"
                 THEN [state |-> "saved", objs |-> objs, spec |-> spec]
                 ELSE frozen
    /\ UNCHANGED <<flags, ret, spec, objs, should_teardown, checker, preempted,
                   samples, cloud, file, hist>>

\* Delete up to its first deletion: Freeze pickles the spec to its freeze_path.
DeleteStart ==
    /\ pc = "delete"
    /\ IF spec.deleted
       THEN Goto(Return[ret]) /\ UNCHANGED <<frozen, hist>>
       ELSE IF spec.freeze
       THEN \/ Goto("deleting") /\ UNCHANGED hist
               /\ frozen' = [state |-> "saved", objs |-> objs, spec |-> spec]
            \/ Raise(Handler[ret]) /\ Fault([hist EXCEPT !.undeleted = TRUE])
               /\ frozen' = Truncated
       ELSE Goto("deleting") /\ UNCHANGED <<frozen, hist>>
    /\ UNCHANGED <<flags, ret, spec, objs, should_teardown, checker, preempted,
                   samples, cloud, file>>

\* The resources deleted in the `try` block that starts with r: the scratch
\* disks come right after the VMs.
Block(r) == {r} \cup (IF r = "vms" THEN {"scratch_disks"} \cap Present ELSE {})

Freezes(r) == spec.freeze /\ r \in Freezable \cap EnableFreezeRestore

\* Whether Delete may get to _DeleteResource: at once, or after a failed freeze.
Deletes(r) == Freezes(r) => r \in DeleteOnFreezeError

\* The history if the call on r may have frozen it.
Froze(r) == [hist EXCEPT !.froze = @ \cup (IF Freezes(r) THEN {r} ELSE {})]

\* BaseResource.Delete gets as far as marking r deleted.
MarkDeleted(r) ==
    /\ objs' = [objs EXCEPT ![r].deleted = TRUE]
    /\ cloud' = IF objs[r].created /\ ~objs[r].deleted THEN cloud \ {r} ELSE cloud

\* An exception of resource r, at position i, ends the guarded block it is
\* in; any other, and every KeyboardInterrupt, ends Delete.  Freeze may have
\* had its effect.
DeleteRaises(r, i) ==
    \/ /\ r \in Guarded
       /\ Fault([Froze(r) EXCEPT !.swallowed = @ \cup Block(r)])
       /\ at' = i + (IF r = "vms" THEN 2 ELSE 1) /\ UNCHANGED <<pc, exc>>
    \/ /\ Raise(Handler[ret])
       /\ r \in Guarded => exc' = "PROCESS_KILLED"
       /\ Fault([Froze(r) EXCEPT !.undeleted = TRUE])

\* Delete, the next resource: it is frozen; it is deleted; there is nothing
\* to freeze, which is an error; or the call fails, having done nothing, having
\* deleted it, or having marked it deleted too.
Delete ==
    /\ pc = "deleting"
    /\ \E i \in 1..Len(DeleteOrder) :
         LET r == DeleteOrder[i]
         IN /\ Due(DeleteOrder, i)
            /\ \/ /\ Freezes(r) /\ r \in cloud
                  /\ at' = i + 1 /\ UNCHANGED <<cloud, objs, pc, exc>>
                  /\ hist' = Froze(r)
               \/ /\ Deletes(r) /\ MarkDeleted(r)
                  /\ at' = i + 1 /\ UNCHANGED <<pc, exc, hist>>
               \/ /\ Freezes(r) /\ r \notin cloud
                  /\ r \notin DeleteOnFreezeError
                  /\ exc' = "UNCATEGORIZED" /\ pc' = Handler[ret] /\ at' = 1
                  /\ hist' = [hist EXCEPT !.undeleted = TRUE, !.here = @ + 1]
                  /\ UNCHANGED <<cloud, objs>>
               \/ /\ DeleteRaises(r, i)
                  /\ \/ UNCHANGED <<cloud, objs>>
                     \/ /\ Deletes(r) /\ objs[r].created
                        /\ cloud' = cloud \ {r} /\ UNCHANGED objs
                     \/ Deletes(r) /\ MarkDeleted(r)
    /\ UNCHANGED <<flags, ret, spec, should_teardown, checker, preempted,
                   samples, file, frozen>>

DeleteEnd ==
    /\ pc = "deleting" /\ AllDone(DeleteOrder)
    /\ spec' = [spec EXCEPT !.deleted = TRUE]
    /\ Goto(Return[ret])
    /\ UNCHANGED <<flags, ret, objs, should_teardown, checker, preempted,
                   samples, cloud, file, frozen, hist>>

\* MeasureDelete and the after_phase handlers.
TornDown ==
    /\ pc = "torn_down"
    /\ \/ Goto("samples") /\ hist' = [hist EXCEPT !.done = Append(@, "teardown")]
       \/ Raise("except") /\ Fault(hist)
    /\ UNCHANGED rest

\* Timing and resource samples.
AddSamples == Try("samples", "finally", "except")

-----------------------------------------------------------------------------
(***************************************************************************)
(* The except block and the finally block.                                 *)
(***************************************************************************)
Except ==
    /\ pc = "except"
    /\ spec' = [spec EXCEPT !.substatus = exc]
    /\ Goto(IF On("create_failed_run_samples") THEN "publish_failed"
                                               ELSE "except_cleanup")
    /\ hist' = [hist EXCEPT !.caught = TRUE]
    /\ UNCHANGED <<flags, ret, objs, should_teardown, checker, preempted,
                   samples, cloud, file, frozen>>

\* PublishFailedRunSample asks the cloud about reclaimed VMs once more.
PublishFailedRunSample ==
    /\ pc = "publish_failed"
    /\ \E interrupted \in {preempted, TRUE} :
         /\ spec' = IF interrupted
                    THEN [spec EXCEPT !.substatus = "INTERRUPTED"] ELSE spec
         /\ preempted' = interrupted
    /\ \/ /\ Goto("except_cleanup") /\ UNCHANGED hist
          /\ samples' = samples \cup {spec'.substatus}
       \/ Raise("finally") /\ Fault(hist) /\ UNCHANGED samples
    /\ UNCHANGED <<flags, ret, objs, should_teardown, checker, cloud, file,
                   frozen>>

CleanupOnException ==
    /\ pc = "except_cleanup"
    /\ \/ Goto("except_next") /\ UNCHANGED hist
       \/ /\ In("cleanup") /\ spec.always_call_cleanup
          /\ Raise("finally") /\ Fault(hist)
    /\ UNCHANGED rest

TeardownOnException ==
    /\ pc = "except_next"
    /\ Goto(IF On("always_teardown_on_exception") /\ ~In("teardown")
            THEN "except_teardown" ELSE "except_logs")
    /\ UNCHANGED <<rest, hist>>

TornDownOnException == Try("except_torn_down", "except_logs", "finally")

\* Faulty variant: the except block does not raise again.
LogsSwallow ==
    /\ pc = "except_logs"
    /\ pc' = "finally" /\ at' = 1 /\ exc' = "none"
    /\ UNCHANGED <<rest, hist>>

\* CaptureVMLogs again; the exception goes on.
LogsOnException == Try("except_logs", "finally", "finally")

\* Faulty variant: the finally block leaves the resources alone after Ctrl-C.
FinallyUnlessKilled ==
    /\ pc = "finally" /\ ret' = "finally" /\ checker' = "none"
    /\ Goto(IF In("teardown") /\ should_teardown /\ exc # "PROCESS_KILLED"
            THEN "delete" ELSE "publish")
    /\ UNCHANGED <<flags, spec, objs, should_teardown, preempted, samples,
                   cloud, file, frozen, hist>>

\* The checker's threads are joined, unless another Ctrl-C strikes.
Finally ==
    /\ pc = "finally" /\ ret' = "finally"
    /\ \/ /\ Goto(IF In("teardown") /\ should_teardown THEN "delete" ELSE "publish")
          /\ checker' = IF checker = "running" THEN "none" ELSE checker
          /\ UNCHANGED hist
       \/ /\ checker = "running" /\ UNCHANGED checker
          /\ exc' = "PROCESS_KILLED" /\ pc' = "ended" /\ at' = 1
          /\ Fault([hist EXCEPT !.undeleted = TRUE])
    /\ UNCHANGED <<flags, spec, objs, should_teardown, preempted, samples,
                   cloud, file, frozen>>

\* PublishSamples with --publish_after_run, and the benchmark_end handlers.
Publish == Try("publish", "pickle_final", "ended")

PickleFinal ==
    /\ pc = "pickle_final"
    /\ Pickle("ended", "ended")
    /\ spec' = IF exc' = "none" THEN [spec EXCEPT !.status = "SUCCEEDED"]
                                ELSE spec
    /\ UNCHANGED <<flags, ret, objs, should_teardown, checker, preempted,
                   samples, cloud, frozen>>

-----------------------------------------------------------------------------
Pickling == {"pickle_before", "pickle_after", "pickle_final"}

\* The process is killed, maybe while it writes a file.
Crash ==
    /\ pc \notin {"idle", "ended"}
    /\ pc' = "idle" /\ at' = 1
    /\ file' \in {file} \cup (IF pc \in Pickling THEN {Truncated} ELSE {})
    /\ frozen' \in {frozen} \cup (IF pc = "delete" /\ spec.freeze /\ ~spec.deleted
                                  THEN {Truncated} ELSE {})
    /\ Fault([hist EXCEPT !.lost = @ \/ file' # file
                                     \/ pc \in {"provision", "pickle_after"}])
    /\ UNCHANGED <<flags, ret, exc, spec, objs, should_teardown, checker,
                   preempted, samples, cloud>>

ProvisionPhase ==
    ConstructResources \/ PickleBefore \/ BenchmarkStart \/ Provision
      \/ Provisioned \/ PickleAfter \/ ProvisionEnd

BodyPhase == SkipStage \/ StartStage \/ CheckInterrupt \/ DoStage \/ EndStage \/ EndBody

TeardownPhase ==
    CaptureVMLogs \/ ShouldTeardown \/ UpdateTimeoutMetadata \/ DoTeardownPhase
      \/ DeleteStart \/ Delete \/ DeleteEnd \/ TornDown \/ AddSamples

ExceptBlock ==
    Except \/ PublishFailedRunSample \/ CleanupOnException
      \/ TeardownOnException \/ TornDownOnException \/ LogsOnException

FinallyBlock == Finally \/ Publish \/ PickleFinal

Next ==
    \/ \E f \in Flags : GetBenchmarkSpec(f)
    \/ SkipPendingRun \/ Start \/ SetPaths
    \/ ProvisionPhase \/ BodyPhase \/ TeardownPhase
    \/ ExceptBlock \/ FinallyBlock
    \/ Crash

Spec == Init /\ [][Next]_vars

-----------------------------------------------------------------------------
(***************************************************************************)
(* Properties.                                                             *)
(***************************************************************************)
Labels ==
    {"idle", "start", "setup", "construct", "pickle_before", "benchmark_start",
     "provision", "pickle_after", "provision_end", "body", "stage",
     "end_stage", "logs", "should_teardown", "keep", "teardown", "delete",
     "deleting", "torn_down", "samples", "except", "publish_failed",
     "except_cleanup", "except_next", "except_teardown", "except_torn_down",
     "except_logs", "finally", "publish", "pickle_final", "ended"}

Status == Substatus \cup {"none", "INSUFFICIENT_CAPACITY", "INTERRUPTED"}

SpecType == [deleted : BOOLEAN, status : {"SKIPPED", "FAILED", "SUCCEEDED"},
             substatus : Status, freeze : BOOLEAN,
             always_call_cleanup : BOOLEAN]
ObjsType == [Present -> [created : BOOLEAN, deleted : BOOLEAN]]
FileType == [state : {"none", "partial", "saved"}, objs : ObjsType,
             spec : SpecType]
HistType == [runs : Nat, faults : Nat, here : Nat, caught : BOOLEAN,
             done : Seq(StageNames), froze : SUBSET Present,
             swallowed : SUBSET Present, undeleted : BOOLEAN, lost : BOOLEAN]

TypeOK ==
    /\ flags \in Flags
    /\ pc \in Labels /\ at \in Nat \ {0}
    /\ ret \in {"teardown", "except", "finally"}
    /\ exc \in Status
    /\ spec \in SpecType /\ objs \in ObjsType
    /\ should_teardown \in BOOLEAN /\ preempted \in BOOLEAN
    /\ checker \in {"none", "running", "orphan"}
    /\ samples \subseteq Status
    /\ cloud \subseteq Present
    /\ file \in FileType /\ frozen \in FileType
    /\ hist \in HistType

\* RunBenchmark is over, having got past the skip checks.
Ran == pc = "ended" /\ spec.status # "SKIPPED"

\* Resources in the cloud that the spec knows it created, and is not to freeze.
Left == {r \in cloud : objs[r].created /\ ~Freezes(r)}

\* Whatever else goes wrong, in the stages, in the except block (publishing
\* the failed-run sample, cleanup, log capture) or in publishing the samples,
\* teardown removes everything on record, unless a deletion itself fails.
TeardownDespiteErrors ==
    Ran /\ In("teardown") /\ should_teardown /\ ~hist.undeleted
      => Left \subseteq hist.swallowed

\* If one thing goes wrong in a run, be it a deletion, nothing on record is
\* left: a Delete that raised in the teardown stage is called again in the
\* finally block.  Only an exception that Delete itself swallowed is final,
\* as the spec then counts as deleted.  "Note that if TEARDOWN is specified, it
\* will happen below" (pkb.py:1263) is not so after a decision to keep the
\* resources: --always_teardown_on_exception then has no effect.
OneFaultTeardown ==
    /\ Ran /\ hist.here <= 1
    /\ \/ In("teardown") /\ should_teardown
       \/ /\ hist.caught /\ On("always_teardown_on_exception")
          /\ ~In("teardown")
    => Left \subseteq hist.swallowed

\* Outside Provision, a process that ends in any way, killed included, leaves
\* a pickle file from which a later run can delete every resource the spec
\* had created, unless writing that file failed.
Recoverable ==
    pc \notin {"provision", "pickle_after"} /\ ~hist.lost =>
      \A r \in cloud :
        objs[r].created => /\ file.state = "saved"
                           /\ file.objs[r].created /\ ~file.objs[r].deleted

\* A run counts as a success only if every stage asked for was completed, no
\* VM was seen reclaimed, no checker thread is left behind and the final
\* state of the resources is on file.
SucceededIsClean ==
    spec.status = "SUCCEEDED" =>
      /\ ToSet(hist.done) = ToSet(flags.run_stage) \
           (IF should_teardown THEN {} ELSE {"teardown"})
      /\ ~preempted /\ checker = "none"
      /\ file.state = "saved" /\ file.objs = objs

\* What RunBenchmarkTask sees of a run, and Retries assumes: a run that failed
\* anywhere raises, and one that raises has failed; _ShouldRetry finds a
\* substatus whenever the except block was entered and, unless the spec brought
\* one from an earlier process, only then: a failure of the finally block alone
\* has none, and is not retried.
AttemptOutcome ==
    pc = "ended" =>
      /\ spec.status = "FAILED" <=> exc # "none"
      /\ hist.caught => spec.status = "FAILED" /\ spec.substatus # "none"
      /\ hist.runs = 1 /\ ~hist.caught => spec.substatus = "none"

\* What a run froze rather than deleted can be restored, also while the run
\* goes on and after it was killed: if no more than one thing went wrong, the
\* freeze file knows it.  A second Delete, after one that froze and then
\* raised, opens the file for writing again; if that fails as well, what is
\* frozen is on no file.
FrozenIsOnFile ==
    hist.here <= 1 =>
      \A r \in hist.froze \cap cloud : objs[r].created =>
        frozen.state = "saved" /\ frozen.objs[r].created

\* Resources that may use a network (VPNService._Delete does nothing: its
\* tunnels go with the networks' gateways).
NetworkUsers == Present \ {"capacity_reservations", "networks", "vpn_service"}

\* Networks are there before anything that uses them, and are not deleted
\* under a resource on record that is still there, unless its own deletion
\* failed or it was frozen.
NetworksOutlive ==
    [][/\ "networks" \in Present => \/ cloud' \cap NetworkUsers \subseteq cloud
                                    \/ "networks" \in cloud
       /\ "networks" \in cloud \ cloud'
            => Left \cap NetworkUsers \subseteq hist.swallowed]_vars

\* "If true, skip teardown if the failure substatus is COMMAND_TIMEOUT."
TimeoutSkipsTeardown ==
    Ran /\ On("skip_teardown_on_command_timeout")
      /\ spec.substatus = "COMMAND_TIMEOUT"
      => \A r \in Present : ~objs[r].deleted
=============================================================================
