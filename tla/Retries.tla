------------------------------ MODULE Retries -------------------------------
(***************************************************************************)
(* RunBenchmarks, RunBenchmarkTask and ZoneRetryManager of pkb.py: the     *)
(* benchmarks of one PKB invocation, in series or in parallel processes,   *)
(* each tried several times and in several zones.                          *)
(*                                                                         *)
(* RunBenchmark itself is BenchmarkRun; here an attempt is one of its      *)
(* outcomes.  A process has its own FLAGS, which its benchmarks share one  *)
(* after the other; _TEARDOWN_EVENT is shared by all processes.            *)
(***************************************************************************)
EXTENDS Naturals, Sequences, FiniteSets, SequencesExt

CONSTANTS NumBenchmarks,
          Zone,           \* the cloud's zones
          RegionOf,       \* GetRegionFromZone
          Supported,      \* zones that have the benchmark's machine types
          AnyZone,        \* _ANY_ZONE
          StartFlags,     \* --zone, --retries, --smart_quota_retry,
                          \* --smart_capacity_retry,
                          \* --stop_after_benchmark_failure and whether
                          \* --run_processes is given
          RetrySubstatuses,   \* --retry_substatuses
          Substatuses     \* the substatuses with which attempts fail

FlagsType == [zone : Zone \cup {AnyZone}, retries : Nat, quota : BOOLEAN,
              capacity : BOOLEAN, stop : BOOLEAN, parallel : BOOLEAN]

ASSUME RetriesAssumption ==
    /\ NumBenchmarks \in Nat \ {0}
    /\ AnyZone \notin Zone /\ Supported \subseteq Zone /\ Supported # {}
    /\ IsFiniteSet(Supported)
    /\ RegionOf \in [Zone -> {RegionOf[z] : z \in Zone}]
    /\ StartFlags \subseteq FlagsType

VARIABLES FLAGS,      \* per benchmark: the flags its process sees
          event,      \* _TEARDOWN_EVENT
          pc,         \* per benchmark
          count,      \* current_run_count
          max_run_count,
          zones_tried, regions_tried, original_zone,   \* its ZoneRetryManager
          result,     \* result_specs: outcomes of its attempts
          used,       \* zones of its attempts
          late        \* attempts it began after the event was set

manager == <<zones_tried, regions_tried, original_zone>>
vars == <<FLAGS, event, pc, count, max_run_count, manager, result, used, late>>

Benchmark == 1..NumBenchmarks

Smart(f) == f.quota \/ f.capacity
ZonesInRegion(region) == {z \in Zone : RegionOf[z] = region}

\* Outcomes of RunBenchmark (AttemptOutcome of BenchmarkRun): a failure is always
\* raised; it has no substatus if only the finally block failed, and a Ctrl-C
\* may strike there after another substatus was recorded.
Outcome(status, substatus, raised) ==
    [status |-> status, substatus |-> substatus, raised |-> raised]

Outcomes ==
    {Outcome("SUCCEEDED", "none", "nothing"), Outcome("SKIPPED", "none", "nothing")}
      \cup {Outcome("FAILED", s, r) :
              s \in Substatuses \cup {"PROCESS_KILLED", "none"},
              r \in {"exception", "interrupt"}}

Init ==
    /\ \E f \in StartFlags : FLAGS = [b \in Benchmark |-> f]
    /\ event = FALSE
    /\ pc = [b \in Benchmark |-> "new"]
    /\ count = [b \in Benchmark |-> 0]
    /\ max_run_count = [b \in Benchmark |-> 0]
    /\ zones_tried = [b \in Benchmark |-> {}]
    /\ regions_tried = [b \in Benchmark |-> {}]
    /\ original_zone = [b \in Benchmark |-> AnyZone]
    /\ result = [b \in Benchmark |-> << >>]
    /\ used = [b \in Benchmark |-> << >>]
    /\ late = [b \in Benchmark |-> 0]

-----------------------------------------------------------------------------
\* In a series, benchmark b starts when its predecessor is done, with the
\* flags as that one left them.  In parallel it gets a fresh process or, as
\* ProcessPoolExecutor uses its workers again, that of an earlier benchmark
\* that is done, with the flags that one left.
MayStart(b) == FLAGS[b].parallel \/ \A c \in 1..(b - 1) : pc[c] = "done"
Inherited(b) ==
    IF FLAGS[b].parallel
    THEN {FLAGS[b]} \cup {FLAGS[c] : c \in {d \in 1..(b - 1) : pc[d] = "done"}}
    ELSE {FLAGS[IF b = 1 THEN 1 ELSE b - 1]}

\* ZoneRetryManager._CheckFlag: zone "any" turns the smart retries on.
CheckFlag(f) ==
    IF f.zone = AnyZone THEN [f EXCEPT !.quota = TRUE, !.capacity = TRUE] ELSE f

\* RunBenchmarkTask creates its ZoneRetryManager, which replaces the zone
\* "any" by a supported one, with a retry for each if none were asked for.
StartTask(b) ==
    /\ pc[b] = "new" /\ MayStart(b)
    /\ \E inherited \in Inherited(b) :
       LET f == CheckFlag(inherited)
           g == IF f.zone = AnyZone /\ f.retries < 1
                THEN [f EXCEPT !.retries = Cardinality(Supported)] ELSE f
       IN \E z \in IF f.zone = AnyZone THEN Supported ELSE {f.zone} :
            /\ FLAGS' = [FLAGS EXCEPT ![b] = [g EXCEPT !.zone = z]]
            /\ original_zone' = IF Smart(g) THEN [original_zone EXCEPT ![b] = z]
                                            ELSE original_zone
            /\ max_run_count' = [max_run_count EXCEPT ![b] = 1 + g.retries]
    /\ pc' = [pc EXCEPT ![b] = "check"]
    /\ UNCHANGED <<event, count, zones_tried, regions_tried, result, used, late>>

\* Faulty variants: the event is not looked at, or is waited out.
CheckEventNever(b) ==
    /\ pc[b] = "check"
    /\ pc' = [pc EXCEPT ![b] = "run"]
    /\ UNCHANGED <<FLAGS, event, count, max_run_count, manager, result, used, late>>

CheckEventWaits(b) ==
    /\ pc[b] = "check"
    /\ pc' = [pc EXCEPT ![b] = IF event THEN "check" ELSE "run"]
    /\ UNCHANGED <<FLAGS, event, count, max_run_count, manager, result, used, late>>

\* The event is looked at before each attempt.
CheckEvent(b) ==
    /\ pc[b] = "check"
    /\ pc' = [pc EXCEPT ![b] = IF event THEN "done" ELSE "run"]
    /\ UNCHANGED <<FLAGS, event, count, max_run_count, manager, result, used, late>>

Begin(b) ==
    /\ pc[b] = "run"
    /\ pc' = [pc EXCEPT ![b] = "running"]
    /\ used' = [used EXCEPT ![b] = Append(@, FLAGS[b].zone)]
    /\ late' = IF event THEN [late EXCEPT ![b] = @ + 1] ELSE late
    /\ UNCHANGED <<FLAGS, event, count, max_run_count, manager, result>>

ShouldRetry(o) == o.status = "FAILED" /\ o.substatus \in RetrySubstatuses

\* Faulty variant: the last attempt is retried too.
FinishRetriesLast(b, o) ==
    /\ pc[b] = "running"
    /\ result' = [result EXCEPT ![b] = Append(@, o)]
    /\ LET stop == \/ o.raised = "interrupt"
                   \/ o.raised = "exception" /\ FLAGS[b].stop
       IN /\ event' = (event \/ stop)
          /\ pc' = [pc EXCEPT ![b] =
                      IF ~stop /\ ShouldRetry(o) /\ count[b] # max_run_count[b]
                      THEN "retry" ELSE "done"]
    /\ UNCHANGED <<FLAGS, count, max_run_count, manager, used, late>>

\* RunBenchmark returns or raises, and what becomes of the loop.
Finish(b, o) ==
    /\ pc[b] = "running"
    /\ result' = [result EXCEPT ![b] = Append(@, o)]
    /\ LET stop == \/ o.raised = "interrupt"
                   \/ o.raised = "exception" /\ FLAGS[b].stop
       IN /\ event' = (event \/ stop)
          /\ pc' = [pc EXCEPT ![b] =
                      IF ~stop /\ ShouldRetry(o) /\ count[b] # max_run_count[b] - 1
                      THEN "retry" ELSE "done"]
    /\ UNCHANGED <<FLAGS, count, max_run_count, manager, used, late>>

-----------------------------------------------------------------------------
(***************************************************************************)
(* HandleSmartRetries.                                                     *)
(***************************************************************************)
\* Faulty variant: the zone that failed is not remembered.
ChooseForgetting(b, possible) ==
    LET to_try == possible \ zones_tried[b]
    IN \E z \in IF to_try = {} THEN {original_zone[b]} ELSE to_try :
         /\ FLAGS' = [FLAGS EXCEPT ![b].zone = z]
         /\ UNCHANGED zones_tried

\* _ChooseAndSetNewZone
ChooseAndSetNewZone(b, possible) ==
    LET tried == zones_tried[b] \cup {FLAGS[b].zone}
        to_try == possible \ tried
    IN \E z \in IF to_try = {} THEN {original_zone[b]} ELSE to_try :
         /\ FLAGS' = [FLAGS EXCEPT ![b].zone = z]
         /\ zones_tried' = [zones_tried EXCEPT ![b] =
                              IF to_try = {} THEN {} ELSE tried]

AssignZoneToNewRegion(b) ==
    LET tried == regions_tried[b] \cup {RegionOf[FLAGS[b].zone]}
        to_try == {RegionOf[z] : z \in Supported} \ tried
    IN \E region \in IF to_try = {} THEN {RegionOf[original_zone[b]]} ELSE to_try :
         /\ regions_tried' = [regions_tried EXCEPT ![b] =
                                IF to_try = {} THEN {} ELSE tried]
         /\ ChooseAndSetNewZone(b, ZonesInRegion(region))

AssignZoneToSameRegion(b) ==
    /\ ChooseAndSetNewZone(b, ZonesInRegion(RegionOf[original_zone[b]]) \cap Supported)
    /\ UNCHANGED regions_tried

HandleSmartRetries(b) ==
    /\ pc[b] = "retry"
    /\ LET substatus == Last(result[b]).substatus
       IN IF FLAGS[b].quota /\ substatus = "QUOTA_EXCEEDED"
          THEN AssignZoneToNewRegion(b)
          ELSE IF /\ FLAGS[b].capacity
                  /\ substatus \in {"UNSUPPORTED", "INSUFFICIENT_CAPACITY"}
          THEN AssignZoneToSameRegion(b)
          ELSE UNCHANGED <<FLAGS, zones_tried, regions_tried>>
    /\ count' = [count EXCEPT ![b] = @ + 1]
    /\ pc' = [pc EXCEPT ![b] = "check"]
    /\ UNCHANGED <<event, max_run_count, original_zone, result, used, late>>

-----------------------------------------------------------------------------
Step(b) ==
    \/ StartTask(b) \/ CheckEvent(b) \/ Begin(b)
    \/ \E o \in Outcomes : Finish(b, o)
    \/ HandleSmartRetries(b)

Done == \A b \in Benchmark : pc[b] = "done"

Next == (\E b \in Benchmark : Step(b)) \/ (Done /\ UNCHANGED vars)

\* Every benchmark's process goes on; RunBenchmark comes to an end.
Spec == Init /\ [][Next]_vars /\ \A b \in Benchmark : WF_vars(Step(b))

-----------------------------------------------------------------------------
(***************************************************************************)
(* Properties.                                                             *)
(***************************************************************************)
TypeOK ==
    /\ FLAGS \in [Benchmark -> FlagsType]
    /\ event \in BOOLEAN
    /\ pc \in [Benchmark -> {"new", "check", "run", "running", "retry", "done"}]
    /\ count \in [Benchmark -> Nat] /\ max_run_count \in [Benchmark -> Nat]
    /\ zones_tried \in [Benchmark -> SUBSET Zone]
    /\ regions_tried \in [Benchmark -> SUBSET {RegionOf[z] : z \in Zone}]
    /\ original_zone \in [Benchmark -> Zone \cup {AnyZone}]
    /\ result \in [Benchmark -> Seq(Outcomes)]
    /\ used \in [Benchmark -> Seq(Zone)]
    /\ late \in [Benchmark -> Nat]

\* A benchmark is given up for a reason: its last attempt is not one to retry,
\* the attempts are used up, or everything was told to stop.  All earlier
\* attempts failed in a way that is retried.
GivenUpForAReason ==
    \A b \in Benchmark :
      /\ \A i \in 1..(Len(result[b]) - 1) : ShouldRetry(result[b][i])
      /\ Len(result[b]) <= max_run_count[b]
      /\ pc[b] = "done" =>
           \/ event
           \/ Len(result[b]) = max_run_count[b]
           \/ result[b] # << >> /\ ~ShouldRetry(Last(result[b]))

\* Once a Ctrl-C or a failure with --stop_after_benchmark_failure has stopped
\* the run, no process begins more than the one attempt it had already
\* decided on; in a series, where nobody else can set the event in between,
\* none at all.
StopStops ==
    \A b \in Benchmark : late[b] <= (IF FLAGS[b].parallel THEN 1 ELSE 0)

CapacityErrors == {"UNSUPPORTED", "INSUFFICIENT_CAPACITY"}

\* As long as a benchmark fails for lack of capacity, it goes to a zone it
\* has already tried only after all zones of its region with its machine
\* types were tried.
CapacityTriesAllZones ==
    \A b \in Benchmark :
      /\ FLAGS[b].capacity
      /\ \A i \in 1..Len(result[b]) : result[b][i].substatus \in CapacityErrors
      /\ \E i, j \in 1..Len(used[b]) : i # j /\ used[b][i] = used[b][j]
      => ZonesInRegion(RegionOf[original_zone[b]]) \cap Supported
           \subseteq ToSet(used[b])

\* Every benchmark comes to an end, and so does the run.
AllFinish == <>Done
=============================================================================
