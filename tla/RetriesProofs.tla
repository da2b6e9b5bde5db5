--------------------------- MODULE RetriesProofs ----------------------------
(***************************************************************************)
(* Retries for every number of benchmarks and of retries, every set of     *)
(* zones and regions, and all settings of the flags: a benchmark is given  *)
(* up for a reason only, a stop is obeyed, and capacity errors try every   *)
(* zone of the region before one is tried again.                           *)
(***************************************************************************)
EXTENDS Retries, SequenceTheorems, FiniteSetTheorems, TLAPS

\* Once its ZoneRetryManager is made, a benchmark has a real zone, and a
\* manager that will be asked for another one knows where it began.
ZoneKnown(b) ==
    pc[b] # "new" => /\ FLAGS[b].zone \in Zone
                     /\ Smart(FLAGS[b]) => original_zone[b] \in Zone

\* --run_processes is the same for all of them.
ModeShared == \A b, c \in Benchmark : FLAGS[b].parallel = FLAGS[c].parallel

TypeInv == TypeOK /\ ModeShared /\ \A b \in Benchmark : ZoneKnown(b)

\* What the constants are, in the form the steps use.
LEMMA ConstantFacts ==
    /\ Supported \subseteq Zone /\ Supported # {} /\ AnyZone \notin Zone
    /\ Cardinality(Supported) \in Nat
    /\ \A z \in Zone : RegionOf[z] \in {RegionOf[y] : y \in Zone}
BY RetriesAssumption, FS_CardinalityType

\* _ChooseAndSetNewZone picks a zone of the cloud.
LEMMA ChosenZone ==
    ASSUME TypeInv, NEW b \in Benchmark, pc[b] # "new", Smart(FLAGS[b]),
           NEW possible \in SUBSET Zone, ChooseAndSetNewZone(b, possible)
    PROVE  /\ FLAGS' \in [Benchmark -> FlagsType]
           /\ FLAGS'[b].zone \in Zone
           /\ \A c \in Benchmark \ {b} : FLAGS'[c] = FLAGS[c]
           /\ FLAGS'[b] = [FLAGS[b] EXCEPT !.zone = FLAGS'[b].zone]
           /\ zones_tried' \in [Benchmark -> SUBSET Zone]
<1> DEFINE tried == zones_tried[b] \cup {FLAGS[b].zone}
           to_try == possible \ tried
<1>1. PICK z \in IF to_try = {} THEN {original_zone[b]} ELSE to_try :
         /\ FLAGS' = [FLAGS EXCEPT ![b].zone = z]
         /\ zones_tried' = [zones_tried EXCEPT ![b] =
                              IF to_try = {} THEN {} ELSE tried]
  BY DEF ChooseAndSetNewZone
<1>2. z \in Zone /\ tried \subseteq Zone
  BY <1>1 DEF TypeInv, TypeOK, ZoneKnown
<1>3. FLAGS \in [Benchmark -> FlagsType]
  BY DEF TypeInv, TypeOK
<1>4. FLAGS[b] \in FlagsType
  BY <1>3
<1>5. [FLAGS[b] EXCEPT !.zone = z] \in FlagsType
  BY <1>2, <1>4 DEF FlagsType
<1>6. FLAGS' = [FLAGS EXCEPT ![b] = [FLAGS[b] EXCEPT !.zone = z]]
  BY <1>1, <1>3
<1>7. FLAGS'[b] = [FLAGS[b] EXCEPT !.zone = z] /\ FLAGS'[b].zone = z
  BY <1>3, <1>4, <1>6 DEF FlagsType
<1>8. zones_tried' \in [Benchmark -> SUBSET Zone]
  BY <1>1, <1>2 DEF TypeInv, TypeOK
<1> QED
  BY <1>2, <1>3, <1>5, <1>6, <1>7, <1>8

\* A retry, smart or not, leaves the benchmark with a zone of the cloud and
\* changes no other flag.
LEMMA RetryKeepsFlags ==
    ASSUME TypeInv, NEW b \in Benchmark, HandleSmartRetries(b)
    PROVE  /\ FLAGS' \in [Benchmark -> FlagsType]
           /\ FLAGS'[b].zone \in Zone
           /\ \A c \in Benchmark \ {b} : FLAGS'[c] = FLAGS[c]
           /\ FLAGS'[b] = [FLAGS[b] EXCEPT !.zone = FLAGS'[b].zone]
           /\ zones_tried' \in [Benchmark -> SUBSET Zone]
           /\ regions_tried' \in [Benchmark -> SUBSET {RegionOf[z] : z \in Zone}]
<1> DEFINE Kept ==
           /\ FLAGS' \in [Benchmark -> FlagsType]
           /\ FLAGS'[b].zone \in Zone
           /\ \A c \in Benchmark \ {b} : FLAGS'[c] = FLAGS[c]
           /\ FLAGS'[b] = [FLAGS[b] EXCEPT !.zone = FLAGS'[b].zone]
           /\ zones_tried' \in [Benchmark -> SUBSET Zone]
           Regions == {RegionOf[z] : z \in Zone}
<1>1. pc[b] # "new" /\ FLAGS[b].zone \in Zone
  BY DEF HandleSmartRetries, TypeInv, ZoneKnown
<1>2. CASE FLAGS[b].quota /\ AssignZoneToNewRegion(b)
  <2> DEFINE tried == regions_tried[b] \cup {RegionOf[FLAGS[b].zone]}
             to_try == {RegionOf[z] : z \in Supported} \ tried
  <2>1. PICK region \in IF to_try = {} THEN {RegionOf[original_zone[b]]} ELSE to_try :
          /\ regions_tried' = [regions_tried EXCEPT ![b] =
                                 IF to_try = {} THEN {} ELSE tried]
          /\ ChooseAndSetNewZone(b, ZonesInRegion(region))
    BY <1>2 DEF AssignZoneToNewRegion
  <2>2. ZonesInRegion(region) \in SUBSET Zone
    BY DEF ZonesInRegion
  <2>3. Kept
    BY <1>1, <1>2, <2>1, <2>2, ChosenZone DEF Smart
  <2>4. tried \in SUBSET Regions
    BY <1>1, ConstantFacts DEF TypeInv, TypeOK
  <2>5. regions_tried' \in [Benchmark -> SUBSET Regions]
    BY <2>1, <2>4 DEF TypeInv, TypeOK
  <2> QED
    BY <2>3, <2>5
<1>3. CASE FLAGS[b].capacity /\ AssignZoneToSameRegion(b)
  <2>1. ZonesInRegion(RegionOf[original_zone[b]]) \cap Supported \in SUBSET Zone
    BY DEF ZonesInRegion
  <2>2. Kept
    BY <1>1, <1>3, <2>1, ChosenZone DEF Smart, AssignZoneToSameRegion
  <2> QED
    BY <1>3, <2>2 DEF AssignZoneToSameRegion, TypeInv, TypeOK
<1>4. CASE UNCHANGED <<FLAGS, zones_tried, regions_tried>>
  <2>1. FLAGS[b] \in FlagsType
    BY DEF TypeInv, TypeOK
  <2>2. FLAGS[b] = [FLAGS[b] EXCEPT !.zone = FLAGS[b].zone]
    BY <2>1 DEF FlagsType
  <2> QED
    BY <1>1, <1>4, <2>2 DEF TypeInv, TypeOK
<1> QED
  BY <1>2, <1>3, <1>4 DEF HandleSmartRetries

\* The flags a benchmark starts with: typed, with a real zone, and parallel
\* as before.
LEMMA StartedFlags ==
    ASSUME TypeInv, NEW b \in Benchmark, StartTask(b)
    PROVE  /\ FLAGS' \in [Benchmark -> FlagsType]
           /\ FLAGS'[b].zone \in Zone
           /\ FLAGS'[b].parallel = FLAGS[b].parallel
           /\ \A c \in Benchmark \ {b} : FLAGS'[c] = FLAGS[c]
           /\ original_zone' \in [Benchmark -> Zone \cup {AnyZone}]
           /\ Smart(FLAGS'[b]) => original_zone'[b] \in Zone
           /\ \A c \in Benchmark \ {b} : original_zone'[c] = original_zone[c]
           /\ max_run_count' \in [Benchmark -> Nat]
           /\ max_run_count'[b] > 0
           /\ \A c \in Benchmark \ {b} : max_run_count'[c] = max_run_count[c]
<1>0. PICK inherited \in Inherited(b) :
        LET f == CheckFlag(inherited)
            g == IF f.zone = AnyZone /\ f.retries < 1
                 THEN [f EXCEPT !.retries = Cardinality(Supported)] ELSE f
        IN \E z \in IF f.zone = AnyZone THEN Supported ELSE {f.zone} :
             /\ FLAGS' = [FLAGS EXCEPT ![b] = [g EXCEPT !.zone = z]]
             /\ original_zone' = IF Smart(g) THEN [original_zone EXCEPT ![b] = z]
                                             ELSE original_zone
             /\ max_run_count' = [max_run_count EXCEPT ![b] = 1 + g.retries]
  BY DEF StartTask
<1> DEFINE f == CheckFlag(inherited)
           g == IF f.zone = AnyZone /\ f.retries < 1
                THEN [f EXCEPT !.retries = Cardinality(Supported)] ELSE f
<1>1. inherited \in FlagsType /\ inherited.parallel = FLAGS[b].parallel
  <2>1. \E c \in Benchmark : inherited = FLAGS[c]
    <3>1. b - 1 \in Nat /\ (b # 1 => b - 1 \in Benchmark) /\ 1 \in Benchmark
          /\ 1..(b - 1) \subseteq Benchmark
      BY RetriesAssumption DEF Benchmark
    <3>2. CASE FLAGS[b].parallel
      BY <1>0, <3>1, <3>2 DEF Inherited
    <3>3. CASE ~FLAGS[b].parallel
      BY <1>0, <3>1, <3>3 DEF Inherited
    <3> QED
      BY <3>2, <3>3
  <2> QED
    BY <2>1 DEF TypeInv, TypeOK, ModeShared
<1>2. f \in FlagsType /\ f.parallel = FLAGS[b].parallel
  BY <1>1 DEF CheckFlag, FlagsType
<1>3. g \in FlagsType /\ g.zone = f.zone /\ g.parallel = f.parallel
  BY <1>2, ConstantFacts DEF FlagsType
<1>4. PICK z \in IF f.zone = AnyZone THEN Supported ELSE {f.zone} :
        /\ FLAGS' = [FLAGS EXCEPT ![b] = [g EXCEPT !.zone = z]]
        /\ original_zone' = IF Smart(g) THEN [original_zone EXCEPT ![b] = z]
                                        ELSE original_zone
        /\ max_run_count' = [max_run_count EXCEPT ![b] = 1 + g.retries]
  BY <1>0
<1>5. z \in Zone
  BY <1>2, <1>4, ConstantFacts DEF FlagsType
<1> DEFINE h == [g EXCEPT !.zone = z]
<1>6. /\ h \in FlagsType /\ h.zone = z /\ h.parallel = FLAGS[b].parallel
      /\ Smart(h) = Smart(g) /\ g.retries \in Nat
  BY <1>2, <1>3, <1>5 DEF FlagsType, Smart
<1> HIDE DEF g, h
<1>7. /\ FLAGS' \in [Benchmark -> FlagsType] /\ FLAGS'[b] = h
      /\ \A c \in Benchmark \ {b} : FLAGS'[c] = FLAGS[c]
  BY <1>4, <1>6 DEF h, TypeInv, TypeOK
<1>8. /\ original_zone' \in [Benchmark -> Zone \cup {AnyZone}]
      /\ Smart(g) => original_zone'[b] \in Zone
      /\ \A c \in Benchmark \ {b} : original_zone'[c] = original_zone[c]
  BY <1>4, <1>5 DEF TypeInv, TypeOK
<1>9. /\ max_run_count' \in [Benchmark -> Nat] /\ max_run_count'[b] > 0
      /\ \A c \in Benchmark \ {b} : max_run_count'[c] = max_run_count[c]
  BY <1>4, <1>6 DEF TypeInv, TypeOK
<1> QED
  BY <1>5, <1>6, <1>7, <1>8, <1>9

\* Every step keeps the types, the mode, and real zones.
LEMMA TypeInductive == TypeInv /\ [Next]_vars => TypeInv'
<1> SUFFICES ASSUME TypeInv, [Next]_vars PROVE TypeInv'
  OBVIOUS
<1>1. ASSUME NEW b \in Benchmark, StartTask(b) PROVE TypeInv'
  <2>1. TypeOK'
    BY <1>1, StartedFlags DEF StartTask, TypeInv, TypeOK
  <2>2. ModeShared'
    BY <1>1, StartedFlags DEF TypeInv, ModeShared
  <2>3. ASSUME NEW c \in Benchmark PROVE ZoneKnown(c)'
    <3>1. CASE c = b
      BY <1>1, <3>1, StartedFlags DEF ZoneKnown
    <3>2. CASE c # b
      BY <1>1, <3>2, StartedFlags DEF StartTask, TypeInv, TypeOK, ZoneKnown, Smart
    <3> QED
      BY <3>1, <3>2
  <2> QED
    BY <2>1, <2>2, <2>3 DEF TypeInv
<1>2. ASSUME NEW b \in Benchmark, CheckEvent(b) PROVE TypeInv'
  BY <1>2 DEF CheckEvent, manager, TypeInv, TypeOK, ModeShared, ZoneKnown, Smart
<1>3. ASSUME NEW b \in Benchmark, Begin(b) PROVE TypeInv'
  <2>1. FLAGS[b].zone \in Zone
    BY <1>3 DEF Begin, TypeInv, ZoneKnown
  <2>2. Append(used[b], FLAGS[b].zone) \in Seq(Zone)
    BY <2>1 DEF TypeInv, TypeOK
  <2>3. used' \in [Benchmark -> Seq(Zone)]
    BY <1>3, <2>2 DEF Begin, TypeInv, TypeOK
  <2> QED
    BY <1>3, <2>3
    DEF Begin, manager, TypeInv, TypeOK, ModeShared, ZoneKnown, Smart
<1>4. ASSUME NEW b \in Benchmark, NEW o \in Outcomes, Finish(b, o) PROVE TypeInv'
  <2>1. Append(result[b], o) \in Seq(Outcomes)
    BY DEF TypeInv, TypeOK
  <2>2. result' \in [Benchmark -> Seq(Outcomes)]
    BY <1>4, <2>1 DEF Finish, TypeInv, TypeOK
  <2>3. event' \in BOOLEAN
    BY <1>4 DEF Finish
  <2>4. /\ pc' \in [Benchmark -> {"new", "check", "run", "running", "retry", "done"}]
        /\ \A c \in Benchmark : pc'[c] # "new" => pc[c] # "new"
    BY <1>4 DEF Finish, TypeInv, TypeOK
  <2>5. UNCHANGED <<FLAGS, count, max_run_count, zones_tried, regions_tried,
                    original_zone, used, late>>
    BY <1>4 DEF Finish, manager
  <2> QED
    BY <2>2, <2>3, <2>4, <2>5 DEF TypeInv, TypeOK, ModeShared, ZoneKnown, Smart
<1>5. ASSUME NEW b \in Benchmark, HandleSmartRetries(b) PROVE TypeInv'
  <2>1. FLAGS[b] \in FlagsType /\ FLAGS'[b] \in FlagsType
    BY <1>5, RetryKeepsFlags DEF TypeInv, TypeOK
  <2>2. /\ FLAGS'[b].parallel = FLAGS[b].parallel
        /\ Smart(FLAGS'[b]) = Smart(FLAGS[b])
    BY <1>5, <2>1, RetryKeepsFlags DEF FlagsType, Smart
  <2>3. TypeOK'
    <3>1. UNCHANGED <<event, max_run_count, original_zone, result, used, late>>
      BY <1>5 DEF HandleSmartRetries
    <3>2. /\ count' = [count EXCEPT ![b] = @ + 1]
          /\ pc' = [pc EXCEPT ![b] = "check"]
      BY <1>5 DEF HandleSmartRetries
    <3>3. /\ FLAGS' \in [Benchmark -> FlagsType]
          /\ zones_tried' \in [Benchmark -> SUBSET Zone]
          /\ regions_tried' \in [Benchmark -> SUBSET {RegionOf[z] : z \in Zone}]
      BY <1>5, RetryKeepsFlags
    <3>4. /\ count' \in [Benchmark -> Nat]
          /\ pc' \in [Benchmark -> {"new", "check", "run", "running", "retry", "done"}]
      BY <3>2 DEF TypeInv, TypeOK
    <3> QED
      BY <3>1, <3>3, <3>4 DEF TypeInv, TypeOK
  <2>4. ModeShared'
    <3>1. \A c \in Benchmark : FLAGS'[c].parallel = FLAGS[c].parallel
      BY <1>5, <2>2, RetryKeepsFlags
    <3> QED
      BY <3>1 DEF TypeInv, ModeShared
  <2>5. ASSUME NEW c \in Benchmark PROVE ZoneKnown(c)'
    <3>1. /\ pc[b] = "retry" /\ pc' = [pc EXCEPT ![b] = "check"]
          /\ original_zone' = original_zone
      BY <1>5 DEF HandleSmartRetries
    <3>2. CASE c = b
      BY <1>5, <2>2, <3>1, <3>2, RetryKeepsFlags DEF ZoneKnown, TypeInv
    <3>3. CASE c # b
      BY <1>5, <3>1, <3>3, RetryKeepsFlags DEF TypeInv, TypeOK, ZoneKnown, Smart
    <3> QED
      BY <3>2, <3>3
  <2> QED
    BY <2>3, <2>4, <2>5 DEF TypeInv
<1>6. CASE UNCHANGED vars
  BY <1>6 DEF vars, manager, TypeInv, TypeOK, ModeShared, ZoneKnown, Smart
<1> QED
  BY <1>1, <1>2, <1>3, <1>4, <1>5, <1>6 DEF Next, Step

\* The types hold before the first attempt.
LEMMA TypeInit == Init => TypeInv
<1> SUFFICES ASSUME Init PROVE TypeInv
  OBVIOUS
<1>1. PICK f \in StartFlags : FLAGS = [b \in Benchmark |-> f]
  BY DEF Init
<1>2. f \in FlagsType
  BY RetriesAssumption
<1>3. << >> \in Seq(Outcomes) /\ << >> \in Seq(Zone)
  OBVIOUS
<1> QED
  BY <1>1, <1>2, <1>3 DEF Init, TypeInv, TypeOK, ModeShared, ZoneKnown

\* Flags, counters, zones and results of every benchmark keep their types.
THEOREM TypeCorrect == Spec => []TypeOK
<1>1. TypeInv => TypeOK
  BY DEF TypeInv
<1> QED
  BY <1>1, TypeInit, TypeInductive, PTL DEF Spec

-----------------------------------------------------------------------------
(***************************************************************************)
(* Given up for a reason.  The counter, which the loop compares with its   *)
(* bound, is the number of attempts made; all of them failed in a way that *)
(* is retried as long as the loop goes on.                                 *)
(***************************************************************************)
Failed(b) == \A i \in 1..Len(result[b]) : ShouldRetry(result[b][i])

GivenUp(b) ==
    /\ \A i \in 1..(Len(result[b]) - 1) : ShouldRetry(result[b][i])
    /\ Len(result[b]) <= max_run_count[b]
    /\ pc[b] = "done" =>
         \/ event
         \/ Len(result[b]) = max_run_count[b]
         \/ result[b] # << >> /\ ~ShouldRetry(Last(result[b]))

AttemptsCounted(b) ==
    /\ pc[b] = "new" => result[b] = << >> /\ count[b] = 0
    /\ pc[b] \in {"check", "run", "running"} =>
         Failed(b) /\ Len(result[b]) = count[b] /\ count[b] < max_run_count[b]
    /\ pc[b] = "retry" =>
         /\ Failed(b)
         /\ Len(result[b]) = count[b] + 1 /\ count[b] + 1 < max_run_count[b]

ReasonInv == TypeInv /\ \A b \in Benchmark : AttemptsCounted(b) /\ GivenUp(b)

\* An appended element is the last one; the others stay.
LEMMA Appended ==
    ASSUME NEW S, NEW s \in Seq(S), NEW e \in S
    PROVE  LET t == Append(s, e)
           IN  /\ Len(t) = Len(s) + 1 /\ Last(t) = e /\ t # << >>
               /\ \A i \in 1..Len(s) : t[i] = s[i]
               /\ t[Len(s) + 1] = e
BY DEF Last

\* What the other benchmarks' invariant speaks of is theirs alone, except the
\* event, which is never cleared.
LEMMA OthersReason ==
    ASSUME NEW c \in Benchmark, AttemptsCounted(c), GivenUp(c),
           pc'[c] = pc[c], result'[c] = result[c], count'[c] = count[c],
           max_run_count'[c] = max_run_count[c], event => event'
    PROVE  AttemptsCounted(c)' /\ GivenUp(c)'
BY DEF AttemptsCounted, GivenUp, Failed

\* Every step keeps the account of attempts and the reasons to give up.
LEMMA ReasonInductive == ReasonInv /\ [Next]_vars => ReasonInv'
<1> SUFFICES ASSUME ReasonInv, [Next]_vars PROVE ReasonInv'
  OBVIOUS
<1> DEFINE Kept(c) == AttemptsCounted(c) /\ GivenUp(c)
<1>0. TypeInv /\ TypeInv' /\ TypeOK /\ TypeOK'
  BY TypeInductive DEF ReasonInv, TypeInv
<1>1. ASSUME NEW b \in Benchmark, Step(b), NEW c \in Benchmark, c # b
      PROVE  Kept(c)'
  <2>1. Kept(c)
    BY DEF ReasonInv
  <2>2. CASE StartTask(b)
    BY <1>0, <1>1, <2>1, <2>2, OthersReason, StartedFlags DEF StartTask, TypeOK
  <2>3. CASE CheckEvent(b)
    BY <1>0, <1>1, <2>1, <2>3, OthersReason DEF CheckEvent, TypeOK
  <2>4. CASE Begin(b)
    BY <1>0, <1>1, <2>1, <2>4, OthersReason DEF Begin, TypeOK
  <2>5. ASSUME NEW o \in Outcomes, Finish(b, o) PROVE Kept(c)'
    BY <1>0, <1>1, <2>1, <2>5, OthersReason DEF Finish, TypeOK
  <2>6. CASE HandleSmartRetries(b)
    BY <1>0, <1>1, <2>1, <2>6, OthersReason DEF HandleSmartRetries, TypeOK
  <2> QED
    BY <1>1, <2>2, <2>3, <2>4, <2>5, <2>6 DEF Step
<1>2. ASSUME NEW b \in Benchmark, Step(b) PROVE Kept(b)'
  <2>1. AttemptsCounted(b) /\ GivenUp(b) /\ result[b] \in Seq(Outcomes)
    BY <1>0 DEF ReasonInv, TypeOK
  <2>2. CASE StartTask(b)
    <3>1. /\ pc[b] = "new" /\ pc'[b] = "check" /\ result'[b] = result[b]
          /\ count'[b] = count[b] /\ max_run_count'[b] > 0
          /\ max_run_count'[b] \in Nat
      BY <1>0, <2>2, StartedFlags DEF StartTask, TypeOK
    <3> QED
      BY <2>1, <3>1 DEF AttemptsCounted, GivenUp, Failed
  <2>3. CASE CheckEvent(b)
    BY <1>0, <2>1, <2>3 DEF CheckEvent, TypeOK, AttemptsCounted, GivenUp, Failed
  <2>4. CASE Begin(b)
    BY <1>0, <2>1, <2>4 DEF Begin, TypeOK, AttemptsCounted, GivenUp, Failed
  <2>5. ASSUME NEW o \in Outcomes, Finish(b, o) PROVE Kept(b)'
    <3> DEFINE stop == \/ o.raised = "interrupt"
                       \/ o.raised = "exception" /\ FLAGS[b].stop
               go_on == ~stop /\ ShouldRetry(o) /\ count[b] # max_run_count[b] - 1
    <3>1. /\ pc[b] = "running" /\ pc'[b] = (IF go_on THEN "retry" ELSE "done")
          /\ event' = (event \/ stop) /\ result'[b] = Append(result[b], o)
          /\ count'[b] = count[b] /\ max_run_count'[b] = max_run_count[b]
      BY <1>0, <2>5 DEF Finish, TypeOK
    <3>2. /\ Failed(b) /\ Len(result[b]) = count[b] /\ count[b] < max_run_count[b]
          /\ count[b] \in Nat /\ max_run_count[b] \in Nat
      BY <1>0, <2>1, <3>1 DEF AttemptsCounted, TypeOK
    <3>3. /\ Len(result'[b]) = count[b] + 1 /\ Last(result'[b]) = o
          /\ result'[b] # << >>
          /\ \A i \in 1..count[b] : result'[b][i] = result[b][i]
          /\ result'[b][count[b] + 1] = o
      BY <2>1, <3>1, <3>2, Appended
    <3>4. \A i \in 1..(Len(result'[b]) - 1) : ShouldRetry(result'[b][i])
      BY <3>2, <3>3 DEF Failed
    <3>5. CASE go_on
      <4>1. Failed(b)'
        BY <3>2, <3>3, <3>4, <3>5 DEF Failed
      <4> QED
        BY <3>1, <3>2, <3>3, <3>4, <3>5, <4>1 DEF AttemptsCounted, GivenUp
    <3>6. CASE ~go_on
      <4>1. \/ event'
            \/ Len(result'[b]) = max_run_count'[b]
            \/ result'[b] # << >> /\ ~ShouldRetry(Last(result'[b]))
        <5>1. event' <=> event \/ stop
          BY <3>1
        <5>2. CASE stop
          BY <5>1, <5>2
        <5>3. CASE ~ShouldRetry(o)
          BY <3>3, <5>3
        <5>4. CASE count[b] = max_run_count[b] - 1
          BY <3>1, <3>2, <3>3, <5>4
        <5> QED
          BY <3>6, <5>2, <5>3, <5>4
      <4> QED
        BY <3>1, <3>2, <3>3, <3>4, <3>6, <4>1 DEF AttemptsCounted, GivenUp
    <3> QED
      BY <3>5, <3>6
  <2>6. CASE HandleSmartRetries(b)
    <3>1. /\ pc[b] = "retry" /\ pc'[b] = "check" /\ result'[b] = result[b]
          /\ count'[b] = count[b] + 1 /\ max_run_count'[b] = max_run_count[b]
      BY <1>0, <2>6 DEF HandleSmartRetries, TypeOK
    <3> QED
      BY <2>1, <3>1 DEF AttemptsCounted, GivenUp, Failed
  <2> QED
    BY <1>2, <2>2, <2>3, <2>4, <2>5, <2>6 DEF Step
<1>3. CASE UNCHANGED vars
  BY <1>0, <1>3 DEF vars, ReasonInv, AttemptsCounted, GivenUp, Failed
<1>4. ASSUME NEW b \in Benchmark, Step(b) PROVE ReasonInv'
  BY <1>0, <1>1, <1>2, <1>4 DEF ReasonInv
<1> QED
  BY <1>3, <1>4 DEF Next

\* RunBenchmarkTask gives a benchmark up only when its last attempt is not one
\* to retry, its attempts are used up, or everything was told to stop, and all
\* its earlier attempts failed in a way that is retried.
THEOREM GivingUpSound == Spec => []GivenUpForAReason
<1>1. Init => ReasonInv
  <2> SUFFICES ASSUME Init PROVE ReasonInv
    OBVIOUS
  <2>1. TypeInv
    BY TypeInit
  <2>2. ASSUME NEW b \in Benchmark PROVE AttemptsCounted(b) /\ GivenUp(b)
    BY DEF Init, AttemptsCounted, GivenUp
  <2> QED
    BY <2>1, <2>2 DEF ReasonInv
<1>2. ReasonInv => GivenUpForAReason
  BY DEF ReasonInv, GivenUp, GivenUpForAReason
<1> QED
  BY <1>1, <1>2, ReasonInductive, PTL DEF Spec

-----------------------------------------------------------------------------
(***************************************************************************)
(* A stop is obeyed.  In a series at most one benchmark is between its     *)
(* start and its end, so that the event is never set behind the back of    *)
(* one that has just looked at it.                                         *)
(***************************************************************************)
InTurn ==
    \A b \in Benchmark :
      ~FLAGS[b].parallel /\ pc[b] # "new" =>
        \A c \in Benchmark : c < b => pc[c] = "done"

LateOnce(b) ==
    /\ late[b] <= (IF FLAGS[b].parallel THEN 1 ELSE 0)
    /\ late[b] > 0 => event /\ pc[b] # "run"
    /\ event /\ ~FLAGS[b].parallel => pc[b] # "run"

StopInv == TypeInv /\ InTurn /\ \A b \in Benchmark : LateOnce(b)

\* Every step keeps the account of attempts begun after the event.
LEMMA StopInductive == StopInv /\ [Next]_vars => StopInv'
<1> SUFFICES ASSUME StopInv, [Next]_vars PROVE StopInv'
  OBVIOUS
<1>0. TypeInv /\ TypeInv' /\ TypeOK /\ TypeOK' /\ ModeShared
  BY TypeInductive DEF StopInv, TypeInv
<1> USE <1>0
<1> DEFINE SameMode == \A c \in Benchmark : FLAGS'[c].parallel = FLAGS[c].parallel
<1>1. ASSUME NEW b \in Benchmark, StartTask(b) PROVE StopInv'
  <2>1. SameMode
    BY <1>1, StartedFlags
  <2>2. pc[b] = "new" /\ pc' = [pc EXCEPT ![b] = "check"] /\ UNCHANGED <<event, late>>
    BY <1>1 DEF StartTask
  <2>3. ~FLAGS[b].parallel => \A c \in Benchmark : c < b => pc[c] = "done"
    BY <1>1, RetriesAssumption DEF StartTask, MayStart, Benchmark
  <2>4. InTurn'
    <3>1. \A c \in Benchmark : pc'[c] = IF c = b THEN "check" ELSE pc[c]
      BY <2>2 DEF TypeOK
    <3> QED
      BY <2>1, <2>2, <2>3, <3>1, RetriesAssumption DEF StopInv, InTurn, Benchmark
  <2>5. \A c \in Benchmark : LateOnce(c)'
    BY <2>1, <2>2 DEF StopInv, LateOnce, TypeOK
  <2> QED
    BY <2>4, <2>5 DEF StopInv
<1>2. ASSUME NEW b \in Benchmark, CheckEvent(b) PROVE StopInv'
  <2>1. /\ pc[b] = "check" /\ pc' = [pc EXCEPT ![b] = IF event THEN "done" ELSE "run"]
        /\ UNCHANGED <<FLAGS, event, late>>
    BY <1>2 DEF CheckEvent
  <2>2. InTurn'
    BY <2>1 DEF StopInv, InTurn, TypeOK
  <2>3. \A c \in Benchmark : LateOnce(c)'
    BY <2>1 DEF StopInv, LateOnce, TypeOK
  <2> QED
    BY <2>2, <2>3 DEF StopInv
<1>3. ASSUME NEW b \in Benchmark, Begin(b) PROVE StopInv'
  <2>1. /\ pc[b] = "run" /\ pc' = [pc EXCEPT ![b] = "running"]
        /\ late' = (IF event THEN [late EXCEPT ![b] = @ + 1] ELSE late)
        /\ UNCHANGED <<FLAGS, event>>
    BY <1>3 DEF Begin
  <2>2. InTurn'
    BY <2>1 DEF StopInv, InTurn, TypeOK
  <2>3. ASSUME NEW c \in Benchmark PROVE LateOnce(c)'
    <3>1. LateOnce(c) /\ late[c] \in Nat
      BY DEF StopInv, TypeOK
    <3>2. CASE c = b
      <4>1. late[b] = 0 /\ pc'[b] = "running"
        BY <2>1, <3>1, <3>2 DEF LateOnce, TypeOK
      <4>2. late'[b] = IF event THEN 1 ELSE 0
        BY <2>1, <4>1 DEF TypeOK
      <4> QED
        BY <2>1, <3>1, <3>2, <4>1, <4>2 DEF LateOnce
    <3>3. CASE c # b
      <4>1. pc'[c] = pc[c] /\ late'[c] = late[c]
        BY <2>1, <3>3 DEF TypeOK
      <4> QED
        BY <2>1, <3>1, <4>1 DEF LateOnce
    <3> QED
      BY <3>2, <3>3
  <2> QED
    BY <2>2, <2>3 DEF StopInv
<1>4. ASSUME NEW b \in Benchmark, NEW o \in Outcomes, Finish(b, o) PROVE StopInv'
  <2>1. /\ pc[b] = "running" /\ UNCHANGED <<FLAGS, late>>
        /\ pc'[b] \in {"retry", "done"}
        /\ \A c \in Benchmark \ {b} : pc'[c] = pc[c]
    BY <1>4 DEF Finish, TypeOK
  <2>2. event => event'
    BY <1>4 DEF Finish
  <2>3. InTurn'
    BY <2>1 DEF StopInv, InTurn
  <2>4. ~FLAGS[b].parallel => \A c \in Benchmark : pc'[c] # "run"
    BY <2>1, RetriesAssumption DEF StopInv, InTurn, ModeShared, Benchmark
  <2>5. \A c \in Benchmark : LateOnce(c)'
    BY <2>1, <2>2, <2>4 DEF StopInv, LateOnce, ModeShared, TypeOK
  <2> QED
    BY <2>3, <2>5 DEF StopInv
<1>5. ASSUME NEW b \in Benchmark, HandleSmartRetries(b) PROVE StopInv'
  <2>1. FLAGS[b] \in FlagsType /\ FLAGS'[b] \in FlagsType
    BY DEF TypeOK
  <2>2. FLAGS'[b].parallel = FLAGS[b].parallel
    BY <1>5, <2>1, RetryKeepsFlags DEF FlagsType
  <2>3. SameMode
    BY <1>5, <2>2, RetryKeepsFlags
  <2>4. /\ pc[b] = "retry" /\ pc' = [pc EXCEPT ![b] = "check"]
        /\ UNCHANGED <<event, late>>
    BY <1>5 DEF HandleSmartRetries
  <2>5. InTurn'
    BY <2>3, <2>4 DEF StopInv, InTurn, TypeOK
  <2>6. \A c \in Benchmark : LateOnce(c)'
    BY <2>3, <2>4 DEF StopInv, LateOnce, TypeOK
  <2> QED
    BY <2>5, <2>6 DEF StopInv
<1>6. CASE UNCHANGED vars
  BY <1>6 DEF vars, StopInv, InTurn, LateOnce
<1> QED
  BY <1>1, <1>2, <1>3, <1>4, <1>5, <1>6 DEF Next, Step

\* After _TEARDOWN_EVENT was set no process begins more than the one attempt
\* it had decided on before, and a series of benchmarks begins none.
THEOREM StoppingSound == Spec => []StopStops
<1>1. Init => StopInv
  <2> SUFFICES ASSUME Init PROVE StopInv
    OBVIOUS
  <2>1. TypeInv
    BY TypeInit
  <2>2. InTurn /\ \A b \in Benchmark : LateOnce(b)
    BY DEF Init, InTurn, LateOnce
  <2> QED
    BY <2>1, <2>2 DEF StopInv
<1>2. StopInv => StopStops
  BY DEF StopInv, LateOnce, StopStops
<1> QED
  BY <1>1, <1>2, StopInductive, PTL DEF Spec

-----------------------------------------------------------------------------
(***************************************************************************)
(* Capacity errors.  Until all zones of the region were used, the manager  *)
(* remembers exactly the zones used so far, and each of them once.         *)
(***************************************************************************)
AllCapacity(b) ==
    \A i \in 1..Len(result[b]) : result[b][i].substatus \in CapacityErrors

Candidates(b) == ZonesInRegion(RegionOf[original_zone[b]]) \cap Supported

NoZoneTwice(b) == \A i, j \in 1..Len(used[b]) : used[b][i] = used[b][j] => i = j

Remembered(b) ==
    /\ NoZoneTwice(b)
    /\ pc[b] \in {"check", "run"} => /\ zones_tried[b] = ToSet(used[b])
                                    /\ FLAGS[b].zone \notin ToSet(used[b])
    /\ pc[b] \in {"running", "retry"} =>
         zones_tried[b] \cup {FLAGS[b].zone} = ToSet(used[b])

ZonesRemembered(b) ==
    /\ pc[b] = "new" => used[b] = << >> /\ zones_tried[b] = {}
    /\ pc[b] = "retry" => result[b] # << >>
    /\ FLAGS[b].capacity /\ AllCapacity(b) =>
         Remembered(b) \/ Candidates(b) \subseteq ToSet(used[b])

CapacityInv == TypeInv /\ \A b \in Benchmark : ZonesRemembered(b)

\* What an appended zone adds to the zones of a list.
LEMMA AppendedSet ==
    ASSUME NEW S, NEW s \in Seq(S), NEW e \in S
    PROVE  ToSet(Append(s, e)) = ToSet(s) \cup {e}
<1> DEFINE t == Append(s, e)
<1>1. ToSet(s) = {s[i] : i \in 1..Len(s)} /\ ToSet(t) = {t[i] : i \in 1..Len(t)}
  BY DEF ToSet
<1>2. Len(t) = Len(s) + 1 /\ t[Len(s) + 1] = e /\ \A i \in 1..Len(s) : t[i] = s[i]
  BY Appended
<1>3. Len(s) \in Nat
  OBVIOUS
<1> HIDE DEF t
<1>4. 1..Len(t) = (1..Len(s)) \cup {Len(s) + 1}
  BY <1>2, <1>3
<1>5. {t[i] : i \in 1..Len(t)} = {s[i] : i \in 1..Len(s)} \cup {e}
  BY <1>2, <1>3, <1>4
<1> QED
  BY <1>1, <1>5 DEF t

\* A step of one benchmark leaves the memory of the others alone.
LEMMA OthersRemembered ==
    ASSUME NEW c \in Benchmark, ZonesRemembered(c),
           pc'[c] = pc[c], result'[c] = result[c], used'[c] = used[c],
           FLAGS'[c] = FLAGS[c], zones_tried'[c] = zones_tried[c],
           original_zone'[c] = original_zone[c]
    PROVE  ZonesRemembered(c)'
BY DEF ZonesRemembered, Remembered, NoZoneTwice, AllCapacity, Candidates

\* A step of b leaves the flags, the manager and the attempts of the others.
LEMMA OthersUntouched ==
    ASSUME TypeInv, NEW b \in Benchmark, Step(b), NEW c \in Benchmark, c # b
    PROVE  /\ pc'[c] = pc[c] /\ result'[c] = result[c] /\ used'[c] = used[c]
           /\ FLAGS'[c] = FLAGS[c] /\ zones_tried'[c] = zones_tried[c]
           /\ original_zone'[c] = original_zone[c]
<1>0. TypeOK
  BY DEF TypeInv
<1>1. CASE StartTask(b)
  BY <1>0, <1>1, StartedFlags DEF StartTask, TypeOK
<1>2. CASE CheckEvent(b)
  BY <1>0, <1>2 DEF CheckEvent, manager, TypeOK
<1>3. CASE Begin(b)
  BY <1>0, <1>3 DEF Begin, manager, TypeOK
<1>4. ASSUME NEW o \in Outcomes, Finish(b, o)
      PROVE  /\ pc'[c] = pc[c] /\ result'[c] = result[c] /\ used'[c] = used[c]
             /\ FLAGS'[c] = FLAGS[c] /\ zones_tried'[c] = zones_tried[c]
             /\ original_zone'[c] = original_zone[c]
  BY <1>0, <1>4 DEF Finish, manager, TypeOK
<1>5. CASE HandleSmartRetries(b)
  <2>1. FLAGS'[c] = FLAGS[c]
    BY <1>5, RetryKeepsFlags
  <2>2. zones_tried'[c] = zones_tried[c]
    BY <1>0, <1>5 DEF HandleSmartRetries, AssignZoneToNewRegion,
                      AssignZoneToSameRegion, ChooseAndSetNewZone, TypeOK
  <2> QED
    BY <1>0, <1>5, <2>1, <2>2 DEF HandleSmartRetries, TypeOK
<1> QED
  BY <1>1, <1>2, <1>3, <1>4, <1>5 DEF Step

\* Every step keeps the memory of the zones tried in a region.
LEMMA CapacityInductive == CapacityInv /\ [Next]_vars => CapacityInv'
<1> SUFFICES ASSUME CapacityInv, [Next]_vars PROVE CapacityInv'
  OBVIOUS
<1>0. TypeInv /\ TypeInv' /\ TypeOK /\ TypeOK'
  BY TypeInductive DEF CapacityInv, TypeInv
<1> USE <1>0
<1>1. ASSUME NEW b \in Benchmark, Step(b) PROVE ZonesRemembered(b)'
  <2>1. /\ ZonesRemembered(b)
        /\ result[b] \in Seq(Outcomes) /\ used[b] \in Seq(Zone)
    BY DEF CapacityInv, TypeOK
  <2>2. CASE StartTask(b)
    <3>1. /\ pc[b] = "new" /\ pc'[b] = "check"
          /\ used' = used /\ zones_tried' = zones_tried
      BY <2>2 DEF StartTask, TypeOK
    <3>2. used'[b] = << >> /\ zones_tried'[b] = {}
      BY <2>1, <3>1 DEF ZonesRemembered
    <3>3. ToSet(used'[b]) = {} /\ Len(used'[b]) = 0
      BY <3>2 DEF ToSet
    <3> QED
      BY <3>1, <3>2, <3>3 DEF ZonesRemembered, Remembered, NoZoneTwice
  <2>3. CASE CheckEvent(b)
    <3>1. /\ pc[b] = "check" /\ pc'[b] \in {"run", "done"}
          /\ UNCHANGED <<FLAGS, used, zones_tried, original_zone, result>>
      BY <2>3 DEF CheckEvent, manager, TypeOK
    <3> QED
      BY <2>1, <3>1 DEF ZonesRemembered, Remembered, NoZoneTwice, AllCapacity,
                        Candidates
  <2>4. CASE Begin(b)
    <3>1. /\ pc[b] = "run" /\ pc'[b] = "running"
          /\ used'[b] = Append(used[b], FLAGS[b].zone)
          /\ UNCHANGED <<FLAGS, zones_tried, original_zone, result>>
      BY <2>4 DEF Begin, manager, TypeOK
    <3>2. FLAGS[b].zone \in Zone
      BY <3>1 DEF TypeInv, ZoneKnown
    <3>3. ToSet(used'[b]) = ToSet(used[b]) \cup {FLAGS[b].zone}
      BY <2>1, <3>1, <3>2, AppendedSet
    <3>4. /\ Len(used'[b]) = Len(used[b]) + 1 /\ Len(used[b]) \in Nat
          /\ used'[b][Len(used[b]) + 1] = FLAGS[b].zone
          /\ \A i \in 1..Len(used[b]) : used'[b][i] = used[b][i]
      BY <2>1, <3>1, <3>2, Appended
    <3>5. CASE Remembered(b)
      <4>1. \A i \in 1..Len(used[b]) : used[b][i] # FLAGS[b].zone
        BY <2>1, <3>1, <3>5 DEF Remembered, ToSet
      <4>2. NoZoneTwice(b)'
        <5>1. \A i, j \in 1..Len(used[b]) : used[b][i] = used[b][j] => i = j
          BY <3>5 DEF Remembered, NoZoneTwice
        <5>2. \A i \in 1..Len(used'[b]) :
                i \in 1..Len(used[b]) \/ i = Len(used[b]) + 1
          BY <3>4
        <5>3. ASSUME NEW i \in 1..Len(used'[b]), NEW j \in 1..Len(used'[b]),
                     used'[b][i] = used'[b][j]
              PROVE  i = j
          BY <3>4, <4>1, <5>1, <5>2, <5>3
        <5> QED
          BY <5>3 DEF NoZoneTwice
      <4>3. Remembered(b)'
        BY <3>1, <3>3, <3>5, <4>2 DEF Remembered
      <4> QED
        BY <3>1, <4>3 DEF ZonesRemembered
    <3>6. CASE Candidates(b) \subseteq ToSet(used[b])
      BY <3>1, <3>3, <3>6 DEF ZonesRemembered, Candidates
    <3>7. CASE ~(FLAGS[b].capacity /\ AllCapacity(b))
      BY <3>1, <3>7 DEF ZonesRemembered, AllCapacity
    <3> QED
      BY <2>1, <3>5, <3>6, <3>7 DEF ZonesRemembered
  <2>5. ASSUME NEW o \in Outcomes, Finish(b, o) PROVE ZonesRemembered(b)'
    <3>1. /\ pc[b] = "running" /\ pc'[b] \in {"retry", "done"}
          /\ result'[b] = Append(result[b], o)
          /\ UNCHANGED <<FLAGS, used, zones_tried, original_zone>>
      BY <2>5 DEF Finish, manager, TypeOK
    <3>2. /\ result'[b] # << >> /\ Len(result'[b]) = Len(result[b]) + 1
          /\ Len(result[b]) \in Nat
          /\ \A i \in 1..Len(result[b]) : result'[b][i] = result[b][i]
      BY <2>1, <3>1, Appended
    <3>3. AllCapacity(b)' => AllCapacity(b)
      BY <3>2 DEF AllCapacity
    <3> QED
      BY <2>1, <3>1, <3>2, <3>3 DEF ZonesRemembered, Remembered, NoZoneTwice,
                                    Candidates
  <2>6. CASE HandleSmartRetries(b)
    <3>1. /\ pc[b] = "retry" /\ pc'[b] = "check"
          /\ UNCHANGED <<used, original_zone, result>>
      BY <2>6 DEF HandleSmartRetries, TypeOK
    <3>2. FLAGS'[b].capacity = FLAGS[b].capacity /\ FLAGS[b].capacity \in BOOLEAN
      <4>1. FLAGS[b] \in FlagsType /\ FLAGS'[b] \in FlagsType
        BY DEF TypeOK
      <4> QED
        BY <2>6, <4>1, RetryKeepsFlags DEF FlagsType
    <3>3. SUFFICES ASSUME FLAGS[b].capacity, AllCapacity(b), Remembered(b),
                          ~(Candidates(b) \subseteq ToSet(used[b]))
                   PROVE  Remembered(b)'
      BY <2>1, <3>1, <3>2 DEF ZonesRemembered, AllCapacity, Candidates
    <3>4. Last(result[b]).substatus \in CapacityErrors
      <4>1. result[b] # << >>
        BY <2>1, <3>1 DEF ZonesRemembered
      <4>2. Len(result[b]) \in 1..Len(result[b])
        BY <2>1, <4>1
      <4> QED
        BY <3>3, <4>2 DEF AllCapacity, Last
    <3>5. AssignZoneToSameRegion(b)
      BY <2>6, <3>3, <3>4 DEF HandleSmartRetries, CapacityErrors
    <3> DEFINE tried == zones_tried[b] \cup {FLAGS[b].zone}
               to_try == Candidates(b) \ tried
    <3>6. PICK z \in IF to_try = {} THEN {original_zone[b]} ELSE to_try :
            /\ FLAGS' = [FLAGS EXCEPT ![b].zone = z]
            /\ zones_tried' = [zones_tried EXCEPT ![b] =
                                 IF to_try = {} THEN {} ELSE tried]
      BY <3>5 DEF AssignZoneToSameRegion, ChooseAndSetNewZone, Candidates
    <3>7. tried = ToSet(used[b])
      BY <3>1, <3>3 DEF Remembered
    <3>8. to_try # {}
      BY <3>3, <3>7
    <3>9. zones_tried'[b] = ToSet(used[b]) /\ z \notin ToSet(used[b])
      BY <3>6, <3>7, <3>8 DEF TypeOK
    <3>10. FLAGS'[b].zone = z
      <4>1. FLAGS \in [Benchmark -> FlagsType] /\ FLAGS[b] \in FlagsType
        BY DEF TypeOK
      <4>2. FLAGS'[b] = [FLAGS[b] EXCEPT !.zone = z]
        BY <3>6, <4>1
      <4> QED
        BY <4>1, <4>2 DEF FlagsType
    <3> QED
      BY <3>1, <3>3, <3>9, <3>10 DEF Remembered, NoZoneTwice
  <2> QED
    BY <1>1, <2>2, <2>3, <2>4, <2>5, <2>6 DEF Step
<1>2. ASSUME NEW b \in Benchmark, Step(b), NEW c \in Benchmark, c # b
      PROVE  ZonesRemembered(c)'
  BY <1>2, OthersRemembered, OthersUntouched DEF CapacityInv
<1>3. CASE UNCHANGED vars
  BY <1>3 DEF vars, manager, CapacityInv, ZonesRemembered, Remembered,
              NoZoneTwice, AllCapacity, Candidates
<1>4. ASSUME NEW b \in Benchmark, Step(b) PROVE CapacityInv'
  BY <1>1, <1>2, <1>4 DEF CapacityInv
<1> QED
  BY <1>3, <1>4 DEF Next

\* As long as a benchmark fails for lack of capacity, HandleSmartRetries sends
\* it to a zone it has tried only after every zone of its region with its
\* machine types was tried.
THEOREM CapacitySound == Spec => []CapacityTriesAllZones
<1>1. Init => CapacityInv
  <2> SUFFICES ASSUME Init PROVE CapacityInv
    OBVIOUS
  <2>1. TypeInv
    BY TypeInit
  <2>2. ASSUME NEW b \in Benchmark PROVE ZonesRemembered(b)
    BY DEF Init, ZonesRemembered, Remembered, NoZoneTwice
  <2> QED
    BY <2>1, <2>2 DEF CapacityInv
<1>2. CapacityInv => CapacityTriesAllZones
  BY DEF CapacityInv, ZonesRemembered, Remembered, NoZoneTwice, AllCapacity,
         Candidates, CapacityTriesAllZones
<1> QED
  BY <1>1, <1>2, CapacityInductive, PTL DEF Spec
=============================================================================
