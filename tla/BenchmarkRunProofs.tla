------------------------- MODULE BenchmarkRunProofs -------------------------
(***************************************************************************)
(* What is proved of BenchmarkRun, for any resources, flags and numbers of *)
(* processes and failures: its state keeps its type; a process that ends   *)
(* outside Provision leaves a pickle file that later runs can clean up     *)
(* from; teardown removes what is on record whatever else fails, and after *)
(* a single failure even of its own; what is frozen is on file; a success  *)
(* is complete; networks come before their users and go after them.        *)
(***************************************************************************)
EXTENDS BenchmarkRun, TLAPS

\* A stage that is under way is one of BodyOrder.
InBody == pc \in {"stage", "end_stage"} => at <= Len(BodyOrder)

TypeInv == TypeOK /\ InBody

\* The names that RunBenchmark appends to the list of completed stages.
LEMMA StageNamesFact ==
    /\ "provision" \in StageNames /\ "teardown" \in StageNames
    /\ Len(BodyOrder) = 6
    /\ \A i \in 1..6 : BodyOrder[i] \in StageNames
<1>1. SplitPrepare \subseteq StageNames
  BY DEF StageNames
<1>2. \A i \in 1..5 : STAGES[i] \in StageNames
  BY DEF StageNames, ToSet, STAGES
<1>3. /\ "provision" \in StageNames /\ "prepare" \in StageNames
      /\ "run" \in StageNames /\ "cleanup" \in StageNames
      /\ "teardown" \in StageNames
  BY <1>2 DEF STAGES
<1>4. Len(BodyOrder) = 6
  BY DEF BodyOrder
<1>5. ASSUME NEW i \in 1..6 PROVE BodyOrder[i] \in StageNames
  BY <1>1, <1>3 DEF BodyOrder, SplitPrepare
<1> QED
  BY <1>3, <1>4, <1>5

\* A new spec, its resources and an empty or truncated pickle file have their
\* types.
LEMMA FileTypes ==
    /\ Fresh \in ObjsType /\ NewSpec \in SpecType /\ NoFile \in FileType
    /\ Truncated \in FileType
<1>1. Fresh \in ObjsType
  BY DEF Fresh, ObjsType
<1>2. NewSpec \in SpecType
  BY DEF NewSpec, SpecType, Status
<1> QED
  BY <1>1, <1>2 DEF Truncated, NoFile, FileType

\* Before the first process everything has its type.
LEMMA TypeInit == Init => TypeInv
<1> SUFFICES ASSUME Init PROVE TypeInv
  OBVIOUS
<1>1. hist \in HistType
  <2>1. << >> \in Seq(StageNames)
    OBVIOUS
  <2>2. {} \in SUBSET Present
    OBVIOUS
  <2>3. hist = [runs |-> 0, faults |-> 0, here |-> 0, caught |-> FALSE,
                done |-> << >>, froze |-> {}, swallowed |-> {},
                undeleted |-> FALSE, lost |-> FALSE]
    BY DEF Init
  <2> QED
    BY <2>1, <2>2, <2>3 DEF HistType
<1>2. should_teardown \in BOOLEAN /\ preempted \in BOOLEAN
  BY DEF Init
<1>3. spec \in SpecType /\ objs \in ObjsType /\ file \in FileType /\ frozen \in FileType
  BY FileTypes DEF Init
<1>4. /\ flags \in Flags /\ pc \in Labels /\ at \in Nat \ {0}
      /\ ret \in {"teardown", "except", "finally"} /\ exc \in Status
      /\ checker \in {"none", "running", "orphan"}
      /\ samples \subseteq Status /\ cloud \subseteq Present
  BY DEF Init, Labels, Status
<1>5. InBody
  BY DEF Init, InBody
<1> QED
  BY <1>1, <1>2, <1>3, <1>4, <1>5 DEF TypeInv, TypeOK

-----------------------------------------------------------------------------
(***************************************************************************)
(* What the pieces of actions do to the types.                             *)
(***************************************************************************)
\* Labels that are not inside a stage, where `at` is bounded.
Outside == Labels \ {"stage", "end_stage"}

\* The notes that actions take in hist keep its type ...
LEMMA HistFact ==
    ASSUME NEW h \in HistType
    PROVE  /\ [h EXCEPT !.lost = TRUE] \in HistType
           /\ [h EXCEPT !.undeleted = TRUE] \in HistType
           /\ [h EXCEPT !.caught = TRUE] \in HistType
           /\ \A S \in SUBSET Present :
                /\ [h EXCEPT !.swallowed = @ \cup S] \in HistType
                /\ [h EXCEPT !.froze = @ \cup S] \in HistType
<1>1. [h EXCEPT !.lost = TRUE] \in HistType
  BY DEF HistType
<1>2. [h EXCEPT !.undeleted = TRUE] \in HistType
  BY DEF HistType
<1>3. [h EXCEPT !.caught = TRUE] \in HistType
  BY DEF HistType
<1>4. ASSUME NEW S \in SUBSET Present
      PROVE  [h EXCEPT !.froze = @ \cup S] \in HistType
  BY DEF HistType
<1>5. ASSUME NEW S \in SUBSET Present
      PROVE  [h EXCEPT !.swallowed = @ \cup S] \in HistType
  BY DEF HistType
<1> QED
  BY <1>1, <1>2, <1>3, <1>4, <1>5

\* ... the one that a resource may have been frozen, which changes nothing else ...
LEMMA FrozeFact ==
    ASSUME hist \in HistType, NEW r \in Present
    PROVE  /\ Froze(r) \in HistType
           /\ Froze(r).froze \subseteq hist.froze \cup {r}
           /\ ~Freezes(r) => Froze(r).froze = hist.froze
           /\ \A f \in {"runs", "faults", "here", "caught", "done", "swallowed",
                       "undeleted", "lost"} : Froze(r)[f] = hist[f]
<1> DEFINE S == IF Freezes(r) THEN {r} ELSE {}
<1>1. S \in SUBSET Present /\ S \subseteq {r} /\ (~Freezes(r) => S = {})
  OBVIOUS
<1>2. Froze(r) = [hist EXCEPT !.froze = hist.froze \cup S]
  BY DEF Froze
<1> HIDE DEF S
<1>3. Froze(r) \in HistType
  BY <1>1, <1>2, HistFact
<1> QED
  BY <1>1, <1>2, <1>3 DEF HistType

\* ... a completed stage too ...
LEMMA DoneFact ==
    ASSUME NEW h \in HistType, NEW s \in StageNames
    PROVE  [h EXCEPT !.done = Append(@, s)] \in HistType
<1>1. Append(h.done, s) \in Seq(StageNames)
  BY DEF HistType
<1> QED
  BY <1>1 DEF HistType

\* ... and so does counting a failure, which loses no file.
LEMMA FaultFact ==
    ASSUME NEW h \in HistType, Fault(h)
    PROVE  hist' \in HistType /\ hist'.lost = h.lost
<1>1. hist' = [h EXCEPT !.faults = @ + 1, !.here = @ + 1]
  BY DEF Fault
<1>2. hist' \in HistType
  <2>1. h.faults + 1 \in Nat /\ h.here + 1 \in Nat
    BY DEF HistType
  <2>2. [h EXCEPT !.faults = @ + 1] \in HistType
    BY <2>1 DEF HistType
  <2>3. \A g \in HistType : [g EXCEPT !.here = h.here + 1] \in HistType
    BY <2>1 DEF HistType
  <2>4. hist' = [[h EXCEPT !.faults = @ + 1] EXCEPT !.here = h.here + 1]
    BY <1>1 DEF HistType
  <2> QED
    BY <2>2, <2>3, <2>4
<1>3. hist'.lost = h.lost
  BY <1>1 DEF HistType
<1> QED
  BY <1>2, <1>3

\* Going on to a statement outside a stage keeps the control state typed.
LEMMA GotoFact ==
    ASSUME exc \in Status, NEW label \in Outside, Goto(label)
    PROVE  /\ pc' \in Labels /\ at' \in Nat \ {0} /\ exc' \in Status /\ InBody'
           /\ pc' = label
BY DEF Goto, InBody, Outside

\* So does an exception on its way to a handler outside a stage.
LEMMA RaiseFact ==
    ASSUME NEW label \in Outside, Raise(label)
    PROVE  /\ pc' \in Labels /\ at' \in Nat \ {0} /\ exc' \in Status /\ InBody'
           /\ pc' = label
BY DEF Raise, InBody, Outside, Status, Substatus

\* A statement that only may fail keeps the invariant, goes to one of its two
\* successors and loses no file.
LEMMA TryFact ==
    ASSUME TypeInv, NEW label, NEW next \in Outside, NEW handler \in Outside,
           Try(label, next, handler)
    PROVE  TypeInv' /\ pc' \in {next, handler} /\ hist'.lost = hist.lost
<1>1. CASE Goto(next) /\ UNCHANGED hist
  BY <1>1, GotoFact DEF TypeInv, TypeOK, Try, rest
<1>2. CASE Raise(handler) /\ Fault(hist)
  BY <1>2, RaiseFact, FaultFact DEF TypeInv, TypeOK, Try, rest
<1> QED
  BY <1>1, <1>2 DEF Try

\* Pickle leaves a file with the current state, or a truncated one, noted as
\* lost, and goes to one of its two successors.
LEMMA PickleFact ==
    ASSUME TypeInv, NEW next \in Outside, NEW handler \in Outside,
           Pickle(next, handler)
    PROVE  /\ pc' \in Labels /\ at' \in Nat \ {0} /\ exc' \in Status /\ InBody'
           /\ file' \in FileType /\ hist' \in HistType
           /\ pc' \in {next, handler}
           /\ \/ /\ hist' = hist
                 /\ file' = [state |-> "saved", objs |-> objs, spec |-> spec]
              \/ hist'.lost /\ file' = Truncated
<1>1. CASE /\ file' = [state |-> "saved", objs |-> objs, spec |-> spec]
           /\ Goto(next) /\ UNCHANGED hist
  <2>1. file' \in FileType
    BY <1>1 DEF FileType, TypeInv, TypeOK
  <2> QED
    BY <1>1, <2>1, GotoFact DEF TypeInv, TypeOK
<1>2. CASE /\ file' = Truncated
           /\ Raise(handler) /\ Fault([hist EXCEPT !.lost = TRUE])
  <2>1. file' \in FileType
    BY <1>2, FileTypes
  <2>2. [hist EXCEPT !.lost = TRUE] \in HistType
    BY HistFact DEF TypeInv, TypeOK
  <2>3. [hist EXCEPT !.lost = TRUE].lost = TRUE
    BY DEF TypeInv, TypeOK, HistType
  <2> QED
    BY <1>2, <2>1, <2>2, <2>3, RaiseFact, FaultFact
<1> QED
  BY <1>1, <1>2 DEF Pickle

\* Provision and Delete deal with the resource r at position i.
ProvisionOne(i, r) ==
    LET recorded == [objs EXCEPT ![r].created = TRUE]
    IN /\ r = ProvisionOrder[i] /\ Due(ProvisionOrder, i)
       /\ \/ /\ at' = i + 1 /\ UNCHANGED <<pc, exc, hist>>
             /\ cloud' = cloud \cup {r} /\ objs' = recorded
          \/ /\ Raise("pickle_after") /\ Fault(hist)
             /\ \/ UNCHANGED <<cloud, objs>>
                \/ cloud' = cloud \cup {r} /\ objs' \in {objs, recorded}

DeleteOne(i, r) ==
    /\ r = DeleteOrder[i] /\ Due(DeleteOrder, i)
    /\ \/ /\ Freezes(r) /\ r \in cloud
          /\ at' = i + 1 /\ UNCHANGED <<cloud, objs, pc, exc>>
          /\ hist' = Froze(r)
       \/ /\ Deletes(r) /\ MarkDeleted(r)
          /\ at' = i + 1 /\ UNCHANGED <<pc, exc, hist>>
       \/ /\ Freezes(r) /\ r \notin cloud /\ r \notin DeleteOnFreezeError
          /\ exc' = "UNCATEGORIZED" /\ pc' = Handler[ret] /\ at' = 1
          /\ hist' = [hist EXCEPT !.undeleted = TRUE, !.here = @ + 1]
          /\ UNCHANGED <<cloud, objs>>
       \/ /\ DeleteRaises(r, i)
          /\ \/ UNCHANGED <<cloud, objs>>
             \/ /\ Deletes(r) /\ objs[r].created
                /\ cloud' = cloud \ {r} /\ UNCHANGED objs
             \/ Deletes(r) /\ MarkDeleted(r)

\* Provision deals with one resource the config asks for ...
LEMMA ProvisionEffect ==
    ASSUME Provision
    PROVE  \E i \in 1..Len(ProvisionOrder), r \in Present : ProvisionOne(i, r)
<1>1. PICK i \in 1..Len(ProvisionOrder) :
        LET r == ProvisionOrder[i]
            recorded == [objs EXCEPT ![r].created = TRUE]
        IN /\ Due(ProvisionOrder, i)
           /\ \/ /\ at' = i + 1 /\ UNCHANGED <<pc, exc, hist>>
                 /\ cloud' = cloud \cup {r} /\ objs' = recorded
              \/ /\ Raise("pickle_after") /\ Fault(hist)
                 /\ \/ UNCHANGED <<cloud, objs>>
                    \/ cloud' = cloud \cup {r} /\ objs' \in {objs, recorded}
  BY DEF Provision
<1>2. ProvisionOrder[i] \in Present
  BY <1>1 DEF Due
<1> QED
  BY <1>1, <1>2 DEF ProvisionOne

\* ... and so does Delete.
LEMMA DeleteEffect ==
    ASSUME Delete
    PROVE  \E i \in 1..Len(DeleteOrder), r \in Present : DeleteOne(i, r)
<1>1. PICK i \in 1..Len(DeleteOrder) : DeleteOne(i, DeleteOrder[i])
  BY Zenon DEF Delete, DeleteOne
<1>2. DeleteOrder[i] \in Present
  BY <1>1 DEF DeleteOne, Due
<1> QED
  BY <1>1, <1>2

\* Every statement of RunBenchmark, Provision and Delete, and a crash, keeps
\* the types.
LEMMA TypeStep == TypeInv /\ [Next]_vars => TypeInv'
<1> SUFFICES ASSUME TypeInv, [Next]_vars PROVE TypeInv'
  OBVIOUS
<1>1. ASSUME NEW f \in Flags, GetBenchmarkSpec(f) PROVE TypeInv'
  <2>1. objs' \in ObjsType
    BY <1>1, FileTypes DEF GetBenchmarkSpec, TypeInv, TypeOK, FileType
  <2>2. spec' \in SpecType
    <3>1. CASE "provision" \in ToSet(f.run_stage)
      <4>1. spec' = [NewSpec EXCEPT !.always_call_cleanup =
                                      "always_call_cleanup" \in f.on]
        BY <1>1, <3>1 DEF GetBenchmarkSpec
      <4>2. ("always_call_cleanup" \in f.on) \in BOOLEAN
        OBVIOUS
      <4>3. \A b \in BOOLEAN :
              [NewSpec EXCEPT !.always_call_cleanup = b] \in SpecType
        BY FileTypes DEF SpecType
      <4> QED
        BY <4>1, <4>2, <4>3
    <3>2. CASE "provision" \notin ToSet(f.run_stage)
      <4> DEFINE live == [file.spec EXCEPT !.deleted = FALSE]
      <4>1. file.spec \in SpecType
        BY DEF TypeInv, TypeOK, FileType
      <4>2. live \in SpecType
        BY <4>1 DEF SpecType
      <4>3. spec' = [live EXCEPT !.status = "SKIPPED"]
        BY <1>1, <3>2 DEF GetBenchmarkSpec
      <4> HIDE DEF live
      <4> QED
        BY <4>2, <4>3 DEF SpecType
    <3> QED
      BY <3>1, <3>2
  <2>3. should_teardown' \in BOOLEAN /\ preempted' \in BOOLEAN
    BY <1>1 DEF GetBenchmarkSpec
  <2>4. hist' \in HistType
    <3>1. << >> \in Seq(StageNames)
      OBVIOUS
    <3>2. hist' = [hist EXCEPT !.runs = hist.runs + 1, !.here = 0,
                    !.caught = FALSE, !.done = << >>, !.froze = {},
                    !.swallowed = {}, !.undeleted = FALSE]
      BY <1>1 DEF GetBenchmarkSpec
    <3>3. hist' = [runs |-> hist.runs + 1, faults |-> hist.faults, here |-> 0,
                   caught |-> FALSE, done |-> << >>, froze |-> {},
                   swallowed |-> {}, undeleted |-> FALSE, lost |-> hist.lost]
      BY <3>2 DEF TypeInv, TypeOK, HistType
    <3> QED
      BY <3>1, <3>3 DEF TypeInv, TypeOK, HistType
  <2>5. /\ flags' \in Flags /\ pc' = "start" /\ at' = 1 /\ ret' = "finally"
        /\ exc' = "none" /\ checker' = "none" /\ samples' = {}
        /\ UNCHANGED <<cloud, file, frozen>>
    BY <1>1 DEF GetBenchmarkSpec
  <2> QED
    BY <2>1, <2>2, <2>3, <2>4, <2>5 DEF TypeInv, TypeOK, InBody, Labels, Status
<1>2. CASE SetPaths
  <2>1. spec' \in SpecType
    <3>1. (spec.freeze \/ On("freeze")) \in BOOLEAN
      BY DEF TypeInv, TypeOK, SpecType
    <3> QED
      BY <1>2, <3>1 DEF SetPaths, TypeInv, TypeOK, SpecType
  <2>2. /\ hist' \in HistType /\ pc' \in Labels /\ at' \in Nat \ {0}
        /\ exc' \in Status /\ InBody'
    BY <1>2, GotoFact, RaiseFact, FaultFact
       DEF SetPaths, TypeInv, TypeOK, Outside, Labels
  <2> QED
    BY <1>2, <2>1, <2>2 DEF SetPaths, TypeInv, TypeOK
<1>3. CASE ConstructResources
  BY <1>3, TryFact DEF ConstructResources, Outside, Labels
<1>4. CASE BenchmarkStart
  BY <1>4, TryFact DEF BenchmarkStart, Outside, Labels
<1>5. CASE CaptureVMLogs
  BY <1>5, TryFact DEF CaptureVMLogs, Outside, Labels
<1>6. CASE UpdateTimeoutMetadata
  BY <1>6, TryFact DEF UpdateTimeoutMetadata, Outside, Labels
<1>7. CASE AddSamples
  BY <1>7, TryFact DEF AddSamples, Outside, Labels
<1>8. CASE TornDownOnException
  BY <1>8, TryFact DEF TornDownOnException, Outside, Labels
<1>9. CASE LogsOnException
  BY <1>9, TryFact DEF LogsOnException, Outside, Labels
<1>10. CASE Publish
  BY <1>10, TryFact DEF Publish, Outside, Labels
<1>11. CASE SkipPendingRun
  BY <1>11, GotoFact DEF SkipPendingRun, rest, TypeInv, TypeOK, Outside, Labels
<1>12. CASE Provisioned
  BY <1>12, GotoFact DEF Provisioned, rest, TypeInv, TypeOK, Outside, Labels
<1>13. CASE EndBody
  BY <1>13, GotoFact DEF EndBody, rest, TypeInv, TypeOK, Outside, Labels
<1>14. CASE TeardownOnException
  BY <1>14, GotoFact DEF TeardownOnException, rest, TypeInv, TypeOK, Outside,
     Labels
<1>15. CASE SkipStage
  BY <1>15 DEF SkipStage, rest, TypeInv, TypeOK, InBody
<1>16. CASE Start
  <2>1. spec' \in SpecType
    BY <1>16 DEF Start, TypeInv, TypeOK, SpecType
  <2> QED
    BY <1>16, <2>1, GotoFact DEF Start, TypeInv, TypeOK, Outside, Labels
<1>17. CASE PickleBefore
  BY <1>17, PickleFact DEF PickleBefore, TypeInv, TypeOK, Outside, Labels
<1>18. CASE PickleAfter
  BY <1>18, PickleFact DEF PickleAfter, TypeInv, TypeOK, Outside, Labels
<1>19. CASE PickleFinal
  <2>1. spec' \in SpecType
    BY <1>19 DEF PickleFinal, TypeInv, TypeOK, SpecType
  <2> QED
    BY <1>19, <2>1, PickleFact DEF PickleFinal, TypeInv, TypeOK, Outside, Labels
<1>20. CASE Provision
  <2>1. PICK i \in 1..Len(ProvisionOrder), r \in Present : ProvisionOne(i, r)
    BY <1>20, ProvisionEffect
  <2>2. [objs EXCEPT ![r].created = TRUE] \in ObjsType
    BY DEF TypeInv, TypeOK, ObjsType
  <2>3. cloud' \subseteq Present /\ objs' \in ObjsType
    BY <2>1, <2>2 DEF ProvisionOne, TypeInv, TypeOK
  <2>4. /\ hist' \in HistType /\ pc' \in Labels /\ at' \in Nat \ {0}
        /\ exc' \in Status /\ InBody'
    BY <1>20, <2>1, RaiseFact, FaultFact
       DEF ProvisionOne, Provision, TypeInv, TypeOK, InBody, Outside, Labels
  <2> QED
    BY <1>20, <2>3, <2>4 DEF Provision, TypeInv, TypeOK
<1>21. CASE ProvisionEnd
  <2>1. [hist EXCEPT !.done = Append(@, "provision")] \in HistType
    BY DoneFact, StageNamesFact DEF TypeInv, TypeOK
  <2> QED
    BY <1>21, <2>1, GotoFact, RaiseFact, FaultFact
       DEF ProvisionEnd, rest, TypeInv, TypeOK, Outside, Labels
<1>22. CASE TornDown
  <2>1. [hist EXCEPT !.done = Append(@, "teardown")] \in HistType
    BY DoneFact, StageNamesFact DEF TypeInv, TypeOK
  <2> QED
    BY <1>22, <2>1, GotoFact, RaiseFact, FaultFact
       DEF TornDown, rest, TypeInv, TypeOK, Outside, Labels
<1>23. CASE StartStage
  <2>1. hist' \in HistType
    BY <1>23, FaultFact DEF StartStage, TypeInv, TypeOK
  <2>2. pc' \in Labels /\ at' \in Nat \ {0} /\ exc' \in Status /\ InBody'
    BY <1>23 DEF StartStage, TypeInv, TypeOK, InBody, Labels, Status, Substatus
  <2>3. checker' \in {"none", "running", "orphan"}
    BY <1>23 DEF StartStage, TypeInv, TypeOK
  <2> QED
    BY <1>23, <2>1, <2>2, <2>3 DEF StartStage, TypeInv, TypeOK
<1>24. CASE CheckInterrupt
  <2>1. hist' \in HistType
    BY <1>24, FaultFact DEF CheckInterrupt, TypeInv, TypeOK
  <2>2. preempted' \in BOOLEAN
    BY <1>24 DEF CheckInterrupt
  <2> QED
    BY <1>24, <2>1, <2>2 DEF CheckInterrupt, TypeInv, TypeOK, InBody
<1>25. CASE DoStage
  <2>1. spec' \in SpecType
    BY <1>25 DEF DoStage, TypeInv, TypeOK, SpecType
  <2>2. hist' \in HistType
    BY <1>25, FaultFact DEF DoStage, TypeInv, TypeOK
  <2>3. pc' \in Labels /\ at' \in Nat \ {0} /\ exc' \in Status /\ InBody'
    BY <1>25, RaiseFact DEF DoStage, TypeInv, TypeOK, InBody, Labels, Outside
  <2> QED
    BY <1>25, <2>1, <2>2, <2>3 DEF DoStage, TypeInv, TypeOK
<1>26. CASE EndStage
  <2>1. BodyOrder[at] \in StageNames
    BY <1>26, StageNamesFact DEF EndStage, TypeInv, TypeOK, InBody
  <2>2. [hist EXCEPT !.done = Append(@, BodyOrder[at])] \in HistType
    BY <2>1, DoneFact DEF TypeInv, TypeOK
  <2>3. hist' \in HistType
    BY <1>26, <2>2, FaultFact DEF EndStage, TypeInv, TypeOK
  <2>4. pc' \in Labels /\ at' \in Nat \ {0} /\ exc' \in Status /\ InBody'
    BY <1>26 DEF EndStage, TypeInv, TypeOK, InBody, Labels, Status, Substatus
  <2>5. checker' \in {"none", "running", "orphan"}
    BY <1>26 DEF EndStage, TypeInv, TypeOK
  <2> QED
    BY <1>26, <2>3, <2>4, <2>5 DEF EndStage, TypeInv, TypeOK
<1>27. CASE ShouldTeardown
  <2>1. should_teardown' \in BOOLEAN
    BY <1>27 DEF ShouldTeardown, TypeInv, TypeOK
  <2>2. /\ hist' \in HistType /\ pc' \in Labels /\ at' \in Nat \ {0}
        /\ exc' \in Status /\ InBody'
    BY <1>27, GotoFact, RaiseFact, FaultFact
       DEF ShouldTeardown, TypeInv, TypeOK, Outside, Labels
  <2> QED
    BY <1>27, <2>1, <2>2 DEF ShouldTeardown, TypeInv, TypeOK
<1>28. CASE DoTeardownPhase
  <2>1. ret' \in {"teardown", "except", "finally"} /\ Handler[ret'] \in Outside
    BY <1>28 DEF DoTeardownPhase, Handler, Outside, Labels
  <2>2. /\ hist' \in HistType /\ pc' \in Labels /\ at' \in Nat \ {0}
        /\ exc' \in Status /\ InBody'
    BY <1>28, <2>1, GotoFact, RaiseFact, FaultFact
       DEF DoTeardownPhase, TypeInv, TypeOK, Outside, Labels
  <2> QED
    BY <1>28, <2>1, <2>2 DEF DoTeardownPhase, TypeInv, TypeOK
<1>29. CASE DeleteStart
  <2>1. Handler[ret] \in Outside /\ Return[ret] \in Outside
    BY DEF TypeInv, TypeOK, Handler, Return, Outside, Labels
  <2>2. [hist EXCEPT !.undeleted = TRUE] \in HistType
    BY HistFact DEF TypeInv, TypeOK
  <2>3. [state |-> "saved", objs |-> objs, spec |-> spec] \in FileType
    BY DEF TypeInv, TypeOK, FileType
  <2>4. frozen' \in FileType
    BY <1>29, <2>3, FileTypes DEF DeleteStart, TypeInv, TypeOK
  <2>5. /\ hist' \in HistType /\ pc' \in Labels /\ at' \in Nat \ {0}
        /\ exc' \in Status /\ InBody'
    BY <1>29, <2>1, <2>2, GotoFact, RaiseFact, FaultFact
       DEF DeleteStart, TypeInv, TypeOK, Outside, Labels
  <2> QED
    BY <1>29, <2>4, <2>5 DEF DeleteStart, TypeInv, TypeOK
<1>30. CASE Delete
  <2>1. PICK i \in 1..Len(DeleteOrder), r \in Present : DeleteOne(i, r)
    BY <1>30, DeleteEffect
  <2>2. Handler[ret] \in Outside
    BY DEF TypeInv, TypeOK, Handler, Outside, Labels
  <2>3. [objs EXCEPT ![r].deleted = TRUE] \in ObjsType
    BY DEF TypeInv, TypeOK, ObjsType
  <2>4. cloud' \subseteq Present /\ objs' \in ObjsType
    BY <2>1, <2>3 DEF DeleteOne, MarkDeleted, TypeInv, TypeOK
  <2>5. /\ [Froze(r) EXCEPT !.undeleted = TRUE] \in HistType
        /\ [Froze(r) EXCEPT !.swallowed = @ \cup Block(r)] \in HistType
    <3>1. Froze(r) \in HistType
      BY FrozeFact DEF TypeInv, TypeOK
    <3> QED
      BY <3>1, HistFact DEF Block
  <2>6. ASSUME DeleteRaises(r, i)
        PROVE  /\ hist' \in HistType /\ pc' \in Labels /\ at' \in Nat \ {0}
               /\ exc' \in Status /\ InBody'
    BY <1>30, <2>2, <2>5, <2>6, RaiseFact, FaultFact
       DEF DeleteRaises, Delete, TypeInv, TypeOK, InBody
  <2>7. /\ hist' \in HistType /\ pc' \in Labels /\ at' \in Nat \ {0}
        /\ exc' \in Status /\ InBody'
    <3>1. CASE at' = i + 1 /\ UNCHANGED <<pc, exc, hist>>
      BY <1>30, <3>1 DEF Delete, TypeInv, TypeOK, InBody
    <3>2. CASE /\ exc' = "UNCATEGORIZED" /\ pc' = Handler[ret] /\ at' = 1
               /\ hist' = [hist EXCEPT !.undeleted = TRUE, !.here = @ + 1]
      <4>1. exc' \in Status
        BY <3>2 DEF Status, Substatus
      <4>2. pc' \in Labels /\ InBody'
        BY <2>2, <3>2 DEF Outside, InBody
      <4>3. hist.here + 1 \in Nat
        BY DEF TypeInv, TypeOK, HistType
      <4>4. hist' \in HistType
        BY <3>2, <4>3 DEF TypeInv, TypeOK, HistType
      <4> QED
        BY <3>2, <4>1, <4>2, <4>4
    <3>3. CASE at' = i + 1 /\ UNCHANGED <<pc, exc>> /\ hist' = Froze(r)
      BY <1>30, <3>3, FrozeFact DEF Delete, TypeInv, TypeOK, InBody
    <3> QED
      BY <2>1, <2>6, <3>1, <3>2, <3>3 DEF DeleteOne
  <2> QED
    BY <1>30, <2>4, <2>7 DEF Delete, TypeInv, TypeOK
<1>31. CASE DeleteEnd
  <2>1. spec' \in SpecType
    BY <1>31 DEF DeleteEnd, TypeInv, TypeOK, SpecType
  <2>2. Return[ret] \in Outside
    BY DEF TypeInv, TypeOK, Return, Outside, Labels
  <2> QED
    BY <1>31, <2>1, <2>2, GotoFact DEF DeleteEnd, TypeInv, TypeOK
<1>32. CASE Except
  <2>1. spec' \in SpecType
    BY <1>32 DEF Except, TypeInv, TypeOK, SpecType
  <2>2. hist' \in HistType
    BY <1>32, HistFact DEF Except, TypeInv, TypeOK
  <2> QED
    BY <1>32, <2>1, <2>2, GotoFact DEF Except, TypeInv, TypeOK, Outside, Labels
<1>33. CASE PublishFailedRunSample
  <2>1. preempted' \in BOOLEAN
    BY <1>33 DEF PublishFailedRunSample, TypeInv, TypeOK
  <2>2. [spec EXCEPT !.substatus = "INTERRUPTED"] \in SpecType
    BY DEF TypeInv, TypeOK, SpecType, Status
  <2>3. spec' \in SpecType
    BY <1>33, <2>2 DEF PublishFailedRunSample, TypeInv, TypeOK
  <2>4. samples' \subseteq Status
    BY <1>33, <2>3 DEF PublishFailedRunSample, TypeInv, TypeOK, SpecType
  <2>5. /\ hist' \in HistType /\ pc' \in Labels /\ at' \in Nat \ {0}
        /\ exc' \in Status /\ InBody'
    BY <1>33, GotoFact, RaiseFact, FaultFact
       DEF PublishFailedRunSample, TypeInv, TypeOK, Outside, Labels
  <2> QED
    BY <1>33, <2>1, <2>3, <2>4, <2>5 DEF PublishFailedRunSample, TypeInv, TypeOK
<1>34. CASE CleanupOnException
  BY <1>34, GotoFact, RaiseFact, FaultFact
     DEF CleanupOnException, rest, TypeInv, TypeOK, Outside, Labels
<1>35. CASE Finally
  <2>1. [hist EXCEPT !.undeleted = TRUE] \in HistType
    BY HistFact DEF TypeInv, TypeOK
  <2>2. hist' \in HistType
    BY <1>35, <2>1, FaultFact DEF Finally, TypeInv, TypeOK
  <2>3. pc' \in Labels /\ at' \in Nat \ {0} /\ exc' \in Status /\ InBody'
    BY <1>35 DEF Finally, Goto, TypeInv, TypeOK, InBody, Labels, Status, Substatus
  <2>4. checker' \in {"none", "running", "orphan"} /\ ret' = "finally"
    BY <1>35 DEF Finally, TypeInv, TypeOK
  <2> QED
    BY <1>35, <2>2, <2>3, <2>4 DEF Finally, TypeInv, TypeOK
<1>36. CASE Crash
  <2>1. file' \in FileType /\ frozen' \in FileType
    BY <1>36, FileTypes DEF Crash, TypeInv, TypeOK
  <2> DEFINE lost == hist.lost \/ file' # file \/ pc \in {"provision", "pickle_after"}
             h == [hist EXCEPT !.lost = lost]
  <2>2. h \in HistType
    <3>1. lost \in BOOLEAN
      OBVIOUS
    <3> HIDE DEF lost
    <3> QED
      BY <3>1 DEF TypeInv, TypeOK, HistType
  <2>3. Fault(h)
    BY <1>36 DEF Crash
  <2> HIDE DEF h
  <2>4. hist' \in HistType
    BY <2>2, <2>3, FaultFact
  <2> QED
    BY <1>36, <2>1, <2>4 DEF Crash, TypeInv, TypeOK, InBody, Labels
<1>37. CASE UNCHANGED vars
  BY <1>37 DEF vars, process, TypeInv, TypeOK, InBody
<1> QED
  BY <1>1, <1>2, <1>3, <1>4, <1>5, <1>6, <1>7, <1>8, <1>9, <1>10, <1>11,
     <1>12, <1>13, <1>14, <1>15, <1>16, <1>17, <1>18, <1>19, <1>20,
     <1>21, <1>22, <1>23, <1>24, <1>25, <1>26, <1>27, <1>28, <1>29,
     <1>30, <1>31, <1>32, <1>33, <1>34, <1>35, <1>36, <1>37
     DEF Next, ProvisionPhase, BodyPhase, TeardownPhase, ExceptBlock, FinallyBlock

\* The state of RunBenchmark keeps its type, for any resources, flags, number
\* of processes and of failures.
THEOREM TypeCorrect == Spec => []TypeOK
<1>1. Spec => []TypeInv
  BY TypeInit, TypeStep, PTL DEF Spec
<1>2. TypeInv => TypeOK
  BY DEF TypeInv
<1> QED
  BY <1>1, <1>2, PTL

-----------------------------------------------------------------------------
(***************************************************************************)
(* Recovery.  What the pickle file says is as good as what the process     *)
(* knows, since a resource that exists is never marked as deleted: not in  *)
(* the file, even while Provision creates resources that the file does not *)
(* know of yet, as it was written before any of them was deleted.          *)
(***************************************************************************)
\* Before and during provisioning nothing has been deleted.
NotDeleted ==
    \/ pc \in {"construct", "pickle_before", "benchmark_start", "provision"}
    \/ pc \in {"start", "setup"} /\ In("provision")
    => \A r \in Present : ~objs[r].deleted

FileNotDeleted ==
    pc \in {"benchmark_start", "provision"} => \A r \in Present : ~file.objs[r].deleted

\* What exists and is recorded as created is not marked as deleted.
KnownLive == \A r \in cloud : objs[r].created => ~objs[r].deleted
FileLive == \A r \in cloud : file.objs[r].created => ~file.objs[r].deleted

RecoveryInv == NotDeleted /\ FileNotDeleted /\ KnownLive /\ FileLive /\ Recoverable

\* A step that leaves the resources and the file alone, after provisioning.
Early == {"start", "setup", "construct", "pickle_before", "benchmark_start",
          "provision"}
Quiet ==
    /\ pc \notin {"provision", "pickle_after"} /\ pc' \notin Early
    /\ UNCHANGED <<objs, cloud, file>> /\ hist'.lost = hist.lost

\* Such a step keeps the invariant.
LEMMA QuietFact == ASSUME RecoveryInv, Quiet PROVE RecoveryInv'
BY DEF Quiet, Early, RecoveryInv, NotDeleted, FileNotDeleted, KnownLive,
       FileLive, Recoverable, In

\* A step that writes the file, when what is on record as existing is live.
LEMMA PickledFact ==
    ASSUME TypeInv, RecoveryInv, UNCHANGED <<objs, cloud>>,
           NEW next \in Outside, NEW handler \in Outside, Pickle(next, handler),
           next \notin Early \/ (next = "benchmark_start" /\ pc = "pickle_before"),
           handler \notin Early
    PROVE  RecoveryInv'
<1>1. CASE /\ hist' = hist
           /\ file' = [state |-> "saved", objs |-> objs, spec |-> spec]
  <2>1. file'.state = "saved" /\ file'.objs = objs
    BY <1>1
  <2>2. pc' \in {next, handler}
    BY PickleFact
  <2> QED
    BY <1>1, <2>1, <2>2 DEF Early, RecoveryInv, NotDeleted, FileNotDeleted,
       KnownLive, FileLive, Recoverable, TypeInv, TypeOK
<1>2. CASE hist'.lost /\ file' = Truncated
  <2>1. \A r \in Present : ~file'.objs[r].created /\ ~file'.objs[r].deleted
    BY <1>2 DEF Truncated, NoFile, Fresh
  <2>2. pc' \in {next, handler}
    BY PickleFact
  <2> QED
    BY <1>2, <2>1, <2>2 DEF Early, RecoveryInv, NotDeleted, FileNotDeleted,
       KnownLive, FileLive, Recoverable, TypeInv, TypeOK
<1> QED
  BY <1>1, <1>2, PickleFact

\* Nothing exists before the first process.
LEMMA RecoveryInit == Init => RecoveryInv
BY DEF Init, RecoveryInv, NotDeleted, FileNotDeleted, KnownLive, FileLive,
   Recoverable

\* Every step keeps the invariant: Provision because nothing is marked deleted
\* yet, Pickle because the file then says what the process knows, Delete
\* because it marks what it removes, the next process because it knows what
\* the file says.
LEMMA RecoveryStep == TypeInv /\ RecoveryInv /\ [Next]_vars => RecoveryInv'
<1> SUFFICES ASSUME TypeInv, RecoveryInv, [Next]_vars PROVE RecoveryInv'
  OBVIOUS
<1> USE DEF Early
<1>1. ASSUME NEW f \in Flags, GetBenchmarkSpec(f) PROVE RecoveryInv'
  <2>1. CASE "provision" \in ToSet(f.run_stage)
    <3>1. \A r \in Present : ~objs'[r].created /\ ~objs'[r].deleted
      BY <1>1, <2>1 DEF GetBenchmarkSpec, Fresh
    <3> QED
      BY <1>1, <3>1 DEF GetBenchmarkSpec, RecoveryInv, NotDeleted,
         FileNotDeleted, KnownLive, FileLive, Recoverable, TypeInv, TypeOK
  <2>2. CASE "provision" \notin ToSet(f.run_stage)
    BY <1>1, <2>2 DEF GetBenchmarkSpec, RecoveryInv, NotDeleted,
       FileNotDeleted, KnownLive, FileLive, Recoverable, In
  <2> QED
    BY <2>1, <2>2
<1>2. CASE CaptureVMLogs
  <2>1. Quiet
    BY <1>2, TryFact DEF CaptureVMLogs, Try, rest, Quiet, Outside, Labels
  <2> QED
    BY <2>1, QuietFact
<1>3. CASE UpdateTimeoutMetadata
  <2>1. Quiet
    BY <1>3, TryFact DEF UpdateTimeoutMetadata, Try, rest, Quiet, Outside, Labels
  <2> QED
    BY <2>1, QuietFact
<1>4. CASE AddSamples
  <2>1. Quiet
    BY <1>4, TryFact DEF AddSamples, Try, rest, Quiet, Outside, Labels
  <2> QED
    BY <2>1, QuietFact
<1>5. CASE TornDownOnException
  <2>1. Quiet
    BY <1>5, TryFact DEF TornDownOnException, Try, rest, Quiet, Outside, Labels
  <2> QED
    BY <2>1, QuietFact
<1>6. CASE LogsOnException
  <2>1. Quiet
    BY <1>6, TryFact DEF LogsOnException, Try, rest, Quiet, Outside, Labels
  <2> QED
    BY <2>1, QuietFact
<1>7. CASE Publish
  <2>1. Quiet
    BY <1>7, TryFact DEF Publish, Try, rest, Quiet, Outside, Labels
  <2> QED
    BY <2>1, QuietFact
<1>8. CASE SkipPendingRun
  <2>1. Quiet
    BY <1>8 DEF SkipPendingRun, Goto, rest, Quiet
  <2> QED
    BY <2>1, QuietFact
<1>9. CASE EndBody
  <2>1. Quiet
    BY <1>9 DEF EndBody, Goto, rest, Quiet
  <2> QED
    BY <2>1, QuietFact
<1>10. CASE TeardownOnException
  <2>1. Quiet
    BY <1>10 DEF TeardownOnException, Goto, rest, Quiet
  <2> QED
    BY <2>1, QuietFact
<1>11. CASE SkipStage
  <2>1. Quiet
    BY <1>11 DEF SkipStage, rest, Quiet
  <2> QED
    BY <2>1, QuietFact
<1>12. CASE StartStage
  <2>1. hist'.lost = hist.lost
    BY <1>12, FaultFact DEF StartStage, TypeInv, TypeOK
  <2>2. Quiet
    BY <1>12, <2>1 DEF StartStage, Goto, Raise, Quiet
  <2> QED
    BY <2>2, QuietFact
<1>13. CASE ShouldTeardown
  <2>1. hist'.lost = hist.lost
    BY <1>13, FaultFact DEF ShouldTeardown, TypeInv, TypeOK
  <2>2. Quiet
    BY <1>13, <2>1 DEF ShouldTeardown, Goto, Raise, Quiet
  <2> QED
    BY <2>2, QuietFact
<1>14. CASE PublishFailedRunSample
  <2>1. hist'.lost = hist.lost
    BY <1>14, FaultFact DEF PublishFailedRunSample, TypeInv, TypeOK
  <2>2. Quiet
    BY <1>14, <2>1 DEF PublishFailedRunSample, Goto, Raise, Quiet
  <2> QED
    BY <2>2, QuietFact
<1>15. CASE DoTeardownPhase
  <2>1. hist'.lost = hist.lost
    BY <1>15, FaultFact DEF DoTeardownPhase, TypeInv, TypeOK
  <2>2. Quiet
    BY <1>15, <2>1 DEF DoTeardownPhase, Goto, Raise, Handler, Quiet
  <2> QED
    BY <2>2, QuietFact
<1>16. CASE CheckInterrupt
  <2>1. hist'.lost = hist.lost
    BY <1>16, FaultFact DEF CheckInterrupt, TypeInv, TypeOK
  <2> QED
    BY <1>16, <2>1 DEF CheckInterrupt, RecoveryInv, NotDeleted, FileNotDeleted,
       KnownLive, FileLive, Recoverable, In
<1>17. CASE ProvisionEnd
  <2>1. [hist EXCEPT !.done = Append(@, "provision")] \in HistType
    BY DoneFact, StageNamesFact DEF TypeInv, TypeOK
  <2>2. [hist EXCEPT !.done = Append(@, "provision")].lost = hist.lost
    BY DEF TypeInv, TypeOK, HistType
  <2>3. hist'.lost = hist.lost
    BY <1>17, <2>1, <2>2, FaultFact DEF ProvisionEnd, TypeInv, TypeOK
  <2>4. Quiet
    BY <1>17, <2>3 DEF ProvisionEnd, Goto, Raise, rest, Quiet
  <2> QED
    BY <2>4, QuietFact
<1>18. CASE TornDown
  <2>1. [hist EXCEPT !.done = Append(@, "teardown")] \in HistType
    BY DoneFact, StageNamesFact DEF TypeInv, TypeOK
  <2>2. [hist EXCEPT !.done = Append(@, "teardown")].lost = hist.lost
    BY DEF TypeInv, TypeOK, HistType
  <2>3. hist'.lost = hist.lost
    BY <1>18, <2>1, <2>2, FaultFact DEF TornDown, TypeInv, TypeOK
  <2>4. Quiet
    BY <1>18, <2>3 DEF TornDown, Goto, Raise, rest, Quiet
  <2> QED
    BY <2>4, QuietFact
<1>19. CASE EndStage
  <2>1. [hist EXCEPT !.done = Append(@, BodyOrder[at])] \in HistType
    BY <1>19, DoneFact, StageNamesFact DEF EndStage, InBody, TypeInv, TypeOK
  <2>2. [hist EXCEPT !.done = Append(@, BodyOrder[at])].lost = hist.lost
    BY DEF TypeInv, TypeOK, HistType
  <2>3. hist'.lost = hist.lost
    BY <1>19, <2>1, <2>2, FaultFact DEF EndStage, TypeInv, TypeOK
  <2>4. Quiet
    BY <1>19, <2>3 DEF EndStage, Goto, Raise, rest, Quiet
  <2> QED
    BY <2>4, QuietFact
<1>20. CASE DoStage
  <2>1. hist'.lost = hist.lost
    BY <1>20, FaultFact DEF DoStage, TypeInv, TypeOK
  <2>2. Quiet
    BY <1>20, <2>1 DEF DoStage, Goto, Raise, Quiet
  <2> QED
    BY <2>2, QuietFact
<1>21. CASE CleanupOnException
  <2>1. hist'.lost = hist.lost
    BY <1>21, FaultFact DEF CleanupOnException, TypeInv, TypeOK
  <2>2. Quiet
    BY <1>21, <2>1 DEF CleanupOnException, Goto, Raise, rest, Quiet
  <2> QED
    BY <2>2, QuietFact
<1>22. CASE Finally
  <2>1. [hist EXCEPT !.undeleted = TRUE] \in HistType
    BY HistFact DEF TypeInv, TypeOK
  <2>2. [hist EXCEPT !.undeleted = TRUE].lost = hist.lost
    BY DEF TypeInv, TypeOK, HistType
  <2>3. hist'.lost = hist.lost
    BY <1>22, <2>1, <2>2, FaultFact DEF Finally, TypeInv, TypeOK
  <2>4. Quiet
    BY <1>22, <2>3 DEF Finally, Goto, Raise, rest, Quiet
  <2> QED
    BY <2>4, QuietFact
<1>23. CASE Except
  <2>1. [hist EXCEPT !.caught = TRUE] \in HistType
    BY HistFact DEF TypeInv, TypeOK
  <2>2. [hist EXCEPT !.caught = TRUE].lost = hist.lost
    BY DEF TypeInv, TypeOK, HistType
  <2>3. hist'.lost = hist.lost
    BY <1>23, <2>1, <2>2, FaultFact DEF Except, TypeInv, TypeOK
  <2>4. Quiet
    BY <1>23, <2>3 DEF Except, Goto, Raise, rest, Quiet
  <2> QED
    BY <2>4, QuietFact
<1>24. CASE DeleteStart
  <2>1. [hist EXCEPT !.undeleted = TRUE] \in HistType
    BY HistFact DEF TypeInv, TypeOK
  <2>2. [hist EXCEPT !.undeleted = TRUE].lost = hist.lost
    BY DEF TypeInv, TypeOK, HistType
  <2>3. hist'.lost = hist.lost
    BY <1>24, <2>1, <2>2, FaultFact DEF DeleteStart, TypeInv, TypeOK
  <2>4. Quiet
    BY <1>24, <2>3 DEF DeleteStart, Goto, Raise, rest, Quiet, Handler, Return,
       TypeInv, TypeOK
  <2> QED
    BY <2>4, QuietFact
<1>25. CASE DeleteEnd
  <2>1. Quiet
    BY <1>25 DEF DeleteEnd, Goto, Return, Quiet, TypeInv, TypeOK
  <2> QED
    BY <2>1, QuietFact
<1>26. CASE SetPaths
  <2>1. hist'.lost = hist.lost
    BY <1>26, FaultFact DEF SetPaths, TypeInv, TypeOK
  <2> QED
    BY <1>26, <2>1 DEF SetPaths, Goto, Raise, RecoveryInv, NotDeleted, FileNotDeleted, KnownLive, FileLive, Recoverable, In
<1>27. CASE ConstructResources
  <2>1. UNCHANGED rest
    BY <1>27 DEF ConstructResources, Try
  <2>2. hist'.lost = hist.lost
    BY <1>27, TryFact DEF ConstructResources, Outside, Labels
  <2> QED
    BY <1>27, <2>1, <2>2 DEF ConstructResources, Try, Goto, Raise, rest,
       RecoveryInv, NotDeleted, FileNotDeleted, KnownLive, FileLive,
       Recoverable, In
<1>28. CASE BenchmarkStart
  <2>1. UNCHANGED rest
    BY <1>28 DEF BenchmarkStart, Try
  <2>2. hist'.lost = hist.lost
    BY <1>28, TryFact DEF BenchmarkStart, Outside, Labels
  <2> QED
    BY <1>28, <2>1, <2>2 DEF BenchmarkStart, Try, Goto, Raise, rest, RecoveryInv,
       NotDeleted, FileNotDeleted, KnownLive, FileLive, Recoverable, In
<1>29. CASE Start
  BY <1>29 DEF Start, Goto, RecoveryInv, NotDeleted, FileNotDeleted,
     KnownLive, FileLive, Recoverable, In
<1>30. CASE Provisioned
  BY <1>30 DEF Provisioned, Goto, rest, RecoveryInv, NotDeleted, FileNotDeleted,
     KnownLive, FileLive, Recoverable, In
<1>31. CASE PickleBefore
  BY <1>31, PickledFact DEF PickleBefore, Outside, Labels
<1>32. CASE PickleAfter
  BY <1>32, PickledFact DEF PickleAfter, Outside, Labels
<1>33. CASE PickleFinal
  BY <1>33, PickledFact DEF PickleFinal, Outside, Labels
<1>34. CASE Provision
  <2>1. PICK i \in 1..Len(ProvisionOrder), r \in Present : ProvisionOne(i, r)
    BY <1>34, ProvisionEffect
  <2>2. pc' \in {"provision", "pickle_after"}
    BY <1>34, <2>1 DEF ProvisionOne, Provision, Raise
  <2>3. \A x \in Present : [objs EXCEPT ![r].created = TRUE][x].deleted = objs[x].deleted
    BY DEF TypeInv, TypeOK, ObjsType
  <2>4. \A x \in Present : objs'[x].deleted = objs[x].deleted
    BY <2>1, <2>3 DEF ProvisionOne
  <2>5. \A x \in Present : ~objs[x].deleted /\ ~file.objs[x].deleted
    BY <1>34 DEF Provision, RecoveryInv, NotDeleted, FileNotDeleted
  <2>6. cloud' \subseteq Present /\ file' = file
    BY <1>34, <2>1 DEF ProvisionOne, Provision, TypeInv, TypeOK
  <2> QED
    BY <2>2, <2>4, <2>5, <2>6 DEF RecoveryInv, NotDeleted, FileNotDeleted,
       KnownLive, FileLive, Recoverable
<1>35. CASE Delete
  <2>1. PICK i \in 1..Len(DeleteOrder), r \in Present : DeleteOne(i, r)
    BY <1>35, DeleteEffect
  <2>2. pc = "deleting" /\ file' = file
    BY <1>35 DEF Delete
  <2>3. hist'.lost = hist.lost
    <3>f. Froze(r) \in HistType /\ Froze(r).lost = hist.lost
      BY FrozeFact DEF TypeInv, TypeOK
    <3>1. /\ [Froze(r) EXCEPT !.undeleted = TRUE] \in HistType
          /\ [Froze(r) EXCEPT !.swallowed = @ \cup Block(r)] \in HistType
      BY <3>f, HistFact DEF Block
    <3>2. /\ [Froze(r) EXCEPT !.undeleted = TRUE].lost = hist.lost
          /\ [Froze(r) EXCEPT !.swallowed = @ \cup Block(r)].lost = hist.lost
          /\ [hist EXCEPT !.undeleted = TRUE, !.here = @ + 1].lost = hist.lost
      BY <3>f DEF TypeInv, TypeOK, HistType
    <3>3. DeleteRaises(r, i) => hist'.lost = hist.lost
      BY <3>1, <3>2, FaultFact DEF DeleteRaises
    <3> QED
      BY <2>1, <3>f, <3>2, <3>3 DEF DeleteOne
  <2>4. pc' \notin Early
    <3>1. Handler[ret] \notin Early
      BY DEF Handler, TypeInv, TypeOK
    <3> QED
      BY <2>1, <2>2, <3>1 DEF DeleteOne, DeleteRaises, Raise
  <2>5. cloud' \subseteq cloud /\ \A x \in cloud' : objs'[x] = objs[x] \/ ~objs[x].created
    <3>1. MarkDeleted(r) => \A x \in Present \ {r} : objs'[x] = objs[x]
      BY DEF MarkDeleted, TypeInv, TypeOK, ObjsType
    <3>2. MarkDeleted(r) => cloud' \subseteq cloud /\ (r \in cloud' => ~objs[r].created)
      BY DEF MarkDeleted, RecoveryInv, KnownLive
    <3> QED
      BY <2>1, <3>1, <3>2 DEF DeleteOne, TypeInv, TypeOK
  <2>6. \A x \in Present : objs'[x].created = objs[x].created
    BY <2>1 DEF DeleteOne, MarkDeleted, TypeInv, TypeOK, ObjsType
  <2> QED
    BY <2>2, <2>3, <2>4, <2>5, <2>6 DEF RecoveryInv, NotDeleted,
       FileNotDeleted, KnownLive, FileLive, Recoverable, TypeInv, TypeOK
<1>36. CASE Crash
  <2>1. /\ pc' = "idle" /\ UNCHANGED <<objs, cloud>>
        /\ file' = file \/ file' = Truncated
    BY <1>36 DEF Crash
  <2>2. file' = file \/ \A r \in Present : ~file'.objs[r].created
    BY <2>1 DEF Truncated, NoFile, Fresh
  <2> DEFINE lost == hist.lost \/ file' # file \/ pc \in {"provision", "pickle_after"}
             h == [hist EXCEPT !.lost = lost]
  <2>3. h \in HistType /\ h.lost = lost
    <3>1. lost \in BOOLEAN
      OBVIOUS
    <3> HIDE DEF lost
    <3> QED
      BY <3>1 DEF TypeInv, TypeOK, HistType
  <2>4. Fault(h)
    BY <1>36 DEF Crash
  <2>5. hist'.lost = lost
    <3> HIDE DEF lost, h
    <3> QED
      BY <2>3, <2>4, FaultFact
  <2> QED
    BY <2>1, <2>2, <2>5 DEF RecoveryInv, NotDeleted, FileNotDeleted,
       KnownLive, FileLive, Recoverable, TypeInv, TypeOK
<1>37. CASE UNCHANGED vars
  BY <1>37 DEF vars, process, RecoveryInv, NotDeleted, FileNotDeleted,
     KnownLive, FileLive, Recoverable, In
<1> QED
  BY <1>1, <1>2, <1>3, <1>4, <1>5, <1>6, <1>7, <1>8, <1>9, <1>10, <1>11,
     <1>12, <1>13, <1>14, <1>15, <1>16, <1>17, <1>18, <1>19, <1>20,
     <1>21, <1>22, <1>23, <1>24, <1>25, <1>26, <1>27, <1>28, <1>29,
     <1>30, <1>31, <1>32, <1>33, <1>34, <1>35, <1>36, <1>37
     DEF Next, ProvisionPhase, BodyPhase, TeardownPhase, ExceptBlock, FinallyBlock

\* Whatever process ends or is killed outside Provision, and whatever failed
\* before, the pickle file lets a later run delete all that is on record as
\* created, unless writing the file failed.
THEOREM Recovery == Spec => []Recoverable
<1>1. Spec => [](TypeInv /\ RecoveryInv)
  BY TypeInit, TypeStep, RecoveryInit, RecoveryStep, PTL DEF Spec
<1>2. RecoveryInv => Recoverable
  BY DEF RecoveryInv
<1> QED
  BY <1>1, <1>2, PTL

-----------------------------------------------------------------------------
(***************************************************************************)
(* Control.  The try block runs while there is no exception under way, the *)
(* except block only while there is one.                                   *)
(***************************************************************************)
ProvisionPcs == {"construct", "pickle_before", "benchmark_start", "provision",
                 "pickle_after", "provision_end"}
StagePcs == {"body", "stage", "end_stage"}
TeardownPcs == {"logs", "should_teardown", "keep", "teardown", "torn_down"}
ExceptPcs == {"except", "publish_failed", "except_cleanup", "except_next",
              "except_teardown", "except_torn_down", "except_logs"}
DeletePcs == {"delete", "deleting"}

\* In the try block, in the except block, and in the finally block or beyond.
InTry == \/ pc \in {"start", "setup", "samples"} \cup StagePcs \cup TeardownPcs
         \/ pc \in ProvisionPcs \ {"pickle_after"}
         \/ (pc \in DeletePcs /\ ret = "teardown")
InExcept == pc \in ExceptPcs \/ (pc \in DeletePcs /\ ret = "except")
InFinally == \/ pc \in {"finally", "publish", "pickle_final"}
             \/ (pc \in DeletePcs /\ ret = "finally")

ControlInv ==
    /\ InTry => exc = "none"
    /\ InExcept => exc # "none"
    /\ hist.caught => exc # "none"
    /\ pc = "start" => spec.status = "SKIPPED"
    /\ pc \in {"teardown", "torn_down"} \/ (pc \in DeletePcs /\ ret = "teardown")
         => should_teardown

\* A stage's checker is at work only during the stage, or after an exception.
CheckerInv ==
    exc = "none" /\ pc \notin {"stage", "end_stage", "idle"} =>
      checker = "none" /\ ~preempted

-----------------------------------------------------------------------------
(***************************************************************************)
(* Delete.                                                                 *)
(***************************************************************************)
\* What Delete has passed, and what it has worked through, is gone, frozen or
\* noted as having failed.
Passed ==
    pc = "deleting" =>
      /\ ~spec.deleted
      /\ \A j \in 1..Len(DeleteOrder) :
           j < at /\ DeleteOrder[j] \in Left => DeleteOrder[j] \in hist.swallowed
Emptied == spec.deleted => Left \subseteq hist.swallowed

\* Nothing has been deleted when resources are created.
Untouched ==
    pc \in {"start", "setup"} \cup ProvisionPcs => ~spec.deleted /\ hist.froze = {}

\* The freeze file knows every resource of the spec once Delete is under way,
\* and it still does after one failure, if something was frozen: then either
\* that Delete goes on or has ended, or it was the failure.
Knows == /\ frozen.state = "saved"
         /\ \A r \in Present : objs[r].created => frozen.objs[r].created
FreezeInv ==
    /\ (pc = "deleting" \/ spec.deleted) /\ spec.freeze => Knows
    /\ hist.froze # {} =>
         /\ pc = "deleting" \/ spec.deleted \/ hist.here >= 1
         /\ hist.here <= 1 => Knows

DeleteInv == Passed /\ Emptied /\ Untouched /\ FreezeInv

\* Where a run that was to tear down has been through Delete.
TornInv ==
    /\ pc = "torn_down" => spec.deleted
    /\ pc = "keep" => ~should_teardown
    /\ In("teardown") /\ should_teardown =>
         /\ pc \in {"publish", "pickle_final"} => spec.deleted
         /\ exc = "none" /\ (pc = "samples" \/ InFinally) => spec.deleted
         /\ pc = "ended" /\ spec.status # "SKIPPED" /\ ~hist.undeleted => spec.deleted

-----------------------------------------------------------------------------
(***************************************************************************)
(* One failure: an exception is that failure.                              *)
(***************************************************************************)
CountInv ==
    exc # "none" \/ preempted => hist.here >= 1

OneFaultInv ==
    hist.here <= 1 =>
      /\ In("teardown") /\ should_teardown /\ pc = "ended"
           /\ spec.status # "SKIPPED" => spec.deleted
      /\ hist.caught /\ On("always_teardown_on_exception") /\ ~In("teardown")
           /\ pc \in {"except_torn_down", "except_logs", "finally", "publish",
                      "pickle_final", "ended"} => spec.deleted

-----------------------------------------------------------------------------
\* The stages that are done, of those asked for.
Asked == ToSet(flags.run_stage)
Body(n) == {BodyOrder[j] : j \in 1..n}
DoneInv ==
    exc = "none" =>
      /\ pc \in {"start", "setup"} \cup ProvisionPcs => hist.done = << >>
      /\ pc \in ProvisionPcs => In("provision")
      /\ pc \in StagePcs =>
           /\ at <= Len(BodyOrder) + 1
           /\ ToSet(hist.done) =
                Asked \cap ({"provision"} \cup Body(at - 1))
      /\ pc \in {"stage", "end_stage"} => In(BodyOrder[at])
      /\ pc \in TeardownPcs \/ (pc \in DeletePcs /\ ret = "teardown") =>
           In("teardown") /\ ToSet(hist.done) = Asked \ {"teardown"}
      /\ pc = "samples" \/ InFinally \/ spec.status = "SUCCEEDED" =>
           ToSet(hist.done) = Asked \ (IF should_teardown THEN {} ELSE {"teardown"})

SavedInv ==
    spec.status = "SUCCEEDED" =>
      pc = "ended" /\ exc = "none" /\ file.state = "saved" /\ file.objs = objs

\* The networks come before what is created after them.
NetworksFirst ==
    pc = "provision" /\ at > 2 /\ "networks" \in Present => "networks" \in cloud

\* How RunBenchmark got to where it is.
CInv == ControlInv /\ CheckerInv /\ TornInv /\ CountInv /\ OneFaultInv

-----------------------------------------------------------------------------
\* Notes that say nothing of failures, and the note of one.
Same(g, h) == /\ g.here = h.here /\ g.caught = h.caught
              /\ g.undeleted = h.undeleted
OneMore(g, h) == /\ g.here = h.here + 1 /\ g.caught = h.caught
                 /\ g.undeleted = h.undeleted

\* What the notes that actions take say of failures.
LEMMA NotesFact ==
    ASSUME NEW h \in HistType
    PROVE  /\ \A b : Same([h EXCEPT !.lost = b], h)
           /\ \A s : Same([h EXCEPT !.done = Append(@, s)], h)
           /\ \A S : Same([h EXCEPT !.swallowed = @ \cup S], h)
           /\ [h EXCEPT !.undeleted = TRUE].here = h.here
           /\ [h EXCEPT !.undeleted = TRUE].caught = h.caught
           /\ [h EXCEPT !.undeleted = TRUE].undeleted = TRUE
           /\ [h EXCEPT !.caught = TRUE].here = h.here
           /\ [h EXCEPT !.caught = TRUE].caught = TRUE
           /\ [h EXCEPT !.caught = TRUE].undeleted = h.undeleted
BY DEF HistType, Same

\* What a failure adds to the notes.
LEMMA FaultNotes ==
    ASSUME NEW h \in HistType, Fault(h)
    PROVE  /\ OneMore(hist', h) /\ hist'.done = h.done
           /\ hist'.swallowed = h.swallowed /\ hist'.froze = h.froze
<1>1. hist' = [h EXCEPT !.faults = @ + 1, !.here = @ + 1]
  BY DEF Fault
<1> QED
  BY <1>1 DEF HistType, OneMore

\* A failure that leaves Delete undone.
LEMMA UndeletedNotes ==
    ASSUME NEW g \in HistType, Fault([g EXCEPT !.undeleted = TRUE])
    PROVE  /\ hist'.here = g.here + 1 /\ hist'.caught = g.caught
           /\ hist'.undeleted = TRUE
<1> DEFINE h == [g EXCEPT !.undeleted = TRUE]
<1>1. /\ h \in HistType /\ h.here = g.here /\ h.caught = g.caught
      /\ h.undeleted = TRUE
  BY HistFact, NotesFact
<1>2. Fault(h)
  OBVIOUS
<1> HIDE DEF h
<1>3. OneMore(hist', h)
  BY <1>1, <1>2, FaultNotes
<1> QED
  BY <1>1, <1>3 DEF OneMore

\* A statement that goes on to next or raises to handler, and has no say in
\* the teardown.
Flow(next, handler) ==
    /\ UNCHANGED <<flags, ret, should_teardown, checker, preempted>>
    /\ spec'.deleted = spec.deleted
    /\ \/ pc' = next /\ exc' = exc /\ Same(hist', hist)
       \/ pc' = handler /\ exc' # "none" /\ OneMore(hist', hist)

\* A statement that only may fail flows to its successor or its handler ...
LEMMA TryFlows ==
    ASSUME TypeInv, NEW label, NEW next, NEW handler, Try(label, next, handler)
    PROVE  pc = label /\ Flow(next, handler)
<1>1. hist \in HistType
  BY DEF TypeInv, TypeOK
<1>2. CASE Goto(next) /\ UNCHANGED hist
  BY <1>2 DEF Try, rest, Goto, Flow, Same
<1>3. CASE Raise(handler) /\ Fault(hist)
  BY <1>1, <1>3, FaultNotes DEF Try, rest, Raise, Flow, Substatus
<1> QED
  BY <1>2, <1>3 DEF Try

\* ... and so does Pickle.
LEMMA PickleFlows ==
    ASSUME TypeInv, NEW next, NEW handler, Pickle(next, handler),
           UNCHANGED <<flags, ret, should_teardown, checker, preempted>>,
           spec'.deleted = spec.deleted
    PROVE  Flow(next, handler)
<1>1. hist \in HistType
  BY DEF TypeInv, TypeOK
<1>2. CASE Goto(next) /\ UNCHANGED hist
  BY <1>2 DEF Goto, Flow, Same
<1>3. CASE Raise(handler) /\ Fault([hist EXCEPT !.lost = TRUE])
  <2>1. OneMore(hist', [hist EXCEPT !.lost = TRUE])
    BY <1>1, <1>3, HistFact, FaultNotes
  <2>2. OneMore(hist', hist)
    BY <1>1, <2>1, NotesFact DEF Same, OneMore
  <2> QED
    BY <1>3, <2>2 DEF Raise, Flow, Substatus
<1> QED
  BY <1>2, <1>3 DEF Pickle

\* The statements that only go on or raise, each from its place to its two
\* successors.
Ways ==
    {<<"setup", "construct", "except">>, <<"setup", "body", "except">>,
     <<"construct", "pickle_before", "except">>,
     <<"pickle_before", "benchmark_start", "except">>,
     <<"benchmark_start", "provision", "except">>,
     <<"provision", "provision", "pickle_after">>,
     <<"provision", "pickle_after", "pickle_after">>,
     <<"provision_end", "body", "except">>,
     <<"body", "body", "except">>, <<"body", "logs", "except">>,
     <<"stage", "end_stage", "except">>,
     <<"logs", "should_teardown", "except">>,
     <<"keep", "samples", "except">>, <<"torn_down", "samples", "except">>,
     <<"samples", "finally", "except">>,
     <<"except_cleanup", "except_next", "finally">>,
     <<"except_torn_down", "except_logs", "finally">>,
     <<"except_logs", "finally", "finally">>,
     <<"publish", "pickle_final", "ended">>,
     <<"pickle_final", "ended", "ended">>}

Way(next, handler) ==
    \/ <<pc, next, handler>> \in Ways
    \/ /\ pc = "pickle_after" /\ handler = "except"
       /\ next = IF exc = "none" THEN "provision_end" ELSE "except"
    \/ pc = "body" /\ next = "samples" /\ handler = "except" /\ ~In("teardown")
    \/ /\ pc = "except_next" /\ handler = "finally"
       /\ next = IF On("always_teardown_on_exception") /\ ~In("teardown")
                 THEN "except_teardown" ELSE "except_logs"

\* These statements keep the accounts of control and teardown.
LEMMA FlowKeeps ==
    ASSUME TypeInv, CInv, NEW next, NEW handler, Way(next, handler),
           Flow(next, handler)
    PROVE  CInv'
<1> USE DEF CInv
<1>h. hist.here \in Nat
  BY DEF TypeInv, TypeOK, HistType
<1>1. ControlInv'
  BY DEF Way, Ways, Flow, ControlInv, InTry, InExcept, ProvisionPcs, StagePcs,
         TeardownPcs, ExceptPcs, DeletePcs, Same, OneMore
<1>2. CheckerInv'
  BY DEF Way, Ways, Flow, CheckerInv
<1>3. TornInv'
  <2>1. InExcept <=> pc \in ExceptPcs \/ (pc \in DeletePcs /\ ret = "except")
    BY DEF InExcept
  <2>2. pc \in ExceptPcs => exc # "none"
    BY <2>1 DEF ControlInv
  <2>3. pc' \in {next, handler} /\ pc' \notin DeletePcs
    BY DEF Way, Ways, Flow, DeletePcs
  <2>4. InFinally' <=> pc' \in {"finally", "publish", "pickle_final"}
    BY <2>3 DEF InFinally
  <2> QED
    BY <2>2, <2>3, <2>4 DEF Way, Ways, Flow, TornInv, In, Same, OneMore,
       ExceptPcs, InFinally
<1>4. CountInv'
  BY <1>h DEF Way, Ways, Flow, CountInv, On, Same, OneMore
<1>5. OneFaultInv'
  BY <1>h DEF Way, Ways, Flow, OneFaultInv, CountInv, ControlInv, TornInv, On,
     In, Same, OneMore, InExcept, InTry, ExceptPcs, ProvisionPcs, StagePcs,
     TeardownPcs
<1> QED
  BY <1>1, <1>2, <1>3, <1>4, <1>5

\* Nothing has gone wrong before the first process.
LEMMA CInit == Init => CInv
BY DEF Init, CInv, ControlInv, CheckerInv, TornInv, CountInv,
     OneFaultInv, InTry, InExcept, InFinally, ProvisionPcs, StagePcs, TeardownPcs,
     ExceptPcs, DeletePcs, In, On

\* Every statement keeps the order of RunBenchmark's blocks and the accounts of
\* what went wrong in them.
LEMMA CStep == TypeInv /\ CInv /\ [Next]_vars => CInv'
<1> SUFFICES ASSUME TypeInv, CInv, [Next]_vars PROVE CInv'
  OBVIOUS
<1>h. hist \in HistType /\ hist.here \in Nat
  BY DEF TypeInv, TypeOK, HistType
<1>1. ASSUME NEW f \in Flags, GetBenchmarkSpec(f) PROVE CInv'
  <2>1. /\ pc' = "start" /\ ret' = "finally" /\ exc' = "none"
        /\ spec'.status = "SKIPPED" /\ should_teardown' /\ checker' = "none"
        /\ ~preempted'
    <3>1. file.spec \in SpecType
      BY DEF TypeInv, TypeOK, FileType
    <3>2. [file.spec EXCEPT !.deleted = FALSE, !.status = "SKIPPED"].status = "SKIPPED"
      BY <3>1 DEF SpecType
    <3>3. \A b : [NewSpec EXCEPT !.always_call_cleanup = b].status = "SKIPPED"
      BY DEF NewSpec
    <3> QED
      BY <1>1, <3>2, <3>3 DEF GetBenchmarkSpec
  <2>2. ~hist'.caught
    BY <1>1, <1>h DEF GetBenchmarkSpec, HistType
  <2> QED
    BY <2>1, <2>2 DEF CInv, ControlInv, CheckerInv, TornInv, CountInv,
     OneFaultInv, InTry, InExcept, InFinally, ProvisionPcs, StagePcs, TeardownPcs,
     ExceptPcs, DeletePcs, In, On
<1>2. CASE SkipPendingRun
  BY <1>2 DEF SkipPendingRun, Goto, rest, CInv, ControlInv, CheckerInv, TornInv,
     CountInv, OneFaultInv, InTry, InExcept, InFinally, ProvisionPcs, StagePcs,
     TeardownPcs, ExceptPcs, DeletePcs, In, On
<1>3. CASE Start
  <2>1. spec'.deleted = spec.deleted
    BY <1>3 DEF Start, TypeInv, TypeOK, SpecType
  <2> QED
    BY <1>3, <2>1 DEF Start, Goto, CInv, ControlInv, CheckerInv, TornInv,
       CountInv, OneFaultInv, InTry, InExcept, InFinally, ProvisionPcs,
       StagePcs, TeardownPcs, ExceptPcs, DeletePcs, In, On
<1>4. CASE SetPaths
  <2>1. spec'.deleted = spec.deleted
    BY <1>4 DEF SetPaths, TypeInv, TypeOK, SpecType
  <2>2. Flow(IF In("provision") THEN "construct" ELSE "body", "except")
    BY <1>4, <1>h, <2>1, FaultNotes DEF SetPaths, Goto, Raise, Substatus, Flow, Same
  <2> QED
    BY <1>4, <2>2, FlowKeeps DEF SetPaths, Way, Ways
<1>5. CASE ConstructResources
  BY <1>5, TryFlows, FlowKeeps DEF ConstructResources, Way, Ways
<1>6. CASE BenchmarkStart
  BY <1>6, TryFlows, FlowKeeps DEF BenchmarkStart, Way, Ways
<1>7. CASE CaptureVMLogs
  BY <1>7, TryFlows, FlowKeeps DEF CaptureVMLogs, Way, Ways
<1>8. CASE UpdateTimeoutMetadata
  BY <1>8, TryFlows, FlowKeeps DEF UpdateTimeoutMetadata, Way, Ways
<1>9. CASE AddSamples
  BY <1>9, TryFlows, FlowKeeps DEF AddSamples, Way, Ways
<1>10. CASE TornDownOnException
  BY <1>10, TryFlows, FlowKeeps DEF TornDownOnException, Way, Ways
<1>11. CASE LogsOnException
  BY <1>11, TryFlows, FlowKeeps DEF LogsOnException, Way, Ways
<1>12. CASE Publish
  BY <1>12, TryFlows, FlowKeeps DEF Publish, Way, Ways
<1>13. CASE PickleBefore
  BY <1>13, PickleFlows, FlowKeeps DEF PickleBefore, Way, Ways
<1>14. CASE PickleAfter
  BY <1>14, PickleFlows, FlowKeeps DEF PickleAfter, Way, Ways
<1>15. CASE PickleFinal
  <2>1. spec'.deleted = spec.deleted
    BY <1>15 DEF PickleFinal, TypeInv, TypeOK, SpecType
  <2> QED
    BY <1>15, <2>1, PickleFlows, FlowKeeps DEF PickleFinal, Way, Ways
<1>16. CASE Provision
  <2>1. PICK i \in 1..Len(ProvisionOrder), r \in Present : ProvisionOne(i, r)
    BY <1>16, ProvisionEffect
  <2>2. /\ pc = "provision"
        /\ UNCHANGED <<flags, ret, spec, should_teardown, checker, preempted>>
    BY <1>16 DEF Provision
  <2>3. Flow("provision", "pickle_after")
    BY <1>h, <2>1, <2>2, FaultNotes DEF ProvisionOne, Raise, Substatus, Flow, Same
  <2> QED
    BY <2>2, <2>3, FlowKeeps DEF Way, Ways
<1>17. CASE Provisioned
  <2>1. Flow("pickle_after", "pickle_after")
    BY <1>17 DEF Provisioned, Goto, rest, Flow, Same
  <2> QED
    BY <1>17, <2>1, FlowKeeps DEF Provisioned, Way, Ways
<1>18. CASE SkipStage
  <2>1. Flow("body", "except")
    BY <1>18 DEF SkipStage, Goto, rest, Flow, Same
  <2> QED
    BY <1>18, <2>1, FlowKeeps DEF SkipStage, Way, Ways
<1>19. CASE EndBody
  <2>1. Flow(IF In("teardown") THEN "logs" ELSE "samples", "except")
    BY <1>19 DEF EndBody, Goto, rest, Flow, Same
  <2> QED
    BY <1>19, <2>1, FlowKeeps DEF EndBody, Way, Ways
<1>20. CASE TeardownOnException
  <2>1. Flow(IF On("always_teardown_on_exception") /\ ~In("teardown")
             THEN "except_teardown" ELSE "except_logs", "finally")
    BY <1>20 DEF TeardownOnException, Goto, rest, Flow, Same
  <2> QED
    BY <1>20, <2>1, FlowKeeps DEF TeardownOnException, Way, Ways
<1>21. CASE ProvisionEnd
  <2>1. ASSUME pc' = "body" /\ UNCHANGED exc,
               hist' = [hist EXCEPT !.done = Append(@, "provision")]
        PROVE  Flow("body", "except")
    BY <1>21, <1>h, <2>1, NotesFact DEF ProvisionEnd, rest, Flow
  <2>2. ASSUME Raise("except"), Fault(hist) PROVE Flow("body", "except")
    BY <1>21, <1>h, <2>2, FaultNotes DEF ProvisionEnd, rest, Flow, Raise,
       Substatus
  <2>3. Flow("body", "except")
    BY <1>21, <2>1, <2>2 DEF ProvisionEnd, Goto
  <2> QED
    BY <1>21, <2>3, FlowKeeps DEF ProvisionEnd, Way, Ways
<1>22. CASE TornDown
  <2>1. ASSUME pc' = "samples" /\ UNCHANGED exc,
               hist' = [hist EXCEPT !.done = Append(@, "teardown")]
        PROVE  Flow("samples", "except")
    BY <1>22, <1>h, <2>1, NotesFact DEF TornDown, rest, Flow
  <2>2. ASSUME Raise("except"), Fault(hist) PROVE Flow("samples", "except")
    BY <1>22, <1>h, <2>2, FaultNotes DEF TornDown, rest, Flow, Raise, Substatus
  <2>3. Flow("samples", "except")
    BY <1>22, <2>1, <2>2 DEF TornDown, Goto
  <2> QED
    BY <1>22, <2>3, FlowKeeps DEF TornDown, Way, Ways
<1>23. CASE DoStage
  <2>1. spec'.deleted = spec.deleted
    BY <1>23 DEF DoStage, TypeInv, TypeOK, SpecType
  <2>2. Flow("end_stage", "except")
    BY <1>23, <1>h, <2>1, FaultNotes DEF DoStage, Raise, Substatus, Flow, Same
  <2> QED
    BY <1>23, <2>2, FlowKeeps DEF DoStage, Way, Ways
<1>24. CASE CleanupOnException
  <2>1. Flow("except_next", "finally")
    BY <1>24, <1>h, FaultNotes DEF CleanupOnException, rest, Goto, Raise,
       Substatus, Flow, Same
  <2> QED
    BY <1>24, <2>1, FlowKeeps DEF CleanupOnException, Way, Ways
<1>25. CASE StartStage
  <2>1. Fault(hist) => OneMore(hist', hist)
    BY <1>h, FaultNotes
  <2> QED
    BY <1>25, <1>h, <2>1 DEF StartStage, OneMore, CInv, ControlInv, CheckerInv,
       TornInv, CountInv, OneFaultInv, InTry, InExcept, InFinally, ProvisionPcs,
       StagePcs, TeardownPcs, ExceptPcs, DeletePcs, In, On
<1>26. CASE CheckInterrupt
  <2>1. OneMore(hist', hist)
    BY <1>26, <1>h, FaultNotes DEF CheckInterrupt
  <2> QED
    BY <1>26, <1>h, <2>1 DEF CheckInterrupt, OneMore, CInv, ControlInv,
       CheckerInv, TornInv, CountInv, OneFaultInv, InTry, InExcept, InFinally,
       ProvisionPcs, StagePcs, TeardownPcs, ExceptPcs, DeletePcs, In, On
<1>27. CASE EndStage
  <2>1. Fault(hist) => OneMore(hist', hist)
    BY <1>h, FaultNotes
  <2>2. Same([hist EXCEPT !.done = Append(@, BodyOrder[at])], hist)
    BY <1>h, NotesFact
  <2>3. \/ Same(hist', hist) /\ preempted /\ checker' = "none" /\ pc' = "except"
           /\ exc' = "INSUFFICIENT_CAPACITY"
        \/ Same(hist', hist) /\ ~preempted /\ checker' = "none" /\ pc' = "body"
           /\ exc' = exc
        \/ OneMore(hist', hist) /\ UNCHANGED checker /\ pc' = "except"
           /\ exc' = "PROCESS_KILLED"
    BY <1>27, <2>1, <2>2 DEF EndStage, Same
  <2>4. pc = "end_stage" /\ UNCHANGED <<flags, ret, spec, should_teardown, preempted>>
    BY <1>27 DEF EndStage
  <2> QED
    BY <1>h, <2>3, <2>4 DEF Same, OneMore, CInv, ControlInv, CheckerInv,
       TornInv, CountInv, OneFaultInv, InTry, InExcept, InFinally, ProvisionPcs,
       StagePcs, TeardownPcs, ExceptPcs, DeletePcs, In, On
<1>28. CASE ShouldTeardown
  <2>1. Fault(hist) => OneMore(hist', hist)
    BY <1>h, FaultNotes
  <2> QED
    BY <1>28, <1>h, <2>1 DEF ShouldTeardown, Goto, Raise, Substatus, OneMore,
       TypeInv, TypeOK, CInv, ControlInv, CheckerInv, TornInv, CountInv,
       OneFaultInv, InTry, InExcept, InFinally, ProvisionPcs, StagePcs,
       TeardownPcs, ExceptPcs, DeletePcs, In, On
<1>29. CASE DoTeardownPhase
  <2>1. Fault(hist) => OneMore(hist', hist)
    BY <1>h, FaultNotes
  <2> QED
    BY <1>29, <1>h, <2>1 DEF DoTeardownPhase, Goto, Raise, Substatus, Handler,
       OneMore, CInv, ControlInv, CheckerInv, TornInv, CountInv, OneFaultInv,
       InTry, InExcept, InFinally, ProvisionPcs, StagePcs, TeardownPcs,
       ExceptPcs, DeletePcs, In, On
<1>30. CASE DeleteStart
  <2>1. Fault([hist EXCEPT !.undeleted = TRUE])
          => /\ hist'.here = hist.here + 1 /\ hist'.caught = hist.caught
             /\ hist'.undeleted = TRUE
    BY <1>h, UndeletedNotes
  <2>2. \/ spec.deleted /\ pc' = Return[ret] /\ UNCHANGED <<hist, exc>>
        \/ pc' = "deleting" /\ UNCHANGED <<hist, exc>>
        \/ /\ pc' = Handler[ret] /\ exc' # "none"
           /\ hist'.here = hist.here + 1 /\ hist'.caught = hist.caught
           /\ hist'.undeleted = TRUE
    BY <1>30, <2>1 DEF DeleteStart, Goto, Raise, Substatus
  <2>3. /\ pc = "delete"
        /\ UNCHANGED <<flags, ret, spec, should_teardown, checker, preempted>>
    BY <1>30 DEF DeleteStart
  <2>4. ret \in {"teardown", "except", "finally"}
    BY DEF TypeInv, TypeOK
  <2> QED
    BY <1>h, <2>2, <2>3, <2>4 DEF Handler, Return, CInv, ControlInv, CheckerInv,
       TornInv, CountInv, OneFaultInv, InTry, InExcept, InFinally, ProvisionPcs,
       StagePcs, TeardownPcs, ExceptPcs, DeletePcs, In, On
<1>31. CASE Delete
  <2>1. PICK i \in 1..Len(DeleteOrder), r \in Present : DeleteOne(i, r)
    BY <1>31, DeleteEffect
  <2>2. Froze(r) \in HistType /\ Same(Froze(r), hist)
    BY <1>h, FrozeFact DEF Same
  <2>3. Fault([Froze(r) EXCEPT !.swallowed = @ \cup Block(r)]) => OneMore(hist', hist)
    <3> DEFINE g == [Froze(r) EXCEPT !.swallowed = @ \cup Block(r)]
    <3>1. g \in HistType /\ Same(g, hist)
      <4>1. Block(r) \in SUBSET Present
        BY DEF Block
      <4>2. g \in HistType /\ Same(g, Froze(r))
        BY <2>2, <4>1, HistFact, NotesFact
      <4> QED
        BY <2>2, <4>2 DEF Same
    <3> HIDE DEF g
    <3>2. Fault(g) => OneMore(hist', hist)
      BY <3>1, FaultNotes DEF Same, OneMore
    <3> QED
      BY <3>2 DEF g
  <2>4. Fault([Froze(r) EXCEPT !.undeleted = TRUE])
          => /\ hist'.here = hist.here + 1 /\ hist'.caught = hist.caught
             /\ hist'.undeleted = TRUE
    BY <2>2, UndeletedNotes DEF Same
  <2>5. DeleteRaises(r, i) =>
          \/ UNCHANGED <<pc, exc>> /\ OneMore(hist', hist)
          \/ /\ pc' = Handler[ret] /\ exc' # "none"
             /\ hist'.here = hist.here + 1 /\ hist'.caught = hist.caught
             /\ hist'.undeleted = TRUE
    BY <2>3, <2>4 DEF DeleteRaises, Raise, Substatus
  <2>6. \/ UNCHANGED <<pc, exc>> /\ (Same(hist', hist) \/ OneMore(hist', hist))
        \/ /\ pc' = Handler[ret] /\ exc' # "none"
           /\ hist'.here = hist.here + 1 /\ hist'.caught = hist.caught
           /\ hist'.undeleted = TRUE
    <3> DEFINE g == [hist EXCEPT !.undeleted = TRUE, !.here = @ + 1]
    <3>1. /\ g.here = hist.here + 1 /\ g.caught = hist.caught
          /\ g.undeleted = TRUE
      BY <1>h DEF HistType
    <3>2. Same(hist, hist)
      BY DEF Same
    <3>3. \/ UNCHANGED <<pc, exc>> /\ hist' \in {hist, Froze(r)}
          \/ exc' = "UNCATEGORIZED" /\ pc' = Handler[ret] /\ hist' = g
          \/ DeleteRaises(r, i)
      BY <2>1 DEF DeleteOne
    <3> HIDE DEF g
    <3> QED
      BY <2>2, <2>5, <3>1, <3>2, <3>3
  <2>7. /\ pc = "deleting"
        /\ UNCHANGED <<flags, ret, spec, should_teardown, checker, preempted>>
    BY <1>31 DEF Delete
  <2>8. ret \in {"teardown", "except", "finally"}
    BY DEF TypeInv, TypeOK
  <2> QED
    BY <1>h, <2>6, <2>7, <2>8 DEF Same, OneMore, Handler, CInv, ControlInv,
       CheckerInv, TornInv, CountInv, OneFaultInv, InTry, InExcept, InFinally,
       ProvisionPcs, StagePcs, TeardownPcs, ExceptPcs, DeletePcs, In, On
<1>32. CASE DeleteEnd
  <2>1. spec'.deleted /\ spec'.status = spec.status
    BY <1>32 DEF DeleteEnd, TypeInv, TypeOK, SpecType
  <2>2. /\ pc = "deleting" /\ pc' = Return[ret]
        /\ UNCHANGED <<flags, ret, exc, should_teardown, checker, preempted, hist>>
    BY <1>32 DEF DeleteEnd, Goto
  <2>3. ret \in {"teardown", "except", "finally"}
    BY DEF TypeInv, TypeOK
  <2> QED
    BY <2>1, <2>2, <2>3 DEF Return, CInv, ControlInv, CheckerInv, TornInv,
       CountInv, OneFaultInv, InTry, InExcept, InFinally, ProvisionPcs,
       StagePcs, TeardownPcs, ExceptPcs, DeletePcs, In, On
<1>33. CASE Except
  <2>1. spec'.deleted = spec.deleted /\ spec'.status = spec.status
    BY <1>33 DEF Except, TypeInv, TypeOK, SpecType
  <2>2. hist'.here = hist.here /\ hist'.caught /\ hist'.undeleted = hist.undeleted
    BY <1>33, <1>h, NotesFact DEF Except
  <2>3. /\ pc = "except" /\ pc' \in {"publish_failed", "except_cleanup"}
        /\ UNCHANGED <<flags, ret, exc, should_teardown, checker, preempted>>
    BY <1>33 DEF Except, Goto
  <2> QED
    BY <2>1, <2>2, <2>3 DEF CInv, ControlInv, CheckerInv, TornInv, CountInv,
     OneFaultInv, InTry, InExcept, InFinally, ProvisionPcs, StagePcs, TeardownPcs,
     ExceptPcs, DeletePcs, In, On
<1>34. CASE PublishFailedRunSample
  <2>1. spec'.deleted = spec.deleted /\ spec'.status = spec.status
    BY <1>34 DEF PublishFailedRunSample, TypeInv, TypeOK, SpecType
  <2>2. Fault(hist) => OneMore(hist', hist)
    BY <1>h, FaultNotes
  <2>3. \/ pc' = "except_cleanup" /\ exc' = exc /\ hist' = hist
        \/ pc' = "finally" /\ exc' # "none" /\ OneMore(hist', hist)
    BY <1>34, <2>2 DEF PublishFailedRunSample, Goto, Raise, Substatus
  <2>4. /\ pc = "publish_failed"
        /\ UNCHANGED <<flags, ret, should_teardown, checker>>
    BY <1>34 DEF PublishFailedRunSample
  <2> QED
    BY <1>h, <2>1, <2>3, <2>4 DEF OneMore, CInv, ControlInv, CheckerInv,
       TornInv, CountInv, OneFaultInv, InTry, InExcept, InFinally, ProvisionPcs,
       StagePcs, TeardownPcs, ExceptPcs, DeletePcs, In, On
<1>35. CASE Finally
  <2>1. Fault([hist EXCEPT !.undeleted = TRUE])
          => /\ hist'.here = hist.here + 1 /\ hist'.caught = hist.caught
             /\ hist'.undeleted = TRUE
    BY <1>h, UndeletedNotes
  <2>2. \/ /\ pc' = IF In("teardown") /\ should_teardown THEN "delete" ELSE "publish"
           /\ checker' = (IF checker = "running" THEN "none" ELSE checker)
           /\ UNCHANGED <<exc, hist>>
        \/ /\ pc' = "ended" /\ exc' # "none"
           /\ hist'.here = hist.here + 1 /\ hist'.caught = hist.caught
           /\ hist'.undeleted = TRUE
    BY <1>35, <2>1 DEF Finally, Goto
  <2>3. /\ pc = "finally" /\ ret' = "finally"
        /\ UNCHANGED <<flags, spec, should_teardown, preempted>>
    BY <1>35 DEF Finally
  <2> QED
    BY <1>h, <2>2, <2>3 DEF CInv, ControlInv, CheckerInv, TornInv, CountInv,
     OneFaultInv, InTry, InExcept, InFinally, ProvisionPcs, StagePcs, TeardownPcs,
     ExceptPcs, DeletePcs, In, On
<1>36. CASE Crash
  <2> DEFINE h == [hist EXCEPT !.lost = hist.lost \/ file' # file
                                       \/ pc \in {"provision", "pickle_after"}]
  <2>1. h \in HistType /\ Same(h, hist)
    <3> DEFINE lost == hist.lost \/ file' # file \/ pc \in {"provision", "pickle_after"}
    <3>1. lost \in BOOLEAN
      OBVIOUS
    <3> HIDE DEF lost
    <3>2. [hist EXCEPT !.lost = lost] \in HistType
      BY <1>h, <3>1 DEF HistType
    <3>3. Same([hist EXCEPT !.lost = lost], hist)
      BY <1>h, NotesFact
    <3> QED
      BY <3>2, <3>3 DEF lost
  <2>2. Fault(h) /\ pc' = "idle" /\ exc' = exc /\ preempted' = preempted
        /\ flags' = flags /\ spec' = spec
    BY <1>36 DEF Crash
  <2> HIDE DEF h
  <2>3. OneMore(hist', hist)
    BY <2>1, <2>2, FaultNotes DEF Same, OneMore
  <2> QED
    BY <1>h, <2>2, <2>3 DEF OneMore, CInv, ControlInv, CheckerInv, TornInv,
       CountInv, OneFaultInv, InTry, InExcept, InFinally, ProvisionPcs,
       StagePcs, TeardownPcs, ExceptPcs, DeletePcs, In, On
<1>37. CASE UNCHANGED vars
  BY <1>37 DEF vars, process, CInv, ControlInv, CheckerInv, TornInv, CountInv,
     OneFaultInv, InTry, InExcept, InFinally, ProvisionPcs, StagePcs, TeardownPcs,
     ExceptPcs, DeletePcs, In, On
<1> QED
  BY <1>1, <1>2, <1>3, <1>4, <1>5, <1>6, <1>7, <1>8, <1>9, <1>10,
     <1>11, <1>12, <1>13, <1>14, <1>15, <1>16, <1>17, <1>18, <1>19, <1>20,
     <1>21, <1>22, <1>23, <1>24, <1>25, <1>26, <1>27, <1>28, <1>29, <1>30,
     <1>31, <1>32, <1>33, <1>34, <1>35, <1>36, <1>37
     DEF Next, ProvisionPhase, BodyPhase, TeardownPhase, ExceptBlock, FinallyBlock

-----------------------------------------------------------------------------
(***************************************************************************)
(* Delete works through its order, behind which nothing is left.           *)
(***************************************************************************)
\* Notes that say nothing of deletions.
Calm(g, h) == /\ g.swallowed = h.swallowed /\ g.froze = h.froze
              /\ g.here \in Nat /\ g.here >= h.here

\* Notes leave the list of stages and of swallowed deletions alone, unless they
\* are about them.
LEMMA SideNotes ==
    ASSUME NEW h \in HistType
    PROVE  /\ Calm(h, h)
           /\ \A b : Calm([h EXCEPT !.lost = b], h) /\ [h EXCEPT !.lost = b].done = h.done
           /\ Calm([h EXCEPT !.undeleted = TRUE], h)
           /\ [h EXCEPT !.undeleted = TRUE].done = h.done
           /\ Calm([h EXCEPT !.caught = TRUE], h)
           /\ [h EXCEPT !.caught = TRUE].done = h.done
           /\ \A s : /\ [h EXCEPT !.done = Append(@, s)].done = Append(h.done, s)
                    /\ Calm([h EXCEPT !.done = Append(@, s)], h)
           /\ \A S : /\ [h EXCEPT !.swallowed = @ \cup S].done = h.done
                    /\ [h EXCEPT !.swallowed = @ \cup S].swallowed = h.swallowed \cup S
                    /\ [h EXCEPT !.swallowed = @ \cup S].froze = h.froze
BY DEF HistType, Calm

\* A failure that is counted in addition says nothing of deletions either.
LEMMA CalmFault ==
    ASSUME hist \in HistType, NEW h \in HistType, Calm(h, hist), Fault(h)
    PROVE  Calm(hist', hist)
<1>1. hist'.here = h.here + 1 /\ hist'.swallowed = h.swallowed /\ hist'.froze = h.froze
  BY FaultNotes DEF OneMore
<1>2. hist.here \in Nat
  BY DEF HistType
<1> QED
  BY <1>1, <1>2 DEF Calm

\* Every kind of resource has its place in the order of deletion, the networks
\* and the VPN service come last, and the scratch disks right after the VMs.
LEMMA OrderFact ==
    /\ Len(ProvisionOrder) = 30 /\ Len(DeleteOrder) = 30
    /\ \A r \in Present : \E j \in 1..30 : r = DeleteOrder[j]
    /\ ProvisionOrder[1] = "capacity_reservations" /\ ProvisionOrder[2] = "networks"
    /\ DeleteOrder[30] = "vpn_service" /\ DeleteOrder[25] = "scratch_disks"
    /\ \A i \in 1..30 : DeleteOrder[i] = "networks" => i = 29
    /\ \A i \in 1..30 : DeleteOrder[i] = "vms" => i = 24
<1>1. /\ Len(ProvisionOrder) = 30 /\ Len(DeleteOrder) = 30
      /\ ProvisionOrder[1] = "capacity_reservations" /\ ProvisionOrder[2] = "networks"
  BY DEF ProvisionOrder, DeleteOrder
<1>2. DeleteOrder[30] = "vpn_service" /\ DeleteOrder[25] = "scratch_disks"
  BY DEF DeleteOrder
<1>3. \A i \in 1..30 : DeleteOrder[i] = "networks" => i = 29
  BY DEF DeleteOrder
<1>4. \A i \in 1..30 : DeleteOrder[i] = "vms" => i = 24
  BY DEF DeleteOrder
<1>5. ASSUME NEW i \in 1..30 PROVE \E j \in 1..30 : ProvisionOrder[i] = DeleteOrder[j]
  BY DEF ProvisionOrder, DeleteOrder
<1>6. \A r \in Present : \E i \in 1..30 : r = ProvisionOrder[i]
  BY <1>1, RunAssumption DEF ToSet
<1> QED
  BY <1>1, <1>2, <1>3, <1>4, <1>5, <1>6

\* Steps that have to do with neither Provision nor Delete.
Begun == {"start", "setup"} \cup ProvisionPcs
Aside ==
    /\ UNCHANGED <<objs, cloud, frozen>> /\ Calm(hist', hist)
    /\ spec'.deleted = spec.deleted /\ spec'.freeze = spec.freeze
    /\ pc' = "deleting" => pc = "deleting" /\ at' = at
    /\ pc = "deleting" => pc' = "deleting" \/ hist'.here >= 1
    /\ pc' = "provision" => at' = 1 \/ (pc = "provision" /\ at' = at)
    /\ pc' \in Begun => pc \in Begun

\* Such steps keep what Delete has passed.
LEMMA AsideKeeps ==
    ASSUME TypeInv, DeleteInv, NetworksFirst, Aside
    PROVE  DeleteInv' /\ NetworksFirst'
<1>1. Left' = Left
  BY DEF Aside, Left, Freezes
<1>2. Passed' /\ Emptied'
  BY <1>1 DEF Aside, Calm, DeleteInv, Passed, Emptied
<1>3. Untouched' /\ NetworksFirst'
  BY DEF Aside, Calm, DeleteInv, Untouched, NetworksFirst, Begun
<1>4. FreezeInv'
  <2>1. hist.here \in Nat /\ hist'.here \in Nat /\ hist'.here >= hist.here
    BY DEF Aside, Calm, TypeInv, TypeOK, HistType
  <2>2. Knows' <=> Knows
    BY DEF Aside, Knows
  <2> QED
    BY <2>1, <2>2 DEF Aside, Calm, DeleteInv, FreezeInv
<1> QED
  BY <1>2, <1>3, <1>4 DEF DeleteInv

\* Nothing is deleted before the first process.
LEMMA DeleteInit == Init => DeleteInv /\ NetworksFirst
<1>1. ASSUME Init PROVE DeleteInv /\ NetworksFirst
  <2>1. pc = "idle" /\ ~spec.deleted /\ hist.froze = {}
    BY <1>1 DEF Init, NewSpec
  <2> QED
    BY <2>1 DEF DeleteInv, Passed, Emptied, Untouched, FreezeInv, NetworksFirst,
       ProvisionPcs
<1> QED
  BY <1>1

\* What a Delete of one resource does to what is left.
LEMMA DeleteLeaves ==
    ASSUME TypeInv, NEW i \in 1..Len(DeleteOrder), NEW r \in Present, DeleteOne(i, r),
           UNCHANGED spec
    PROVE  /\ cloud' \subseteq cloud /\ cloud \ cloud' \subseteq {r}
           /\ \A x \in Present : objs'[x].created = objs[x].created
           /\ Left' \subseteq Left
<1>1. cloud' \subseteq cloud /\ cloud \ cloud' \subseteq {r}
  BY DEF DeleteOne, MarkDeleted
<1>2. \A x \in Present : objs'[x].created = objs[x].created
  BY DEF DeleteOne, MarkDeleted, TypeInv, TypeOK, ObjsType
<1> QED
  BY <1>1, <1>2 DEF Left, Freezes, TypeInv, TypeOK

\* Every statement keeps what Delete has passed, and the networks in front.
LEMMA DeleteStep ==
    TypeInv /\ RecoveryInv /\ DeleteInv /\ NetworksFirst /\ [Next]_vars
      => DeleteInv' /\ NetworksFirst'
<1> SUFFICES ASSUME TypeInv, RecoveryInv, DeleteInv, NetworksFirst, [Next]_vars
             PROVE  DeleteInv' /\ NetworksFirst'
  OBVIOUS
<1>h. hist \in HistType
  BY DEF TypeInv, TypeOK
<1>c. Calm(hist, hist)
  BY <1>h, SideNotes
<1>f. Fault(hist) => Calm(hist', hist)
  BY <1>h, <1>c, CalmFault
<1>g. ret \in {"teardown", "except", "finally"}
  BY DEF TypeInv, TypeOK
<1>1. ASSUME NEW f \in Flags, GetBenchmarkSpec(f) PROVE DeleteInv' /\ NetworksFirst'
  <2>1. file.spec \in SpecType
    BY DEF TypeInv, TypeOK, FileType
  <2>2. ~[file.spec EXCEPT !.deleted = FALSE, !.status = "SKIPPED"].deleted
    BY <2>1 DEF SpecType
  <2>3. pc' = "start" /\ ~spec'.deleted /\ hist'.froze = {}
    <3>1. \A b : ~[NewSpec EXCEPT !.always_call_cleanup = b].deleted
      BY DEF NewSpec
    <3>2. hist'.froze = {}
      BY <1>1, <1>h DEF GetBenchmarkSpec, HistType
    <3> QED
      BY <1>1, <2>2, <3>1, <3>2 DEF GetBenchmarkSpec
  <2> QED
    BY <2>3 DEF DeleteInv, Passed, Emptied, Untouched, FreezeInv, NetworksFirst
<1>2. CASE SetPaths
  <2>1. ~spec'.deleted /\ hist.froze = {} /\ hist' \in HistType
    BY <1>2, <1>h, FaultFact DEF SetPaths, DeleteInv, Untouched, TypeInv, TypeOK,
       SpecType
  <2>2. hist'.froze = {}
    BY <1>2, <1>c, <1>f, <2>1 DEF SetPaths, Calm
  <2>3. pc' \in {"construct", "body", "except"}
    BY <1>2 DEF SetPaths, Goto, Raise
  <2> QED
    BY <2>1, <2>2, <2>3 DEF DeleteInv, Passed, Emptied, Untouched, FreezeInv,
       NetworksFirst
<1>3. CASE ConstructResources
  <2>1. Aside
    BY <1>3, <1>c, <1>f DEF ConstructResources, Try, Goto, Raise, rest, Aside, Begun,
       ProvisionPcs
  <2> QED
    BY <2>1, AsideKeeps
<1>4. CASE BenchmarkStart
  <2>1. Aside
    BY <1>4, <1>c, <1>f DEF BenchmarkStart, Try, Goto, Raise, rest, Aside, Begun,
       ProvisionPcs
  <2> QED
    BY <2>1, AsideKeeps
<1>5. CASE CaptureVMLogs
  <2>1. Aside
    BY <1>5, <1>c, <1>f DEF CaptureVMLogs, Try, Goto, Raise, rest, Aside, Begun,
       ProvisionPcs
  <2> QED
    BY <2>1, AsideKeeps
<1>6. CASE UpdateTimeoutMetadata
  <2>1. Aside
    BY <1>6, <1>c, <1>f DEF UpdateTimeoutMetadata, Try, Goto, Raise, rest, Aside,
       Begun, ProvisionPcs
  <2> QED
    BY <2>1, AsideKeeps
<1>7. CASE AddSamples
  <2>1. Aside
    BY <1>7, <1>c, <1>f DEF AddSamples, Try, Goto, Raise, rest, Aside, Begun,
       ProvisionPcs
  <2> QED
    BY <2>1, AsideKeeps
<1>8. CASE TornDownOnException
  <2>1. Aside
    BY <1>8, <1>c, <1>f DEF TornDownOnException, Try, Goto, Raise, rest, Aside, Begun,
       ProvisionPcs
  <2> QED
    BY <2>1, AsideKeeps
<1>9. CASE LogsOnException
  <2>1. Aside
    BY <1>9, <1>c, <1>f DEF LogsOnException, Try, Goto, Raise, rest, Aside, Begun,
       ProvisionPcs
  <2> QED
    BY <2>1, AsideKeeps
<1>10. CASE Publish
  <2>1. Aside
    BY <1>10, <1>c, <1>f DEF Publish, Try, Goto, Raise, rest, Aside, Begun, ProvisionPcs
  <2> QED
    BY <2>1, AsideKeeps
<1>11. CASE SkipPendingRun
  <2>1. Aside
    BY <1>11, <1>c, <1>f DEF SkipPendingRun, Goto, Raise, Handler, rest, Aside, Begun,
       ProvisionPcs
  <2> QED
    BY <2>1, AsideKeeps
<1>12. CASE Provisioned
  <2>1. Aside
    BY <1>12, <1>c, <1>f DEF Provisioned, Goto, Raise, Handler, rest, Aside, Begun,
       ProvisionPcs
  <2> QED
    BY <2>1, AsideKeeps
<1>13. CASE SkipStage
  <2>1. Aside
    BY <1>13, <1>c, <1>f DEF SkipStage, Goto, Raise, Handler, rest, Aside, Begun,
       ProvisionPcs
  <2> QED
    BY <2>1, AsideKeeps
<1>14. CASE StartStage
  <2>1. Aside
    BY <1>14, <1>c, <1>f DEF StartStage, Goto, Raise, Handler, rest, Aside, Begun,
       ProvisionPcs
  <2> QED
    BY <2>1, AsideKeeps
<1>15. CASE CheckInterrupt
  <2>1. Aside
    BY <1>15, <1>c, <1>f DEF CheckInterrupt, Goto, Raise, Handler, rest, Aside, Begun,
       ProvisionPcs
  <2> QED
    BY <2>1, AsideKeeps
<1>16. CASE EndBody
  <2>1. Aside
    BY <1>16, <1>c, <1>f DEF EndBody, Goto, Raise, Handler, rest, Aside, Begun,
       ProvisionPcs
  <2> QED
    BY <2>1, AsideKeeps
<1>17. CASE ShouldTeardown
  <2>1. Aside
    BY <1>17, <1>c, <1>f DEF ShouldTeardown, Goto, Raise, Handler, rest, Aside, Begun,
       ProvisionPcs
  <2> QED
    BY <2>1, AsideKeeps
<1>18. CASE DoTeardownPhase
  <2>1. Aside
    BY <1>18, <1>c, <1>f DEF DoTeardownPhase, Goto, Raise, Handler, rest, Aside,
       Begun, ProvisionPcs
  <2> QED
    BY <2>1, AsideKeeps
<1>19. CASE TeardownOnException
  <2>1. Aside
    BY <1>19, <1>c, <1>f DEF TeardownOnException, Goto, Raise, Handler, rest, Aside,
       Begun, ProvisionPcs
  <2> QED
    BY <2>1, AsideKeeps
<1>20. CASE Start
  <2>1. spec'.deleted = spec.deleted /\ spec'.freeze = spec.freeze
    BY <1>20 DEF Start, TypeInv, TypeOK, SpecType
  <2>2. Aside
    BY <1>20, <1>c, <1>f, <2>1 DEF Start, Goto, Raise, Handler, rest, Aside, Begun,
       ProvisionPcs
  <2> QED
    BY <2>2, AsideKeeps
<1>21. CASE PublishFailedRunSample
  <2>1. spec'.deleted = spec.deleted /\ spec'.freeze = spec.freeze
    BY <1>21 DEF PublishFailedRunSample, TypeInv, TypeOK, SpecType
  <2>2. Aside
    BY <1>21, <1>c, <1>f, <2>1 DEF PublishFailedRunSample, Goto, Raise, Handler, rest,
       Aside, Begun, ProvisionPcs
  <2> QED
    BY <2>2, AsideKeeps
<1>22. CASE ProvisionEnd
  <2>1. Calm([hist EXCEPT !.done = Append(@, "provision")], hist)
    BY <1>h, SideNotes
  <2>2. Calm(hist', hist)
    BY <1>22, <1>c, <1>f, <2>1 DEF ProvisionEnd
  <2>3. Aside
    BY <1>22, <2>2 DEF ProvisionEnd, Goto, Raise, rest, Aside, Begun, ProvisionPcs
  <2> QED
    BY <2>3, AsideKeeps
<1>23. CASE EndStage
  <2>1. Calm([hist EXCEPT !.done = Append(@, BodyOrder[at])], hist)
    BY <1>h, SideNotes
  <2>2. Calm(hist', hist)
    BY <1>23, <1>c, <1>f, <2>1 DEF EndStage
  <2>3. Aside
    BY <1>23, <2>2 DEF EndStage, Goto, Raise, rest, Aside, Begun, ProvisionPcs
  <2> QED
    BY <2>3, AsideKeeps
<1>24. CASE TornDown
  <2>1. Calm([hist EXCEPT !.done = Append(@, "teardown")], hist)
    BY <1>h, SideNotes
  <2>2. Calm(hist', hist)
    BY <1>24, <1>c, <1>f, <2>1 DEF TornDown
  <2>3. Aside
    BY <1>24, <2>2 DEF TornDown, Goto, Raise, rest, Aside, Begun, ProvisionPcs
  <2> QED
    BY <2>3, AsideKeeps
<1>25. CASE Except
  <2>1. spec'.deleted = spec.deleted /\ spec'.freeze = spec.freeze
    BY <1>25 DEF Except, TypeInv, TypeOK, SpecType
  <2>2. Calm(hist', hist)
    BY <1>25, <1>h, SideNotes DEF Except
  <2>3. Aside
    BY <1>25, <2>1, <2>2 DEF Except, Goto, Aside, Begun, ProvisionPcs
  <2> QED
    BY <2>3, AsideKeeps
<1>26. CASE DoStage
  <2>1. spec'.deleted = spec.deleted /\ spec'.freeze = spec.freeze
    BY <1>26 DEF DoStage, TypeInv, TypeOK, SpecType
  <2>2. Aside
    BY <1>26, <1>c, <1>f, <2>1 DEF DoStage, Raise, Aside, Begun, ProvisionPcs
  <2> QED
    BY <2>2, AsideKeeps
<1>27. CASE CleanupOnException
  <2>1. Aside
    BY <1>27, <1>c, <1>f DEF CleanupOnException, Goto, Raise, rest, Aside, Begun,
       ProvisionPcs
  <2> QED
    BY <2>1, AsideKeeps
<1>28. CASE PickleBefore
  <2> DEFINE h == [hist EXCEPT !.lost = TRUE]
  <2>1. h \in HistType /\ Calm(h, hist)
    BY <1>h, HistFact, SideNotes
  <2>2. hist' = hist \/ Fault(h)
    BY <1>28 DEF PickleBefore, Pickle
  <2>3. Calm(hist', hist)
    <3> HIDE DEF h
    <3> QED
      BY <1>h, <1>c, <2>1, <2>2, CalmFault
  <2>4. spec'.deleted = spec.deleted /\ spec'.freeze = spec.freeze
    BY <1>28 DEF PickleBefore, TypeInv, TypeOK, SpecType
  <2>5. Aside
    BY <1>28, <2>3, <2>4 DEF PickleBefore, Pickle, Goto, Raise, Aside, Begun,
       ProvisionPcs
  <2> QED
    BY <2>5, AsideKeeps
<1>29. CASE PickleAfter
  <2> DEFINE h == [hist EXCEPT !.lost = TRUE]
  <2>1. h \in HistType /\ Calm(h, hist)
    BY <1>h, HistFact, SideNotes
  <2>2. hist' = hist \/ Fault(h)
    BY <1>29 DEF PickleAfter, Pickle
  <2>3. Calm(hist', hist)
    <3> HIDE DEF h
    <3> QED
      BY <1>h, <1>c, <2>1, <2>2, CalmFault
  <2>4. spec'.deleted = spec.deleted /\ spec'.freeze = spec.freeze
    BY <1>29 DEF PickleAfter, TypeInv, TypeOK, SpecType
  <2>5. Aside
    BY <1>29, <2>3, <2>4 DEF PickleAfter, Pickle, Goto, Raise, Aside, Begun,
       ProvisionPcs
  <2> QED
    BY <2>5, AsideKeeps
<1>30. CASE PickleFinal
  <2> DEFINE h == [hist EXCEPT !.lost = TRUE]
  <2>1. h \in HistType /\ Calm(h, hist)
    BY <1>h, HistFact, SideNotes
  <2>2. hist' = hist \/ Fault(h)
    BY <1>30 DEF PickleFinal, Pickle
  <2>3. Calm(hist', hist)
    <3> HIDE DEF h
    <3> QED
      BY <1>h, <1>c, <2>1, <2>2, CalmFault
  <2>4. spec'.deleted = spec.deleted /\ spec'.freeze = spec.freeze
    BY <1>30 DEF PickleFinal, TypeInv, TypeOK, SpecType
  <2>5. Aside
    BY <1>30, <2>3, <2>4 DEF PickleFinal, Pickle, Goto, Raise, Aside, Begun,
       ProvisionPcs
  <2> QED
    BY <2>5, AsideKeeps
<1>31. CASE Finally
  <2> DEFINE h == [hist EXCEPT !.undeleted = TRUE]
  <2>1. h \in HistType /\ Calm(h, hist)
    BY <1>h, HistFact, SideNotes
  <2>2. hist' = hist \/ Fault(h)
    BY <1>31 DEF Finally
  <2>3. Calm(hist', hist)
    <3> HIDE DEF h
    <3> QED
      BY <1>h, <1>c, <2>1, <2>2, CalmFault
  <2>4. Aside
    BY <1>31, <2>3 DEF Finally, Goto, Aside, Begun, ProvisionPcs
  <2> QED
    BY <2>4, AsideKeeps
<1>32. CASE DeleteStart
  <2>1. CASE spec.deleted
    <3>1. Aside
      BY <1>32, <1>c, <1>g, <2>1 DEF DeleteStart, Goto, Return, Aside, Begun,
         ProvisionPcs
    <3> QED
      BY <3>1, AsideKeeps
  <2>2. CASE ~spec.deleted
    <3>1. /\ pc = "delete" /\ pc' \in {"deleting"} \cup {Handler[ret]} /\ at' = 1
          /\ UNCHANGED <<spec, objs, cloud>>
      BY <1>32, <1>g, <2>2 DEF DeleteStart, Goto, Raise, Handler
    <3>2. pc' \in {"deleting", "except", "finally", "ended"}
      BY <1>g, <3>1 DEF Handler
    <3>3. Passed' /\ Emptied' /\ Untouched' /\ NetworksFirst'
      BY <2>2, <3>1, <3>2 DEF DeleteInv, Passed, Emptied, Untouched,
         NetworksFirst, ProvisionPcs
    <3>4. ASSUME hist' = hist, pc' = "deleting" PROVE FreezeInv'
      <4>1. IF spec.freeze
            THEN frozen' = [state |-> "saved", objs |-> objs, spec |-> spec]
            ELSE frozen' = frozen
        BY <1>32, <1>g, <2>2, <3>4 DEF DeleteStart, Goto, Raise, Handler
      <4>2. CASE spec.freeze
        <5>1. Knows'
          BY <3>1, <4>1, <4>2 DEF Knows
        <5> QED
          BY <3>4, <5>1 DEF FreezeInv
      <4>3. CASE ~spec.freeze
        <5>1. Knows' <=> Knows
          BY <3>1, <4>1, <4>3 DEF Knows
        <5> QED
          BY <3>1, <3>4, <4>3, <5>1 DEF DeleteInv, FreezeInv
      <4> QED
        BY <4>2, <4>3
    <3>5. ASSUME pc' # "deleting", Fault([hist EXCEPT !.undeleted = TRUE])
          PROVE  FreezeInv'
      <4> DEFINE h == [hist EXCEPT !.undeleted = TRUE]
      <4>1. h \in HistType /\ h.froze = hist.froze /\ h.here = hist.here
        BY <1>h, HistFact DEF HistType
      <4>2. Fault(h)
        BY <3>5
      <4> HIDE DEF h
      <4>3. hist'.froze = hist.froze /\ hist'.here = hist.here + 1
        BY <4>1, <4>2, FaultNotes DEF OneMore
      <4>4. hist.here \in Nat
        BY <1>h DEF HistType
      <4> QED
        BY <2>2, <3>1, <3>5, <4>3, <4>4 DEF DeleteInv, FreezeInv
    <3>6. \/ hist' = hist /\ pc' = "deleting"
          \/ pc' # "deleting" /\ Fault([hist EXCEPT !.undeleted = TRUE])
      BY <1>32, <1>g, <2>2 DEF DeleteStart, Goto, Raise, Handler
    <3> QED
      BY <3>3, <3>4, <3>5, <3>6 DEF DeleteInv
  <2> QED
    BY <2>1, <2>2
<1>33. CASE Provision
  <2>1. PICK i \in 1..Len(ProvisionOrder), r \in Present : ProvisionOne(i, r)
    BY <1>33, ProvisionEffect
  <2>2. /\ pc = "provision" /\ pc' \in {"provision", "pickle_after"}
        /\ UNCHANGED <<spec, frozen>>
    BY <1>33, <2>1 DEF Provision, ProvisionOne, Raise
  <2>3. ~spec'.deleted /\ hist'.froze = {}
    <3>1. ~spec.deleted /\ hist.froze = {}
      BY <2>2 DEF DeleteInv, Untouched, ProvisionPcs
    <3>2. hist'.froze = hist.froze
      BY <1>c, <1>f, <2>1 DEF ProvisionOne, Calm
    <3> QED
      BY <2>2, <3>1, <3>2
  <2>4. DeleteInv'
    BY <2>2, <2>3 DEF DeleteInv, Passed, Emptied, Untouched, FreezeInv
  <2>5. ASSUME pc' = "provision", at' > 2, "networks" \in Present
        PROVE  "networks" \in cloud'
    <3>1. at' = i + 1 /\ cloud' = cloud \cup {r} /\ r = ProvisionOrder[i]
      BY <2>1, <2>5 DEF ProvisionOne, Raise
    <3>2. i >= 2 /\ i \in Nat /\ at \in Nat
      BY <2>5, <3>1 DEF TypeInv, TypeOK
    <3>3. CASE i = 2
      BY <3>1, <3>3, OrderFact
    <3>4. CASE i > 2 /\ at > 2
      BY <2>2, <2>5, <3>1, <3>4 DEF NetworksFirst
    <3>5. CASE i > 2 /\ at <= 2
      <4>1. ProvisionOrder[2] \notin Present
        BY <2>1, <3>2, <3>5 DEF ProvisionOne, Due
      <4> QED
        BY <2>5, <4>1, OrderFact
    <3> QED
      BY <3>2, <3>3, <3>4, <3>5
  <2> QED
    BY <2>4, <2>5 DEF NetworksFirst
<1>34. CASE Delete
  <2>1. PICK i \in 1..Len(DeleteOrder), r \in Present : DeleteOne(i, r)
    BY <1>34, DeleteEffect
  <2>2. pc = "deleting" /\ UNCHANGED <<spec, frozen, ret>> /\ ~spec.deleted
    BY <1>34 DEF Delete, DeleteInv, Passed
  <2>3. /\ cloud' \subseteq cloud /\ Left' \subseteq Left
        /\ \A x \in Present : objs'[x].created = objs[x].created
    BY <2>1, <2>2, DeleteLeaves
  <2>4. pc' = "deleting" \/ pc' = Handler[ret]
    BY <2>1, <2>2 DEF DeleteOne, DeleteRaises, Raise
  <2>5. pc' \in {"deleting", "except", "finally", "ended"}
    BY <1>g, <2>4 DEF Handler
  <2>6. i \in 1..30 /\ at \in Nat /\ at <= i /\ r = DeleteOrder[i]
    BY <2>1, OrderFact DEF DeleteOne, Due, TypeInv, TypeOK
  <2>f. Froze(r) \in HistType /\ Froze(r).swallowed = hist.swallowed
    BY <1>h, FrozeFact
  <2>a. Block(r) \in SUBSET Present
    BY DEF Block
  <2>z. FreezeInv'
    <3> DEFINE g == [Froze(r) EXCEPT !.swallowed = @ \cup Block(r)]
               u == [Froze(r) EXCEPT !.undeleted = TRUE]
               w == [hist EXCEPT !.undeleted = TRUE, !.here = @ + 1]
    <3>1. /\ Froze(r).froze \subseteq hist.froze \cup {r}
          /\ ~Freezes(r) => Froze(r).froze = hist.froze
          /\ Froze(r).here = hist.here /\ hist.here \in Nat
      BY <1>h, FrozeFact DEF HistType
    <3>2. /\ g \in HistType /\ g.froze = Froze(r).froze /\ g.here = hist.here
          /\ u \in HistType /\ u.froze = Froze(r).froze /\ u.here = hist.here
      <4>1. g \in HistType /\ u \in HistType
        BY <2>f, <2>a, HistFact
      <4>2. g.here = Froze(r).here /\ g.froze = Froze(r).froze
        BY <2>f DEF HistType
      <4>3. u.here = Froze(r).here /\ u.froze = Froze(r).froze
        BY <2>f DEF HistType
      <4> QED
        BY <3>1, <4>1, <4>2, <4>3
    <3>3. w.froze = hist.froze /\ w.here = hist.here + 1
      BY <1>h DEF HistType
    <3>4. /\ Fault(g) => hist'.froze = Froze(r).froze /\ hist'.here = hist.here + 1
          /\ Fault(u) => hist'.froze = Froze(r).froze /\ hist'.here = hist.here + 1
      <4> HIDE DEF g, u
      <4> QED
        BY <3>2, FaultNotes DEF OneMore
    <3>5. \/ pc' = pc /\ hist' \in {hist, Froze(r)}
          \/ hist' = w
          \/ Fault(g) \/ Fault(u)
      BY <2>1 DEF DeleteOne, DeleteRaises
    <3> HIDE DEF g, u, w
    <3>6. /\ hist'.froze = hist.froze \/ (Freezes(r) /\ hist'.froze \subseteq hist.froze \cup {r})
          /\ hist'.here >= hist.here /\ hist'.here \in Nat
          /\ pc' = pc \/ hist'.here >= 1
      BY <3>1, <3>3, <3>4, <3>5
    <3>7. Knows' <=> Knows
      BY <2>2, <2>3 DEF Knows
    <3>8. spec.freeze => Knows
      BY <2>2 DEF DeleteInv, FreezeInv
    <3> QED
      BY <2>2, <3>1, <3>6, <3>7, <3>8 DEF DeleteInv, FreezeInv, Freezes
  <2>7. CASE at' = i + 1 /\ hist'.swallowed = hist.swallowed /\ r \notin Left'
    <3>1. ASSUME NEW j \in 1..Len(DeleteOrder), j < at', DeleteOrder[j] \in Left'
          PROVE  DeleteOrder[j] \in hist'.swallowed
      <4>1. DeleteOrder[j] \in Left /\ DeleteOrder[j] \in Present
        BY <2>3, <3>1 DEF Left, TypeInv, TypeOK
      <4>2. ~(j >= at /\ j < i)
        BY <2>1, <2>6, <4>1 DEF DeleteOne, Due
      <4>3. j # i
        BY <2>6, <2>7, <3>1
      <4>4. j < at
        BY <2>6, <2>7, <3>1, <4>2, <4>3
      <4> QED
        BY <2>2, <2>7, <4>1, <4>4 DEF DeleteInv, Passed
    <3> QED
      BY <2>2, <2>3, <2>5, <2>z, <3>1 DEF DeleteInv, Passed, Emptied, Untouched,
         NetworksFirst, ProvisionPcs
  <2>8. CASE /\ at' = i + (IF r = "vms" THEN 2 ELSE 1)
             /\ hist'.swallowed = hist.swallowed \cup Block(r)
    <3>1. ASSUME NEW j \in 1..Len(DeleteOrder), j < at', DeleteOrder[j] \in Left'
          PROVE  DeleteOrder[j] \in hist'.swallowed
      <4>1. DeleteOrder[j] \in Left /\ DeleteOrder[j] \in Present
        BY <2>3, <3>1 DEF Left, TypeInv, TypeOK
      <4>2. ~(j >= at /\ j < i)
        BY <2>1, <2>6, <4>1 DEF DeleteOne, Due
      <4>3. CASE j < at
        BY <2>2, <2>8, <4>1, <4>3 DEF DeleteInv, Passed
      <4>4. CASE j = i
        BY <2>6, <2>8, <4>4 DEF Block
      <4>5. CASE r = "vms" /\ j = i + 1
        <5>1. DeleteOrder[j] = "scratch_disks"
          <6>1. i = 24
            BY <2>6, <4>5, OrderFact
          <6> QED
            BY <4>5, <6>1, OrderFact
        <5> QED
          BY <2>8, <4>1, <4>5, <5>1 DEF Block
      <4> QED
        BY <2>6, <2>8, <3>1, <4>2, <4>3, <4>4, <4>5
    <3> QED
      BY <2>2, <2>3, <2>5, <2>z, <3>1 DEF DeleteInv, Passed, Emptied, Untouched,
         NetworksFirst, ProvisionPcs
  <2>9. CASE pc' # "deleting"
    BY <2>2, <2>5, <2>9, <2>z DEF DeleteInv, Passed, Emptied, Untouched,
       NetworksFirst, ProvisionPcs
  <2>10. MarkDeleted(r) => r \notin Left'
    BY <2>3 DEF MarkDeleted, RecoveryInv, KnownLive, Left
  <2>11. DeleteRaises(r, i) => \/ pc' # "deleting"
                              \/ /\ at' = i + (IF r = "vms" THEN 2 ELSE 1)
                                 /\ hist'.swallowed = hist.swallowed \cup Block(r)
    <3>1. Handler[ret] # "deleting"
      BY <1>g DEF Handler
    <3> DEFINE h == [Froze(r) EXCEPT !.swallowed = @ \cup Block(r)]
    <3>2. h \in HistType /\ h.swallowed = hist.swallowed \cup Block(r)
      BY <2>f, <2>a, HistFact, SideNotes
    <3>3. Fault(h) => hist'.swallowed = hist.swallowed \cup Block(r)
      <4> HIDE DEF h
      <4> QED
        BY <3>2, FaultNotes
    <3> QED
      BY <3>1, <3>3 DEF DeleteRaises, Raise
  <2>12. Freezes(r) => r \notin Left'
    BY <2>2 DEF Left, Freezes
  <2>13. Handler[ret] # "deleting"
    BY <1>g DEF Handler
  <2> QED
    BY <2>1, <2>7, <2>8, <2>9, <2>10, <2>11, <2>12, <2>13, <2>f DEF DeleteOne
<1>35. CASE DeleteEnd
  <2>1. /\ spec'.deleted /\ pc' \in {"torn_down", "except_torn_down", "publish"}
        /\ spec'.freeze = spec.freeze
    BY <1>35, <1>g DEF DeleteEnd, Goto, Return, TypeInv, TypeOK, SpecType
  <2>2. pc = "deleting" /\ UNCHANGED <<objs, cloud, frozen, hist>>
    BY <1>35 DEF DeleteEnd
  <2>3. Left' = Left /\ (Knows' <=> Knows)
    BY <2>1, <2>2 DEF Left, Freezes, Knows
  <2>4. ASSUME NEW r \in Left PROVE r \in hist.swallowed
    <3>1. PICK j \in 1..30 : r = DeleteOrder[j]
      BY OrderFact DEF Left, TypeInv, TypeOK
    <3>2. r \in Present
      BY DEF Left, TypeInv, TypeOK
    <3>3. j < at
      BY <1>35, <3>1, <3>2, OrderFact DEF DeleteEnd, AllDone, TypeInv, TypeOK
    <3> QED
      BY <2>2, <3>1, <3>3, OrderFact DEF DeleteInv, Passed
  <2> QED
    BY <2>1, <2>2, <2>3, <2>4 DEF DeleteInv, Passed, Emptied, Untouched,
       FreezeInv, NetworksFirst, ProvisionPcs
<1>36. CASE Crash
  <2> DEFINE lost == hist.lost \/ file' # file \/ pc \in {"provision", "pickle_after"}
             h == [hist EXCEPT !.lost = lost]
  <2>1. /\ Fault(h) /\ pc' = "idle" /\ UNCHANGED <<spec, objs, cloud>>
        /\ frozen' = frozen \/ (pc = "delete" /\ ~spec.deleted)
    BY <1>36 DEF Crash
  <2>2. lost \in BOOLEAN
    OBVIOUS
  <2> HIDE DEF lost
  <2>3. h \in HistType /\ Calm(h, hist) /\ h.here = hist.here
    BY <1>h, <2>2, SideNotes DEF HistType
  <2> HIDE DEF h
  <2>4. Calm(hist', hist) /\ hist'.here = hist.here + 1 /\ hist.here \in Nat
    BY <1>h, <2>1, <2>3, CalmFault, FaultNotes DEF OneMore, HistType
  <2>5. CASE frozen' = frozen
    <3>1. Aside
      BY <2>1, <2>4, <2>5 DEF Aside, Begun, ProvisionPcs
    <3> QED
      BY <3>1, AsideKeeps
  <2>6. CASE pc = "delete" /\ ~spec.deleted
    BY <2>1, <2>4, <2>6 DEF Calm, DeleteInv, Passed, Emptied, Untouched, FreezeInv,
       NetworksFirst, ProvisionPcs
  <2> QED
    BY <2>1, <2>5, <2>6
<1>37. CASE UNCHANGED vars
  <2>1. Aside
    BY <1>37, <1>c DEF vars, process, Aside
  <2> QED
    BY <2>1, AsideKeeps
<1> QED
  BY <1>1, <1>2, <1>3, <1>4, <1>5, <1>6, <1>7, <1>8, <1>9, <1>10,
     <1>11, <1>12, <1>13, <1>14, <1>15, <1>16, <1>17, <1>18, <1>19, <1>20,
     <1>21, <1>22, <1>23, <1>24, <1>25, <1>26, <1>27, <1>28, <1>29, <1>30,
     <1>31, <1>32, <1>33, <1>34, <1>35, <1>36, <1>37
     DEF Next, ProvisionPhase, BodyPhase, TeardownPhase, ExceptBlock, FinallyBlock

\* All that is shown of a run so far.
RunInv == TypeInv /\ RecoveryInv /\ CInv /\ DeleteInv /\ NetworksFirst

\* These invariants hold in every state of a run.
LEMMA RunAlways == Spec => []RunInv
<1>1. Init => RunInv
  BY TypeInit, RecoveryInit, CInit, DeleteInit DEF RunInv
<1>2. RunInv /\ [Next]_vars => RunInv'
  BY TypeStep, RecoveryStep, CStep, DeleteStep DEF RunInv
<1> QED
  BY <1>1, <1>2, PTL DEF Spec

\* A run that is to tear down leaves nothing on record behind but what a
\* deletion of its own failed for, whatever else fails, in any block, for any
\* flags and any number of failures.
THEOREM TeardownSound == Spec => []TeardownDespiteErrors
<1>1. RunInv => TeardownDespiteErrors
  BY DEF RunInv, CInv, TornInv, DeleteInv, Emptied, TeardownDespiteErrors, Ran
<1> QED
  BY <1>1, RunAlways, PTL

\* After a single failure the resources on record are gone, one that a
\* deletion swallowed apart: the finally block calls Delete again.
THEOREM OneFaultSound == Spec => []OneFaultTeardown
<1>1. RunInv => OneFaultTeardown
  BY DEF RunInv, CInv, OneFaultInv, DeleteInv, Emptied, OneFaultTeardown, Ran
<1> QED
  BY <1>1, RunAlways, PTL

\* Whichever block calls Delete, and however often, what it freezes is in the
\* freeze file, after any one failure or kill.
THEOREM FreezeSound == Spec => []FrozenIsOnFile
<1>1. RunInv => FrozenIsOnFile
  BY DEF RunInv, DeleteInv, FreezeInv, Knows, FrozenIsOnFile, TypeInv, TypeOK
<1> QED
  BY <1>1, RunAlways, PTL

\* Only Provision and Delete change what there is in the cloud.
LEMMA CloudFact == [Next]_vars => UNCHANGED cloud \/ Provision \/ Delete
<1> SUFFICES ASSUME [Next]_vars PROVE UNCHANGED cloud \/ Provision \/ Delete
  OBVIOUS
<1>1. ASSUME NEW f \in Flags, GetBenchmarkSpec(f) PROVE UNCHANGED cloud
  BY <1>1 DEF GetBenchmarkSpec
<1>2. CASE SkipPendingRun \/ Start \/ SetPaths
  BY <1>2 DEF SkipPendingRun, Start, SetPaths, rest
<1>3. CASE ProvisionPhase
  BY <1>3 DEF ProvisionPhase, ConstructResources, PickleBefore, BenchmarkStart,
     Provisioned, PickleAfter, ProvisionEnd, Try, rest
<1>4. CASE BodyPhase
  BY <1>4 DEF BodyPhase, SkipStage, StartStage, CheckInterrupt, DoStage, EndStage,
     EndBody, rest
<1>5. CASE TeardownPhase
  BY <1>5 DEF TeardownPhase, CaptureVMLogs, ShouldTeardown, UpdateTimeoutMetadata,
     DoTeardownPhase, DeleteStart, DeleteEnd, TornDown, AddSamples, Try, rest
<1>6. CASE ExceptBlock
  BY <1>6 DEF ExceptBlock, Except, PublishFailedRunSample, CleanupOnException,
     TeardownOnException, TornDownOnException, LogsOnException, Try, rest
<1>7. CASE FinallyBlock
  BY <1>7 DEF FinallyBlock, Finally, Publish, PickleFinal, Try, rest
<1>8. CASE Crash
  BY <1>8 DEF Crash
<1>9. CASE UNCHANGED vars
  BY <1>9 DEF vars
<1> QED
  BY <1>1, <1>2, <1>3, <1>4, <1>5, <1>6, <1>7, <1>8, <1>9 DEF Next

\* No step creates a user of the networks before them, and none deletes them
\* under a resource on record, unless its own deletion failed.
THEOREM NetworksSound == Spec => NetworksOutlive
<1> DEFINE Step ==
      /\ "networks" \in Present => \/ cloud' \cap NetworkUsers \subseteq cloud
                                   \/ "networks" \in cloud
      /\ "networks" \in cloud \ cloud'
           => Left \cap NetworkUsers \subseteq hist.swallowed
<1>1. ASSUME RunInv, [Next]_vars PROVE [Step]_vars
  <2>1. CASE UNCHANGED cloud
    BY <2>1
  <2>2. CASE Provision
    <3>1. PICK i \in 1..Len(ProvisionOrder), r \in Present : ProvisionOne(i, r)
      BY <2>2, ProvisionEffect
    <3>2. cloud' = cloud \/ cloud' = cloud \cup {r}
      BY <3>1 DEF ProvisionOne
    <3>3. /\ r = ProvisionOrder[i] /\ i >= at /\ at \in Nat /\ i \in Nat
          /\ \A j \in at..(i - 1) : ProvisionOrder[j] \notin Present
      BY <1>1, <3>1 DEF ProvisionOne, Due, RunInv, TypeInv, TypeOK
    <3>4. ASSUME r \in NetworkUsers, "networks" \in Present PROVE "networks" \in cloud
      <4>1. i > 2
        BY <3>3, <3>4, OrderFact DEF NetworkUsers
      <4>2. at > 2 \/ at = 0
        BY <3>3, <3>4, <4>1, OrderFact
      <4> QED
        BY <1>1, <2>2, <3>4, <4>2 DEF Provision, RunInv, NetworksFirst, TypeInv,
           TypeOK
    <3> QED
      BY <3>2, <3>4
  <2>3. CASE Delete
    <3>1. PICK i \in 1..Len(DeleteOrder), r \in Present : DeleteOne(i, r)
      BY <2>3, DeleteEffect
    <3>2. cloud' \subseteq cloud /\ cloud \ cloud' \subseteq {r}
      BY <1>1, <2>3, <3>1, DeleteLeaves DEF Delete, RunInv
    <3>3. /\ r = DeleteOrder[i] /\ i >= at /\ at \in Nat /\ i \in 1..30
          /\ \A j \in at..(i - 1) : DeleteOrder[j] \notin Present
      BY <1>1, <3>1, OrderFact DEF DeleteOne, Due, RunInv, TypeInv, TypeOK
    <3>4. ASSUME "networks" \in cloud \ cloud', NEW x \in Left \cap NetworkUsers
          PROVE  x \in hist.swallowed
      <4>1. i = 29 /\ r = "networks"
        BY <3>2, <3>3, <3>4, OrderFact
      <4>2. x \in Present /\ x # "networks" /\ x # "vpn_service"
        BY DEF NetworkUsers
      <4>3. PICK j \in 1..30 : x = DeleteOrder[j]
        BY <4>2, OrderFact
      <4>4. j # 29 /\ j # 30
        BY <3>3, <4>1, <4>2, <4>3, OrderFact
      <4>5. j < at
        BY <3>3, <4>1, <4>2, <4>3, <4>4
      <4> QED
        BY <1>1, <2>3, <3>4, <4>3, <4>5, OrderFact DEF Delete, RunInv,
           DeleteInv, Passed
    <3> QED
      BY <3>2, <3>4
  <2> QED
    BY <1>1, <2>1, <2>2, <2>3, CloudFact
<1> QED
  BY <1>1, RunAlways, PTL DEF Spec, NetworksOutlive

-----------------------------------------------------------------------------
(***************************************************************************)
(* The stages that are done.                                               *)
(***************************************************************************)
\* A completed stage is added to the set of those done.
LEMMA DoneSet ==
    /\ ToSet(<< >>) = {}
    /\ \A t \in Seq(StageNames) : \A x : ToSet(Append(t, x)) = ToSet(t) \cup {x}
<1>1. ToSet(<< >>) = {}
  BY DEF ToSet
<1>2. ASSUME NEW t \in Seq(StageNames), NEW x
      PROVE  ToSet(Append(t, x)) = ToSet(t) \cup {x}
  <2>1. /\ DOMAIN Append(t, x) = 1..(Len(t) + 1) /\ DOMAIN t = 1..Len(t)
        /\ Len(t) \in Nat /\ Append(t, x)[Len(t) + 1] = x
        /\ \A i \in 1..Len(t) : Append(t, x)[i] = t[i]
    OBVIOUS
  <2> QED
    BY <2>1 DEF ToSet
<1> QED
  BY <1>1, <1>2

\* The stages asked for are provision, those of BodyOrder and teardown.
LEMMA BodyFact ==
    ASSUME TypeInv
    PROVE  /\ Body(0) = {}
           /\ \A n \in 1..6 : Body(n) = Body(n - 1) \cup {BodyOrder[n]}
           /\ Asked \cap ({"provision"} \cup Body(6)) = Asked \ {"teardown"}
<1>1. Body(0) = {}
  BY DEF Body
<1>2. \A n \in 1..6 : Body(n) = Body(n - 1) \cup {BodyOrder[n]}
  BY DEF Body
<1>3. Body(6) = {"prepare", "prepare_system", "install_packages", "start_services",
                 "run", "cleanup"}
  BY DEF Body, BodyOrder
<1>4. ToSet(STAGES) = {"provision", "prepare", "run", "cleanup", "teardown"}
  BY DEF ToSet, STAGES
<1>5. Asked \subseteq StageNames
  BY RunAssumption DEF TypeInv, TypeOK, Asked, Parses
<1> QED
  BY <1>1, <1>2, <1>3, <1>4, <1>5 DEF StageNames, SplitPrepare

DInv == DoneInv /\ SavedInv

\* No stage is done before the first process.
LEMMA DInit == Init => DInv
<1>1. ASSUME Init PROVE DInv
  <2>1. pc = "idle" /\ spec.status = "SKIPPED"
    BY <1>1 DEF Init, NewSpec
  <2> QED
    BY <2>1 DEF DInv, DoneInv, SavedInv, InFinally, ProvisionPcs, StagePcs,
       TeardownPcs, DeletePcs, In, Asked
<1> QED
  BY <1>1

\* The paths and a benchmark's own request leave the outcome alone.
LEMMA OutcomeKept ==
    ASSUME TypeInv, SetPaths \/ DoStage
    PROVE  spec'.status = spec.status /\ spec'.substatus = spec.substatus
<1>1. spec \in SpecType
  BY DEF TypeInv, TypeOK
<1>2. CASE SetPaths
  <2>1. spec' = spec \/ spec' = [spec EXCEPT !.freeze = @ \/ On("freeze")]
    BY <1>2 DEF SetPaths
  <2> QED
    BY <1>1, <2>1 DEF SpecType
<1>3. CASE DoStage
  <2>1. spec' = spec \/ spec' = [spec EXCEPT !.always_call_cleanup = TRUE]
    BY <1>3 DEF DoStage
  <2> QED
    BY <1>1, <2>1 DEF SpecType
<1> QED
  BY <1>2, <1>3

\* A run that is not over has not succeeded yet.
Going == pc # "ended" /\ spec'.status = spec.status

\* An exception under way.
LEMMA RaisedKeeps ==
    ASSUME DInv, Going, exc' # "none"
    PROVE  DInv'
BY DEF DInv, Going, DoneInv, SavedInv

\* Statements that go on and complete no stage.
LEMMA DoneKeeps ==
    ASSUME TypeInv, CInv, DInv, Going, NEW next, NEW handler, Way(next, handler),
           Flow(next, handler), hist'.done = hist.done,
           pc \notin {"setup", "body", "stage", "provision_end", "torn_down",
                     "pickle_final"}
    PROVE  DInv'
<1>1. CASE exc' # "none"
  BY <1>1, RaisedKeeps
<1>2. CASE exc' = "none"
  <2>1. exc = "none" /\ pc' = next /\ UNCHANGED <<flags, ret, should_teardown>>
    BY <1>2 DEF Flow
  <2>2. pc \notin ExceptPcs
    BY <2>1 DEF CInv, ControlInv, InExcept
  <2>3. \/ <<pc, next, handler>> \in Ways
        \/ pc = "pickle_after" /\ next = "provision_end"
    BY <2>1, <2>2 DEF Way, ExceptPcs
  <2>4. pc = "keep" => ~should_teardown
    BY DEF CInv, TornInv
  <2> QED
    BY <2>1, <2>2, <2>3, <2>4 DEF Ways, ExceptPcs, DInv, Going, DoneInv,
       SavedInv, InFinally, ProvisionPcs, StagePcs, TeardownPcs, DeletePcs, In,
       Asked
<1> QED
  BY <1>1, <1>2

\* Every statement keeps the account of the stages.
LEMMA DoneStep == TypeInv /\ CInv /\ DInv /\ [Next]_vars => DInv'
<1> SUFFICES ASSUME TypeInv, CInv, DInv, [Next]_vars PROVE DInv'
  OBVIOUS
<1>h. hist \in HistType /\ hist.done \in Seq(StageNames)
  BY DEF TypeInv, TypeOK, HistType
<1>f. Fault(hist) => hist'.done = hist.done
  BY <1>h, FaultNotes
<1>g. ret \in {"teardown", "except", "finally"} /\ at \in Nat \ {0} /\ Len(BodyOrder) = 6
  BY DEF TypeInv, TypeOK, BodyOrder
<1>1. ASSUME NEW f \in Flags, GetBenchmarkSpec(f) PROVE DInv'
  <2>1. file.spec \in SpecType
    BY DEF TypeInv, TypeOK, FileType
  <2>2. [file.spec EXCEPT !.deleted = FALSE, !.status = "SKIPPED"].status = "SKIPPED"
    BY <2>1 DEF SpecType
  <2>3. \A b : [NewSpec EXCEPT !.always_call_cleanup = b].status = "SKIPPED"
    BY DEF NewSpec
  <2>4. pc' = "start" /\ spec'.status = "SKIPPED"
    BY <1>1, <2>2, <2>3 DEF GetBenchmarkSpec
  <2>5. hist'.done = << >>
    BY <1>1, <1>h DEF GetBenchmarkSpec, HistType
  <2> QED
    BY <2>4, <2>5 DEF DInv, DoneInv, SavedInv, InFinally, ProvisionPcs,
       StagePcs, TeardownPcs, DeletePcs, In, Asked
<1>2. CASE ConstructResources
  <2>1. Going /\ hist'.done = hist.done
    BY <1>2, <1>f DEF ConstructResources, Try, Going, rest
  <2> QED
    BY <1>2, <2>1, TryFlows, DoneKeeps DEF ConstructResources, Way, Ways
<1>3. CASE BenchmarkStart
  <2>1. Going /\ hist'.done = hist.done
    BY <1>3, <1>f DEF BenchmarkStart, Try, Going, rest
  <2> QED
    BY <1>3, <2>1, TryFlows, DoneKeeps DEF BenchmarkStart, Way, Ways
<1>4. CASE CaptureVMLogs
  <2>1. Going /\ hist'.done = hist.done
    BY <1>4, <1>f DEF CaptureVMLogs, Try, Going, rest
  <2> QED
    BY <1>4, <2>1, TryFlows, DoneKeeps DEF CaptureVMLogs, Way, Ways
<1>5. CASE UpdateTimeoutMetadata
  <2>1. Going /\ hist'.done = hist.done
    BY <1>5, <1>f DEF UpdateTimeoutMetadata, Try, Going, rest
  <2> QED
    BY <1>5, <2>1, TryFlows, DoneKeeps DEF UpdateTimeoutMetadata, Way, Ways
<1>6. CASE AddSamples
  <2>1. Going /\ hist'.done = hist.done
    BY <1>6, <1>f DEF AddSamples, Try, Going, rest
  <2> QED
    BY <1>6, <2>1, TryFlows, DoneKeeps DEF AddSamples, Way, Ways
<1>7. CASE TornDownOnException
  <2>1. Going /\ hist'.done = hist.done
    BY <1>7, <1>f DEF TornDownOnException, Try, Going, rest
  <2> QED
    BY <1>7, <2>1, TryFlows, DoneKeeps DEF TornDownOnException, Way, Ways
<1>8. CASE LogsOnException
  <2>1. Going /\ hist'.done = hist.done
    BY <1>8, <1>f DEF LogsOnException, Try, Going, rest
  <2> QED
    BY <1>8, <2>1, TryFlows, DoneKeeps DEF LogsOnException, Way, Ways
<1>9. CASE Publish
  <2>1. Going /\ hist'.done = hist.done
    BY <1>9, <1>f DEF Publish, Try, Going, rest
  <2> QED
    BY <1>9, <2>1, TryFlows, DoneKeeps DEF Publish, Way, Ways
<1>10. CASE PickleBefore
  <2> DEFINE h == [hist EXCEPT !.lost = TRUE]
  <2>1. h \in HistType /\ h.done = hist.done
    BY <1>h, HistFact, SideNotes
  <2>2. hist' = hist \/ Fault(h)
    BY <1>10 DEF PickleBefore, Pickle
  <2>3. Going /\ hist'.done = hist.done
    <3> HIDE DEF h
    <3> QED
      BY <1>10, <2>1, <2>2, FaultNotes DEF PickleBefore, Going
  <2> QED
    BY <1>10, <2>3, PickleFlows, DoneKeeps DEF PickleBefore, Way, Ways
<1>11. CASE PickleAfter
  <2> DEFINE h == [hist EXCEPT !.lost = TRUE]
  <2>1. h \in HistType /\ h.done = hist.done
    BY <1>h, HistFact, SideNotes
  <2>2. hist' = hist \/ Fault(h)
    BY <1>11 DEF PickleAfter, Pickle
  <2>3. Going /\ hist'.done = hist.done
    <3> HIDE DEF h
    <3> QED
      BY <1>11, <2>1, <2>2, FaultNotes DEF PickleAfter, Going
  <2> QED
    BY <1>11, <2>3, PickleFlows, DoneKeeps DEF PickleAfter, Way, Ways
<1>12. CASE PickleFinal
  <2>1. CASE exc' # "none"
    BY <1>12, <2>1, RaisedKeeps DEF PickleFinal, Going
  <2>2. CASE exc' = "none"
    <3>1. /\ pc' = "ended" /\ exc = "none" /\ hist' = hist /\ file'.state = "saved"
          /\ file'.objs = objs /\ UNCHANGED <<flags, ret, should_teardown, objs>>
      BY <1>12, <2>2 DEF PickleFinal, Pickle, Goto, Raise, Substatus
    <3> QED
      BY <1>12, <2>2, <3>1 DEF PickleFinal, DInv, DoneInv, SavedInv, InFinally,
         ProvisionPcs, StagePcs, TeardownPcs, DeletePcs, In, Asked
  <2> QED
    BY <2>1, <2>2
<1>13. CASE SkipPendingRun
  <2>1. pc' = "ended" /\ spec' = spec /\ spec.status = "SKIPPED"
    BY <1>13 DEF SkipPendingRun, Goto, rest, CInv, ControlInv
  <2> QED
    BY <2>1 DEF DInv, DoneInv, SavedInv, InFinally, ProvisionPcs, StagePcs,
       TeardownPcs, DeletePcs, In, Asked
<1>14. CASE Start
  <2>1. spec'.status = "FAILED"
    BY <1>14 DEF Start, TypeInv, TypeOK, SpecType
  <2> QED
    BY <1>14, <2>1 DEF Start, Goto, DInv, DoneInv, SavedInv, InFinally,
       ProvisionPcs, StagePcs, TeardownPcs, DeletePcs, In, Asked
<1>15. CASE SetPaths
  <2>1. Going
    BY <1>15, OutcomeKept DEF SetPaths, Going
  <2>2. CASE exc' # "none"
    BY <2>1, <2>2, RaisedKeeps
  <2>3. CASE exc' = "none"
    <3>1. /\ pc = "setup" /\ pc' = (IF In("provision") THEN "construct" ELSE "body")
          /\ at' = 1 /\ exc = "none" /\ UNCHANGED <<flags, hist>>
      BY <1>15, <2>3 DEF SetPaths, Goto, Raise, Substatus
    <3>2. hist.done = << >>
      BY <3>1 DEF DInv, DoneInv
    <3>3. pc' = "body" => ToSet(hist.done) = Asked \cap ({"provision"} \cup Body(0))
      BY <3>1, <3>2, BodyFact, DoneSet DEF In, Asked
    <3> QED
      BY <1>g, <2>1, <3>1, <3>2, <3>3 DEF Going, DInv, DoneInv, SavedInv,
         InFinally, ProvisionPcs, StagePcs, TeardownPcs, DeletePcs, In, Asked
  <2> QED
    BY <2>2, <2>3
<1>16. CASE Provision
  <2>1. PICK i \in 1..Len(ProvisionOrder), r \in Present : ProvisionOne(i, r)
    BY <1>16, ProvisionEffect
  <2>2. /\ pc = "provision"
        /\ UNCHANGED <<flags, ret, spec, should_teardown, checker, preempted>>
    BY <1>16 DEF Provision
  <2>3. Flow("provision", "pickle_after") /\ hist'.done = hist.done
    BY <1>h, <2>1, <2>2, FaultNotes DEF ProvisionOne, Raise, Substatus, Flow, Same
  <2> QED
    BY <2>2, <2>3, DoneKeeps DEF Going, Way, Ways
<1>17. CASE Provisioned
  <2>1. Flow("pickle_after", "pickle_after")
    BY <1>17 DEF Provisioned, Goto, rest, Flow, Same
  <2>2. Going /\ hist'.done = hist.done
    BY <1>17 DEF Provisioned, rest, Going
  <2> QED
    BY <1>17, <2>1, <2>2, DoneKeeps DEF Provisioned, Way, Ways
<1>18. CASE TeardownOnException
  <2>1. Flow(IF On("always_teardown_on_exception") /\ ~In("teardown")
             THEN "except_teardown" ELSE "except_logs", "finally")
    BY <1>18 DEF TeardownOnException, Goto, rest, Flow, Same
  <2>2. Going /\ hist'.done = hist.done
    BY <1>18 DEF TeardownOnException, rest, Going
  <2> QED
    BY <1>18, <2>1, <2>2, DoneKeeps DEF TeardownOnException, Way, Ways
<1>19. CASE ProvisionEnd
  <2>1. Going
    BY <1>19 DEF ProvisionEnd, Going, rest
  <2>2. CASE exc' # "none"
    BY <2>1, <2>2, RaisedKeeps
  <2>3. CASE exc' = "none"
    <3>1. /\ pc = "provision_end" /\ pc' = "body" /\ at' = 1 /\ exc = "none"
          /\ flags' = flags /\ hist' = [hist EXCEPT !.done = Append(@, "provision")]
      BY <1>19, <2>3 DEF ProvisionEnd, Goto, Raise, Substatus, rest
    <3>2. hist'.done = Append(hist.done, "provision")
      BY <1>h, <3>1, SideNotes
    <3>3. hist.done = << >> /\ In("provision")
      BY <3>1 DEF DInv, DoneInv, ProvisionPcs
    <3>4. ToSet(hist'.done) = Asked \cap ({"provision"} \cup Body(0))
      <4>1. ToSet(hist'.done) = {"provision"}
        BY <1>h, <3>2, <3>3, DoneSet
      <4> QED
        BY <3>3, <4>1, BodyFact DEF In, Asked
    <3> QED
      BY <1>g, <2>1, <3>1, <3>4 DEF Going, DInv, DoneInv, SavedInv, InFinally,
         ProvisionPcs, StagePcs, TeardownPcs, DeletePcs, In, Asked
  <2> QED
    BY <2>2, <2>3
<1>20. CASE SkipStage
  <2>1. /\ Going /\ pc = "body" /\ pc' = "body" /\ at' = at + 1 /\ at <= 6
        /\ ~In(BodyOrder[at]) /\ exc = "none" /\ UNCHANGED <<flags, hist, exc>>
    BY <1>20, <1>g DEF SkipStage, Going, rest, CInv, ControlInv, InTry, StagePcs
  <2>2. ToSet(hist.done) = Asked \cap ({"provision"} \cup Body(at - 1))
    BY <2>1 DEF DInv, DoneInv, StagePcs
  <2>3. ToSet(hist.done) = Asked \cap ({"provision"} \cup Body(at))
    BY <1>g, <2>1, <2>2, BodyFact DEF In, Asked
  <2> QED
    BY <1>g, <2>1, <2>3 DEF Going, DInv, DoneInv, SavedInv, InFinally,
       ProvisionPcs, StagePcs, TeardownPcs, DeletePcs, In, Asked
<1>21. CASE StartStage
  <2>1. Going
    BY <1>21 DEF StartStage, Going
  <2>2. CASE exc' # "none"
    BY <2>1, <2>2, RaisedKeeps
  <2>3. CASE exc' = "none"
    <3>1. /\ pc = "body" /\ pc' = "stage" /\ at' = at /\ exc = "none" /\ In(BodyOrder[at])
          /\ UNCHANGED <<flags, hist>>
      BY <1>21, <2>3 DEF StartStage
    <3> QED
      BY <2>1, <3>1 DEF Going, DInv, DoneInv, SavedInv, InFinally, ProvisionPcs,
         StagePcs, TeardownPcs, DeletePcs, In, Asked
  <2> QED
    BY <2>2, <2>3
<1>22. CASE CheckInterrupt
  <2>1. /\ UNCHANGED <<flags, pc, at, ret, exc, spec, objs, should_teardown, file>>
        /\ hist'.done = hist.done
    BY <1>22, <1>f DEF CheckInterrupt
  <2> QED
    BY <2>1 DEF DInv, DoneInv, SavedInv, InFinally, ProvisionPcs, StagePcs,
       TeardownPcs, DeletePcs, In, Asked
<1>23. CASE DoStage
  <2>1. Going
    BY <1>23, OutcomeKept DEF DoStage, Going
  <2>2. CASE exc' # "none"
    BY <2>1, <2>2, RaisedKeeps
  <2>3. CASE exc' = "none"
    <3>1. /\ pc = "stage" /\ pc' = "end_stage" /\ exc = "none"
          /\ UNCHANGED <<at, flags, hist>>
      BY <1>23, <2>3 DEF DoStage, Raise, Substatus
    <3> QED
      BY <2>1, <3>1 DEF Going, DInv, DoneInv, SavedInv, InFinally,
         ProvisionPcs, StagePcs, TeardownPcs, DeletePcs, In, Asked
  <2> QED
    BY <2>2, <2>3
<1>24. CASE EndStage
  <2>1. Going
    BY <1>24 DEF EndStage, Going
  <2>2. CASE exc' # "none"
    BY <2>1, <2>2, RaisedKeeps
  <2>3. CASE exc' = "none"
    <3>1. /\ pc = "end_stage" /\ pc' = "body" /\ at' = at + 1 /\ exc = "none"
          /\ flags' = flags /\ hist' = [hist EXCEPT !.done = Append(@, BodyOrder[at])]
      BY <1>24, <2>3 DEF EndStage
    <3>2. hist'.done = Append(hist.done, BodyOrder[at])
      BY <1>h, <3>1, SideNotes
    <3>3. /\ ToSet(hist.done) = Asked \cap ({"provision"} \cup Body(at - 1))
          /\ In(BodyOrder[at])
      BY <3>1 DEF DInv, DoneInv, StagePcs
    <3>4. at <= 6
      BY <1>g, <3>1 DEF TypeInv, InBody
    <3>5. ToSet(hist'.done) = Asked \cap ({"provision"} \cup Body(at))
      BY <1>g, <1>h, <3>2, <3>3, <3>4, BodyFact, DoneSet DEF In, Asked
    <3> QED
      BY <1>g, <2>1, <3>1, <3>4, <3>5 DEF Going, DInv, DoneInv, SavedInv,
         InFinally, ProvisionPcs, StagePcs, TeardownPcs, DeletePcs, In, Asked
  <2> QED
    BY <2>2, <2>3
<1>25. CASE EndBody
  <2>1. /\ Going /\ pc = "body" /\ pc' = (IF In("teardown") THEN "logs" ELSE "samples")
        /\ at > 6 /\ exc = "none" /\ UNCHANGED <<flags, hist, exc, should_teardown>>
    BY <1>25, <1>g DEF EndBody, Going, Goto, rest, CInv, ControlInv, InTry,
       StagePcs
  <2>2. at = 7 /\ ToSet(hist.done) = Asked \cap ({"provision"} \cup Body(at - 1))
    BY <1>g, <2>1 DEF DInv, DoneInv, StagePcs
  <2>3. ToSet(hist.done) = Asked \ {"teardown"}
    BY <2>2, BodyFact
  <2> QED
    BY <2>1, <2>3 DEF Going, DInv, DoneInv, SavedInv, InFinally, ProvisionPcs,
       StagePcs, TeardownPcs, DeletePcs, In, Asked
<1>26. CASE ShouldTeardown
  <2>1. Going
    BY <1>26 DEF ShouldTeardown, Going
  <2>2. CASE exc' # "none"
    BY <2>1, <2>2, RaisedKeeps
  <2>3. CASE exc' = "none"
    <3>1. /\ pc = "should_teardown" /\ pc' \in {"teardown", "keep"} /\ exc = "none"
          /\ UNCHANGED <<flags, hist>>
      BY <1>26, <2>3 DEF ShouldTeardown, Goto, Raise, Substatus
    <3> QED
      BY <2>1, <3>1 DEF Going, DInv, DoneInv, SavedInv, InFinally, ProvisionPcs,
         StagePcs, TeardownPcs, DeletePcs, In, Asked
  <2> QED
    BY <2>2, <2>3
<1>27. CASE DoTeardownPhase
  <2>1. Going
    BY <1>27 DEF DoTeardownPhase, Going
  <2>2. CASE exc' # "none"
    BY <2>1, <2>2, RaisedKeeps
  <2>3. CASE exc' = "none"
    <3>1. /\ pc' = "delete" /\ exc = "none" /\ UNCHANGED <<flags, hist, should_teardown>>
          /\ ret' = (IF pc = "teardown" THEN "teardown" ELSE "except")
      BY <1>27, <2>3 DEF DoTeardownPhase, Goto, Raise, Substatus
    <3>2. pc = "teardown"
      BY <1>27, <3>1 DEF DoTeardownPhase, CInv, ControlInv, InExcept, ExceptPcs
    <3> QED
      BY <2>1, <3>1, <3>2 DEF Going, DInv, DoneInv, SavedInv, InFinally,
         ProvisionPcs, StagePcs, TeardownPcs, DeletePcs, In, Asked
  <2> QED
    BY <2>2, <2>3
<1>28. CASE DeleteStart
  <2>1. Going
    BY <1>28 DEF DeleteStart, Going
  <2>2. CASE exc' # "none"
    BY <2>1, <2>2, RaisedKeeps
  <2>3. CASE exc' = "none"
    <3>1. /\ pc = "delete" /\ pc' \in {"deleting", Return[ret]} /\ exc = "none"
          /\ UNCHANGED <<flags, ret, hist, should_teardown>>
      BY <1>28, <2>3 DEF DeleteStart, Goto, Raise, Substatus
    <3>2. ret # "except"
      BY <3>1 DEF CInv, ControlInv, InExcept, DeletePcs
    <3> QED
      BY <1>g, <2>1, <3>1, <3>2 DEF Return, Going, DInv, DoneInv, SavedInv,
         InFinally, ProvisionPcs, StagePcs, TeardownPcs, DeletePcs, In, Asked
  <2> QED
    BY <2>2, <2>3
<1>29. CASE Delete
  <2>1. Going /\ pc = "deleting" /\ UNCHANGED <<flags, ret, should_teardown>>
    BY <1>29 DEF Delete, Going
  <2>2. CASE exc' # "none"
    BY <2>1, <2>2, RaisedKeeps
  <2>3. CASE exc' = "none"
    <3>1. PICK i \in 1..Len(DeleteOrder), r \in Present : DeleteOne(i, r)
      BY <1>29, DeleteEffect
    <3> DEFINE g == Froze(r)
               h == [g EXCEPT !.swallowed = @ \cup Block(r)]
    <3>g. g \in HistType /\ g.done = hist.done
      BY <1>h, FrozeFact
    <3>2. h \in HistType /\ h.done = hist.done
      <4>1. Block(r) \in SUBSET Present
        BY DEF Block
      <4> HIDE DEF Block, g
      <4> QED
        BY <3>g, <4>1, HistFact, SideNotes
    <3>3. Fault(h) => hist'.done = hist.done
      <4> HIDE DEF h
      <4> QED
        BY <3>2, FaultNotes
    <3>4. pc' = pc /\ exc = "none" /\ hist'.done = hist.done
      BY <2>3, <3>1, <3>3, <3>g DEF DeleteOne, DeleteRaises, Raise, Substatus
    <3> QED
      BY <2>1, <3>4 DEF Going, DInv, DoneInv, SavedInv, InFinally, ProvisionPcs,
         StagePcs, TeardownPcs, DeletePcs, In, Asked
  <2> QED
    BY <2>2, <2>3
<1>30. CASE DeleteEnd
  <2>1. Going
    BY <1>30 DEF DeleteEnd, Going, TypeInv, TypeOK, SpecType
  <2>2. CASE exc' # "none"
    BY <2>1, <2>2, RaisedKeeps
  <2>3. CASE exc' = "none"
    <3>1. /\ pc = "deleting" /\ pc' = Return[ret] /\ exc = "none"
          /\ UNCHANGED <<flags, ret, hist, should_teardown>>
      BY <1>30, <2>3 DEF DeleteEnd, Goto
    <3>2. ret # "except"
      BY <3>1 DEF CInv, ControlInv, InExcept, DeletePcs
    <3> QED
      BY <1>g, <2>1, <3>1, <3>2 DEF Return, Going, DInv, DoneInv, SavedInv,
         InFinally, ProvisionPcs, StagePcs, TeardownPcs, DeletePcs, In, Asked
  <2> QED
    BY <2>2, <2>3
<1>31. CASE TornDown
  <2>1. Going
    BY <1>31 DEF TornDown, Going, rest
  <2>2. CASE exc' # "none"
    BY <2>1, <2>2, RaisedKeeps
  <2>3. CASE exc' = "none"
    <3>1. /\ pc = "torn_down" /\ pc' = "samples" /\ exc = "none"
          /\ UNCHANGED <<flags, should_teardown>>
          /\ hist' = [hist EXCEPT !.done = Append(@, "teardown")]
      BY <1>31, <2>3 DEF TornDown, Goto, Raise, Substatus, rest
    <3>2. hist'.done = Append(hist.done, "teardown")
      BY <1>h, <3>1, SideNotes
    <3>3. ToSet(hist.done) = Asked \ {"teardown"} /\ In("teardown") /\ should_teardown
      BY <3>1 DEF DInv, DoneInv, TeardownPcs, CInv, ControlInv
    <3>4. ToSet(hist'.done) = Asked
      <4>1. ToSet(hist'.done) = ToSet(hist.done) \cup {"teardown"}
        BY <1>h, <3>2, DoneSet
      <4> QED
        BY <3>3, <4>1 DEF In, Asked
    <3> QED
      BY <2>1, <3>1, <3>3, <3>4 DEF Going, DInv, DoneInv, SavedInv, InFinally,
         ProvisionPcs, StagePcs, TeardownPcs, DeletePcs, In, Asked
  <2> QED
    BY <2>2, <2>3
<1>32. CASE Except
  <2>1. Going
    BY <1>32 DEF Except, Going, TypeInv, TypeOK, SpecType
  <2>2. exc' # "none"
    BY <1>32 DEF Except, Goto, Raise, Substatus, CInv, ControlInv, InExcept,
       ExceptPcs
  <2> QED
    BY <2>1, <2>2, RaisedKeeps
<1>33. CASE PublishFailedRunSample
  <2>1. Going
    BY <1>33 DEF PublishFailedRunSample, Going, TypeInv, TypeOK, SpecType
  <2>2. exc' # "none"
    BY <1>33 DEF PublishFailedRunSample, Goto, Raise, Substatus, CInv,
       ControlInv, InExcept, ExceptPcs
  <2> QED
    BY <2>1, <2>2, RaisedKeeps
<1>34. CASE CleanupOnException
  <2>1. Going
    BY <1>34 DEF CleanupOnException, Going, rest
  <2>2. exc' # "none"
    BY <1>34 DEF CleanupOnException, Goto, Raise, Substatus, CInv, ControlInv,
       InExcept, ExceptPcs
  <2> QED
    BY <2>1, <2>2, RaisedKeeps
<1>35. CASE Finally
  <2>1. Going
    BY <1>35 DEF Finally, Going
  <2>2. CASE exc' # "none"
    BY <2>1, <2>2, RaisedKeeps
  <2>3. CASE exc' = "none"
    <3>1. /\ pc = "finally" /\ pc' \in {"delete", "publish"} /\ exc = "none"
          /\ ret' = "finally" /\ UNCHANGED <<flags, hist, should_teardown>>
      BY <1>35, <2>3 DEF Finally, Goto
    <3> QED
      BY <2>1, <3>1 DEF Going, DInv, DoneInv, SavedInv, InFinally, ProvisionPcs,
         StagePcs, TeardownPcs, DeletePcs, In, Asked
  <2> QED
    BY <2>2, <2>3
<1>36. CASE Crash
  <2>1. Going /\ pc' = "idle"
    BY <1>36 DEF Crash, Going
  <2> QED
    BY <2>1 DEF Going, DInv, DoneInv, SavedInv, InFinally, ProvisionPcs,
       StagePcs, TeardownPcs, DeletePcs, In, Asked
<1>37. CASE UNCHANGED vars
  BY <1>37 DEF vars, process, DInv, DoneInv, SavedInv, InFinally, ProvisionPcs,
     StagePcs, TeardownPcs, DeletePcs, In, Asked
<1> QED
  BY <1>1, <1>2, <1>3, <1>4, <1>5, <1>6, <1>7, <1>8, <1>9, <1>10,
     <1>11, <1>12, <1>13, <1>14, <1>15, <1>16, <1>17, <1>18, <1>19, <1>20,
     <1>21, <1>22, <1>23, <1>24, <1>25, <1>26, <1>27, <1>28, <1>29, <1>30,
     <1>31, <1>32, <1>33, <1>34, <1>35, <1>36, <1>37
     DEF Next, ProvisionPhase, BodyPhase, TeardownPhase, ExceptBlock, FinallyBlock

\* A run that counts as a success went through every stage asked for, with no
\* reclaimed VM and no thread left, and its resources' state is on file.
THEOREM SuccessClean == Spec => []SucceededIsClean
<1>1. Spec => []DInv
  <2>1. RunInv /\ DInv /\ [Next]_vars => DInv'
    BY DoneStep DEF RunInv
  <2> QED
    BY <2>1, DInit, RunAlways, PTL DEF Spec
<1>2. RunInv /\ DInv => SucceededIsClean
  BY DEF RunInv, CInv, CheckerInv, DInv, DoneInv, SavedInv, SucceededIsClean,
     Asked
<1> QED
  BY <1>1, <1>2, RunAlways, PTL

-----------------------------------------------------------------------------
(***************************************************************************)
(* The outcome of a run.  The spec counts as failed from the first stage   *)
(* on; it gets its substatus in the except block, or brings one along from *)
(* an earlier process, of which there is none before the first.            *)
(***************************************************************************)
OutcomeInv ==
    /\ pc \notin {"idle", "start", "ended"} => spec.status = "FAILED"
    /\ pc = "ended" => (spec.status = "FAILED" <=> exc # "none")
    /\ hist.caught => spec.substatus # "none"
    /\ pc = "publish_failed" => hist.caught
    /\ hist.runs <= 1 /\ ~hist.caught => spec.substatus = "none"
    /\ hist.runs = 0 => pc = "idle" /\ file.state = "none"

\* No process begins, and the except block is not entered.
Tally == hist'.runs = hist.runs /\ hist'.caught = hist.caught

\* The notes of failures, stages and deletions leave those two alone.
LEMMA TallyNotes ==
    ASSUME hist \in HistType
    PROVE  /\ Fault(hist) => Tally
           /\ \A b : Fault([hist EXCEPT !.lost = b]) => Tally
           /\ Fault([hist EXCEPT !.undeleted = TRUE]) => Tally
           /\ \A s : hist' = [hist EXCEPT !.done = Append(@, s)] => Tally
           /\ hist' = [hist EXCEPT !.undeleted = TRUE, !.here = @ + 1] => Tally
<1>1. Fault(hist) => Tally
  BY DEF Fault, HistType, Tally
<1>2. \A b : Fault([hist EXCEPT !.lost = b]) => Tally
  BY DEF Fault, HistType, Tally
<1>3. Fault([hist EXCEPT !.undeleted = TRUE]) => Tally
  BY DEF Fault, HistType, Tally
<1>4. \A s : hist' = [hist EXCEPT !.done = Append(@, s)] => Tally
  BY DEF HistType, Tally
<1>5. hist' = [hist EXCEPT !.undeleted = TRUE, !.here = @ + 1] => Tally
  BY DEF HistType, Tally
<1> QED
  BY <1>1, <1>2, <1>3, <1>4, <1>5

\* Neither does what is noted of a deletion.
LEMMA DeleteTally ==
    ASSUME hist \in HistType, NEW i, NEW r \in Present, DeleteOne(i, r)
    PROVE  Tally
<1> DEFINE g == Froze(r)
<1>1. g \in HistType /\ g.runs = hist.runs /\ g.caught = hist.caught
  BY FrozeFact
<1>2. \/ hist' = g \/ hist' = hist
      \/ hist' = [hist EXCEPT !.undeleted = TRUE, !.here = @ + 1]
      \/ Fault([g EXCEPT !.swallowed = @ \cup Block(r)])
      \/ Fault([g EXCEPT !.undeleted = TRUE])
  BY DEF DeleteOne, DeleteRaises
<1> HIDE DEF g
<1>3. Fault([g EXCEPT !.swallowed = @ \cup Block(r)]) => Tally
  BY <1>1 DEF Fault, HistType, Tally
<1>4. Fault([g EXCEPT !.undeleted = TRUE]) => Tally
  BY <1>1 DEF Fault, HistType, Tally
<1> QED
  BY <1>1, <1>2, <1>3, <1>4, TallyNotes DEF Tally

\* A step within a run, to another statement of it or out of it with an
\* exception.
Within ==
    /\ pc \notin {"idle", "start", "ended"} /\ pc' \notin {"start", "publish_failed"}
    /\ pc' = "ended" => exc' # "none"
    /\ spec'.status = spec.status /\ Tally

\* Such a step keeps the outcome so far, if it keeps the substatus ...
LEMMA WithinKeeps ==
    ASSUME OutcomeInv, Within, spec'.substatus = spec.substatus
    PROVE  OutcomeInv'
BY DEF OutcomeInv, Within, Tally

\* ... as a statement that only may fail does ...
LEMMA TryWithin ==
    ASSUME TypeInv, NEW label, NEW next, NEW handler, Try(label, next, handler),
           label \notin {"idle", "start", "ended"},
           next \notin {"start", "ended", "publish_failed"},
           handler \notin {"start", "publish_failed"}
    PROVE  Within /\ spec' = spec
<1>1. hist \in HistType
  BY DEF TypeInv, TypeOK
<1>2. CASE Goto(next) /\ UNCHANGED hist
  BY <1>2 DEF Try, rest, Goto, Within, Tally
<1>3. CASE Raise(handler) /\ Fault(hist)
  BY <1>1, <1>3, TallyNotes DEF Try, rest, Raise, Within, Substatus
<1> QED
  BY <1>2, <1>3 DEF Try

\* ... and Pickle.
LEMMA PickleWithin ==
    ASSUME TypeInv, NEW next, NEW handler, Pickle(next, handler), spec' = spec,
           pc \notin {"idle", "start", "ended"},
           next \notin {"start", "ended", "publish_failed"},
           handler \notin {"start", "publish_failed"}
    PROVE  Within
<1>1. hist \in HistType
  BY DEF TypeInv, TypeOK
<1>2. CASE Goto(next) /\ UNCHANGED hist
  BY <1>2 DEF Goto, Within, Tally
<1>3. CASE Raise(handler) /\ Fault([hist EXCEPT !.lost = TRUE])
  BY <1>1, <1>3, TallyNotes DEF Raise, Within, Substatus
<1> QED
  BY <1>2, <1>3 DEF Pickle

\* No outcome before the first process.
LEMMA OutcomeInit == Init => OutcomeInv
BY DEF Init, OutcomeInv, NewSpec, NoFile

\* Every statement keeps the account of the outcome.
LEMMA OutcomeStep ==
    TypeInv /\ CInv /\ OutcomeInv /\ [Next]_vars => OutcomeInv'
<1> SUFFICES ASSUME TypeInv, CInv, OutcomeInv, [Next]_vars PROVE OutcomeInv'
  OBVIOUS
<1>h. hist \in HistType /\ spec \in SpecType /\ hist.runs \in Nat
  BY DEF TypeInv, TypeOK, HistType
<1>r. ret \in {"teardown", "except", "finally"}
  BY DEF TypeInv, TypeOK
<1>t. ASSUME Within, spec' = spec PROVE OutcomeInv'
  BY <1>t, WithinKeeps
<1>1. ASSUME NEW f \in Flags, GetBenchmarkSpec(f) PROVE OutcomeInv'
  <2>1. /\ hist'.runs = hist.runs + 1 /\ hist'.caught = FALSE
        /\ pc' = "start" /\ hist'.runs # 0
    BY <1>1, <1>h DEF GetBenchmarkSpec, HistType
  <2>2. ASSUME hist'.runs <= 1 PROVE spec'.substatus = "none"
    <3>1. hist.runs = 0
      BY <2>1, <2>2, <1>h
    <3>2. \E b : spec' = [NewSpec EXCEPT !.always_call_cleanup = b]
      BY <1>1, <3>1 DEF GetBenchmarkSpec, OutcomeInv
    <3> QED
      BY <3>2 DEF NewSpec
  <2> QED
    BY <2>1, <2>2 DEF OutcomeInv
<1>2. CASE SkipPendingRun
  <2>1. exc = "none" /\ spec.status = "SKIPPED"
    BY <1>2 DEF SkipPendingRun, CInv, ControlInv, InTry
  <2> QED
    BY <1>2, <2>1 DEF SkipPendingRun, Goto, rest, OutcomeInv
<1>3. CASE Start
  <2>1. spec'.status = "FAILED" /\ spec'.substatus = spec.substatus
    BY <1>3, <1>h DEF Start, SpecType
  <2> QED
    BY <1>3, <2>1 DEF Start, Goto, OutcomeInv
<1>4. CASE SetPaths
  <2>1. Within
    <3>1. Tally
      BY <1>4, <1>h, TallyNotes DEF SetPaths, Tally
    <3> QED
      BY <1>4, <3>1, OutcomeKept DEF SetPaths, Goto, Raise, Within
  <2> QED
    BY <1>4, <2>1, OutcomeKept, WithinKeeps
<1>5. CASE ConstructResources
  BY <1>5, <1>t, TryWithin DEF ConstructResources
<1>6. CASE BenchmarkStart
  BY <1>6, <1>t, TryWithin DEF BenchmarkStart
<1>7. CASE CaptureVMLogs
  BY <1>7, <1>t, TryWithin DEF CaptureVMLogs
<1>8. CASE UpdateTimeoutMetadata
  BY <1>8, <1>t, TryWithin DEF UpdateTimeoutMetadata
<1>9. CASE AddSamples
  BY <1>9, <1>t, TryWithin DEF AddSamples
<1>10. CASE TornDownOnException
  BY <1>10, <1>t, TryWithin DEF TornDownOnException
<1>11. CASE LogsOnException
  BY <1>11, <1>t, TryWithin DEF LogsOnException
<1>12. CASE Publish
  BY <1>12, <1>t, TryWithin DEF Publish
<1>13. CASE PickleBefore
  BY <1>13, <1>t, PickleWithin DEF PickleBefore
<1>14. CASE PickleAfter
  BY <1>14, <1>t, PickleWithin DEF PickleAfter
<1>15. CASE Provision
  <2>1. pc = "provision" /\ spec' = spec
    BY <1>15 DEF Provision
  <2>2. PICK i \in 1..Len(ProvisionOrder), r \in Present : ProvisionOne(i, r)
    BY <1>15, ProvisionEffect
  <2>3. UNCHANGED <<pc, hist>> \/ (pc' = "pickle_after" /\ Fault(hist))
    BY <2>2 DEF ProvisionOne, Raise
  <2>4. Within
    BY <1>h, <2>1, <2>3, TallyNotes DEF Within, Tally
  <2> QED
    BY <1>t, <2>1, <2>4
<1>16. CASE Provisioned
  BY <1>16, <1>t DEF Provisioned, Goto, rest, Within, Tally
<1>17. CASE ProvisionEnd
  <2>1. Tally
    BY <1>17, <1>h, TallyNotes DEF ProvisionEnd
  <2> QED
    BY <1>17, <1>t, <2>1 DEF ProvisionEnd, Goto, Raise, rest, Within
<1>18. CASE SkipStage
  BY <1>18, <1>t DEF SkipStage, rest, Within, Tally
<1>19. CASE StartStage
  <2>1. Tally
    BY <1>19, <1>h, TallyNotes DEF StartStage, Tally
  <2> QED
    BY <1>19, <1>t, <2>1 DEF StartStage, Within
<1>20. CASE CheckInterrupt
  <2>1. Tally
    BY <1>20, <1>h, TallyNotes DEF CheckInterrupt
  <2> QED
    BY <1>20, <2>1 DEF CheckInterrupt, Tally, OutcomeInv
<1>21. CASE DoStage
  <2>1. Tally
    BY <1>21, <1>h, TallyNotes DEF DoStage, Tally
  <2> QED
    BY <1>21, <2>1, OutcomeKept, WithinKeeps DEF DoStage, Raise, Within
<1>22. CASE EndStage
  <2>1. Tally
    BY <1>22, <1>h, TallyNotes DEF EndStage, Tally
  <2> QED
    BY <1>22, <1>t, <2>1 DEF EndStage, Within
<1>23. CASE EndBody
  BY <1>23, <1>t DEF EndBody, Goto, rest, Within, Tally
<1>24. CASE ShouldTeardown
  <2>1. Tally
    BY <1>24, <1>h, TallyNotes DEF ShouldTeardown, Tally
  <2> QED
    BY <1>24, <1>t, <2>1 DEF ShouldTeardown, Goto, Raise, Within
<1>25. CASE DoTeardownPhase
  <2>1. Tally
    BY <1>25, <1>h, TallyNotes DEF DoTeardownPhase, Tally
  <2> QED
    BY <1>25, <1>t, <2>1 DEF DoTeardownPhase, Goto, Raise, Handler, Within
<1>26. CASE DeleteStart
  <2>1. Tally
    BY <1>26, <1>h, TallyNotes DEF DeleteStart, Tally
  <2>2. \/ pc' \in {Return[ret], "deleting"}
        \/ pc' = Handler[ret] /\ exc' # "none"
    BY <1>26 DEF DeleteStart, Goto, Raise, Substatus
  <2>3. pc' \notin {"start", "publish_failed"} /\ (pc' = "ended" => exc' # "none")
    BY <1>r, <2>2 DEF Handler, Return
  <2> QED
    BY <1>26, <1>t, <2>1, <2>3 DEF DeleteStart, Within
<1>27. CASE Delete
  <2>1. pc = "deleting" /\ spec' = spec
    BY <1>27 DEF Delete
  <2>2. PICK i \in 1..Len(DeleteOrder), r \in Present : DeleteOne(i, r)
    BY <1>27, DeleteEffect
  <2>3. Tally
    BY <1>h, <2>2, DeleteTally
  <2>4. UNCHANGED <<pc, exc>> \/ (pc' = Handler[ret] /\ exc' # "none")
    BY <2>2 DEF DeleteOne, DeleteRaises, Raise, Substatus
  <2>5. pc' \notin {"start", "publish_failed"} /\ (pc' = "ended" => exc' # "none")
    BY <1>r, <2>1, <2>4 DEF Handler
  <2> QED
    BY <1>t, <2>1, <2>3, <2>5 DEF Within
<1>28. CASE DeleteEnd
  <2>1. spec'.status = spec.status /\ spec'.substatus = spec.substatus
    BY <1>28, <1>h DEF DeleteEnd, SpecType
  <2>2. pc' \notin {"start", "ended", "publish_failed"}
    BY <1>28, <1>r DEF DeleteEnd, Goto, Return
  <2>3. pc = "deleting" /\ Tally
    BY <1>28 DEF DeleteEnd, Tally
  <2>4. Within
    BY <2>1, <2>2, <2>3 DEF Within
  <2> QED
    BY <2>1, <2>4, WithinKeeps
<1>29. CASE TornDown
  <2>1. Tally
    BY <1>29, <1>h, TallyNotes DEF TornDown
  <2> QED
    BY <1>29, <1>t, <2>1 DEF TornDown, Goto, Raise, rest, Within
<1>30. CASE Except
  <2>1. exc # "none"
    BY <1>30 DEF Except, CInv, ControlInv, InExcept, ExceptPcs
  <2>2. spec'.status = spec.status /\ spec'.substatus # "none"
    BY <1>30, <1>h, <2>1 DEF Except, SpecType
  <2>3. hist'.caught = TRUE /\ hist'.runs = hist.runs
    BY <1>30, <1>h DEF Except, HistType
  <2>4. pc = "except" /\ pc' \notin {"idle", "start", "ended"}
    BY <1>30 DEF Except, Goto
  <2> QED
    BY <2>2, <2>3, <2>4 DEF OutcomeInv
<1>31. CASE PublishFailedRunSample
  <2>1. Tally
    BY <1>31, <1>h, TallyNotes DEF PublishFailedRunSample, Tally
  <2>2. /\ spec'.status = spec.status
        /\ spec'.substatus \in {spec.substatus, "INTERRUPTED"}
    BY <1>31, <1>h DEF PublishFailedRunSample, SpecType
  <2>3. pc = "publish_failed" /\ pc' \in {"except_cleanup", "finally"}
    BY <1>31 DEF PublishFailedRunSample, Goto, Raise
  <2> QED
    BY <2>1, <2>2, <2>3 DEF Tally, OutcomeInv
<1>32. CASE CleanupOnException
  <2>1. Tally
    BY <1>32, <1>h, TallyNotes DEF CleanupOnException, Tally
  <2> QED
    BY <1>32, <1>t, <2>1 DEF CleanupOnException, Goto, Raise, rest, Within
<1>33. CASE TeardownOnException
  BY <1>33, <1>t DEF TeardownOnException, Goto, rest, Within, Tally
<1>34. CASE Finally
  <2>1. Tally
    BY <1>34, <1>h, TallyNotes DEF Finally, Tally
  <2> QED
    BY <1>34, <1>t, <2>1 DEF Finally, Goto, Within
<1>35. CASE PickleFinal
  <2>1. Tally
    BY <1>35, <1>h, TallyNotes DEF PickleFinal, Pickle, Tally
  <2>2. /\ spec'.substatus = spec.substatus
        /\ spec'.status = IF exc' = "none" THEN "SUCCEEDED" ELSE spec.status
    BY <1>35, <1>h DEF PickleFinal, SpecType
  <2>3. pc = "pickle_final" /\ pc' = "ended"
    BY <1>35 DEF PickleFinal, Pickle, Goto, Raise
  <2> QED
    BY <2>1, <2>2, <2>3 DEF Tally, OutcomeInv
<1>36. CASE Crash
  <2>1. Tally
    BY <1>36, <1>h, TallyNotes DEF Crash
  <2> QED
    BY <1>36, <2>1 DEF Crash, Tally, OutcomeInv
<1>37. CASE UNCHANGED vars
  BY <1>37 DEF vars, process, OutcomeInv
<1> QED
  BY <1>1, <1>2, <1>3, <1>4, <1>5, <1>6, <1>7, <1>8, <1>9, <1>10,
     <1>11, <1>12, <1>13, <1>14, <1>15, <1>16, <1>17, <1>18, <1>19, <1>20,
     <1>21, <1>22, <1>23, <1>24, <1>25, <1>26, <1>27, <1>28, <1>29, <1>30,
     <1>31, <1>32, <1>33, <1>34, <1>35, <1>36, <1>37
     DEF Next, ProvisionPhase, BodyPhase, TeardownPhase, ExceptBlock, FinallyBlock

\* A run that failed anywhere raises and has a substatus if the except block
\* was entered; a failure of the finally block alone brings none.
THEOREM OutcomeSound == Spec => []AttemptOutcome
<1>1. Spec => []OutcomeInv
  <2>1. RunInv /\ OutcomeInv /\ [Next]_vars => OutcomeInv'
    BY OutcomeStep DEF RunInv
  <2> QED
    BY <2>1, OutcomeInit, RunAlways, PTL DEF Spec
<1>2. RunInv /\ OutcomeInv => AttemptOutcome
  BY DEF RunInv, CInv, ControlInv, OutcomeInv, AttemptOutcome
<1> QED
  BY <1>1, <1>2, RunAlways, PTL
=============================================================================
