--------------------------- MODULE RunPhaseProofs ---------------------------
(***************************************************************************)
(* RunPhase for any number and kinds of publishers, and any number of      *)
(* runs, retries and failures: what got into the collector gets into the   *)
(* output of every publisher, unless it writes its file anew or hides a    *)
(* failure, and only a failure of a publisher makes one get it twice.      *)
(***************************************************************************)
EXTENDS RunPhase, SequenceTheorems, TLAPS

\* DoRunPhase is in its loop, publications in it included.
InStage == pc \in {"run", "extend", "add", "next"} \/ (pc = "publish" /\ ret = "next")

\* The stage goes on only while there are retries left.
RetriesLeft == InStage => consecutive_failures <= opt.retries

\* A publication begins with the first publisher, wherever it is made.
FromTheFirst == pc # "publish" => at = 1

TypeInv == TypeOK /\ RetriesLeft /\ FromTheFirst

\* Until a publication has got through, all samples are in the collector.
\* The publishers that had their turn have what is in the collector.  What was
\* ever added is with every publisher that keeps its output or still in the
\* collector; one that does not keep it has it all after the first publication,
\* until there are new samples.
Kept ==
    /\ publications = 0 => ToSet(added) \subseteq ToSet(samples)
    /\ \A p \in Publisher \ swallowed :
         /\ p < at => ToSet(samples) \subseteq ToSet(received[p])
         /\ Kind[p] # "overwrite" =>
              ToSet(added) \subseteq ToSet(received[p]) \cup ToSet(samples)
         /\ publications <= 1 /\ samples = << >> =>
              ToSet(added) \subseteq ToSet(received[p])

\* What p has and is to get, at its turn in this publication or the next.
Stretch(p) == IF p < at THEN received[p] ELSE received[p] \o samples

\* Unless a publisher failed, this is all that was added, in order, up to the
\* last, and from the first on for a publisher that keeps its output.
InStep ==
    unpublished = 0 =>
      \A p \in Publisher \ swallowed :
        \E x \in Seq(Samples) : /\ Kind[p] # "overwrite" => x = << >>
                               /\ x \o Stretch(p) = added

IInv == TypeInv /\ Kept /\ InStep

-----------------------------------------------------------------------------
\* The elements of a sequence that is put together.
LEMMA ToSetConcat ==
  ASSUME NEW s \in Seq(Samples), NEW t \in Seq(Samples)
  PROVE  ToSet(s \o t) = ToSet(s) \cup ToSet(t)
<1>1. Range(s \o t) = Range(s) \cup Range(t)
  BY RangeConcatenation
<1> QED
  BY <1>1 DEF ToSet, Range

\* The elements of a sequence that is appended to.
LEMMA ToSetAppend ==
  ASSUME NEW s \in Seq(Samples), NEW e \in Samples
  PROVE  ToSet(Append(s, e)) = ToSet(s) \cup {e}
<1>1. Append(s, e) = s \o <<e>> /\ <<e>> \in Seq(Samples)
  BY AppendIsConcat
<1>2. ToSet(<<e>>) = {e}
  BY DEF ToSet
<1> QED
  BY <1>1, <1>2, ToSetConcat

\* The empty sequence has no elements.
LEMMA ToSetEmpty == ToSet(<< >>) = {}
  BY DEF ToSet

\* Appending to the second of two sequences is appending to both.
LEMMA ConcatAppend ==
  ASSUME NEW r \in Seq(Samples), NEW s \in Seq(Samples), NEW e \in Samples
  PROVE  r \o Append(s, e) = Append(r \o s, e)
<1> DEFINE t == <<e>>
<1>1. t \in Seq(Samples) /\ r \o s \in Seq(Samples)
  BY ConcatProperties
<1>2. Append(s, e) = s \o t /\ Append(r \o s, e) = (r \o s) \o t
  BY <1>1, AppendIsConcat
<1> HIDE DEF t
<1>3. (r \o s) \o t = r \o (s \o t)
  BY <1>1, ConcatAssociative
<1> QED
  BY <1>2, <1>3

\* A sequence is a prefix of itself with another behind it.
LEMMA PrefixOfConcat ==
  ASSUME NEW s \in Seq(Samples), NEW t \in Seq(Samples)
  PROVE  IsPrefix(s, s \o t)
<1>1. Len(s) \in Nat /\ Len(t) \in Nat /\ Len(s \o t) = Len(s) + Len(t)
  BY ConcatProperties, LenProperties
<1>2. SubSeq(s, 1, Len(s)) = s
  BY SubSeqFull
<1>3. SubSeq(s \o t, 1, Len(s)) = s
  <2>1. CASE Len(s) = 0
    <3>1. s = << >>
      BY <2>1, EmptySeq
    <3> QED
      BY <2>1, <3>1, SubSeqEmpty
  <2>2. CASE Len(s) # 0
    BY <2>2, <1>1, <1>2, SubSeqOfConcat1
  <2> QED
    BY <2>1, <2>2
<1> QED
  BY <1>1, <1>2, <1>3 DEF IsPrefix

\* What is left behind the first of two sequences is the second.
LEMMA RestOfConcat ==
  ASSUME NEW s \in Seq(Samples), NEW t \in Seq(Samples)
  PROVE  /\ SubSeq(s \o t, Len(s) + 1, Len(s \o t)) = t
         /\ Len(s) \in 0..Len(s \o t)
<1>1. Len(s) \in Nat /\ Len(t) \in Nat /\ Len(s \o t) = Len(s) + Len(t)
  BY ConcatProperties, LenProperties
<1>2. CASE Len(t) = 0
  <2>1. t = << >>
    BY <1>2, EmptySeq
  <2> QED
    BY <1>1, <1>2, <2>1, SubSeqEmpty
<1>3. CASE Len(t) # 0
  <2>1. SubSeq(s \o t, Len(s) + 1, Len(s \o t)) = SubSeq(t, 1, Len(t))
    BY <1>1, <1>3, SubSeqOfConcat2
  <2> QED
    BY <1>1, <2>1, SubSeqFull
<1> QED
  BY <1>2, <1>3

-----------------------------------------------------------------------------
\* The options are those of the flags.
LEMMA OptionTypes ==
  ASSUME TypeOK
  PROVE  /\ opt.retries \in Nat /\ opt.iterations \in Nat
         /\ opt.time \in BOOLEAN /\ opt.publish_after_run \in BOOLEAN
         /\ opt.publish_period \in BOOLEAN
  BY RunPhaseAssumption DEF TypeOK, OptionsType

\* A fault is counted.
LEMMA FaultTyped == TypeOK /\ Fault => faults' \in Nat
  BY DEF TypeOK, Fault

\* The steps of DoRunPhase keep the types, and the retries that are left.
LEMMA RunTypes ==
  ASSUME TypeInv, RunStep PROVE TypeInv'
<1> USE DEF TypeInv, RetriesLeft, InStage, FromTheFirst
<1>0. opt.retries \in Nat /\ opt.iterations \in Nat
  BY OptionTypes
<1>1. CASE RunAborted
  BY <1>1, FaultTyped DEF RunAborted, phase, collector, TypeOK
<1>2. CASE RunSucceeds
  <2>1. [of |-> "run", run |-> run_number] \in Samples
    BY DEF TypeOK, Samples
  <2>2. batch' \in Seq(Samples)
    BY <1>2, <2>1 DEF RunSucceeds
  <2>3. runs' \in Seq(BOOLEAN)
    BY <1>2, AppendProperties DEF RunSucceeds, TypeOK
  <2> QED
    BY <1>0, <1>2, <2>2, <2>3 DEF RunSucceeds, collector, TypeOK
<1>3. CASE RunFails
  <2>1. consecutive_failures' \in 0..(opt.retries + 1)
    BY <1>0, <1>3 DEF RunFails, TypeOK
  <2>2. runs' \in Seq(BOOLEAN) /\ batch' \in Seq(Samples)
    BY <1>3, AppendProperties DEF RunFails, TypeOK
  <2>3. /\ pc' \in {"finally", "extend"} /\ raised' \in BOOLEAN
        /\ pc' = "extend" => consecutive_failures' <= opt.retries
    <3>1. CASE consecutive_failures' > opt.retries
      BY <1>3, <3>1 DEF RunFails
    <3>2. CASE ~(consecutive_failures' > opt.retries)
      <4>1. pc' = "extend" /\ raised' = raised
        BY <1>3, <3>2 DEF RunFails
      <4>2. consecutive_failures' <= opt.retries
        BY <1>0, <2>1, <3>2
      <4> QED
        BY <4>1, <4>2 DEF TypeOK
    <3> QED
      BY <3>1, <3>2
  <2> QED
    BY <1>0, <1>3, <2>1, <2>2, <2>3 DEF RunFails, collector, TypeOK
<1>4. CASE ExtendSamples
  <2>1. [of |-> "system", run |-> run_number] \in Samples
    BY DEF TypeOK, Samples
  <2>2. batch' \in Seq(Samples)
    <3>1. Append(batch, [of |-> "system", run |-> run_number]) \in Seq(Samples)
      BY <2>1, AppendProperties DEF TypeOK
    <3> QED
      BY <1>4, <3>1 DEF ExtendSamples, TypeOK
  <2>3. faults' \in Nat /\ raised' \in BOOLEAN /\ pc' \in {"add", "finally"}
    BY <1>4, FaultTyped DEF ExtendSamples, TypeOK
  <2> QED
    BY <1>4, <2>2, <2>3 DEF ExtendSamples, collector, TypeOK
<1>5. CASE AddSamples
  <2>1. Head(batch) \in Samples /\ Tail(batch) \in Seq(Samples)
    BY <1>5, HeadTailProperties DEF AddSamples, TypeOK
  <2>2. /\ batch' \in Seq(Samples) /\ samples' \in Seq(Samples)
        /\ added' \in Seq(Samples)
    <3>1. /\ Append(samples, Head(batch)) \in Seq(Samples)
          /\ Append(added, Head(batch)) \in Seq(Samples)
      BY <2>1, AppendProperties DEF TypeOK
    <3> QED
      BY <1>5, <2>1, <3>1 DEF AddSamples, TypeOK
  <2>3. faults' \in Nat /\ raised' \in BOOLEAN /\ pc' \in {"add", "finally"}
    BY <1>5, FaultTyped DEF AddSamples, TypeOK
  <2> QED
    BY <1>5, <2>2, <2>3 DEF AddSamples, TypeOK
<1>6. CASE Added
  BY <1>6 DEF Added, phase, history, TypeOK
<1>7. CASE NextRun
  BY <1>7 DEF NextRun, collector, history, TypeOK
<1> QED
  BY <1>1, <1>2, <1>3, <1>4, <1>5, <1>6, <1>7 DEF RunStep

\* What a publisher has is a sequence of samples, whether or not it failed.
LEMMA OutputTyped ==
  ASSUME TypeOK, NEW p \in Publisher
  PROVE  /\ Opened(p) \in Seq(Samples) /\ Opened(p) \o samples \in Seq(Samples)
         /\ \A s \in Cut(p) : s \in Seq(Samples)
<1>1. samples \in Seq(Samples) /\ received[p] \in Seq(Samples)
  BY DEF TypeOK
<1>2. Opened(p) \in Seq(Samples)
  BY <1>1, EmptySeq DEF Opened
<1>3. ASSUME NEW n \in 0..Len(samples) PROVE SubSeq(samples, 1, n) \in Seq(Samples)
  <2>1. \A i \in 1..n : samples[i] \in Samples
    BY <1>1, ElementOfSeq, LenProperties
  <2> QED
    BY <1>1, <2>1, SubSeqProperties, LenProperties
<1>4. ASSUME NEW s \in Cut(p) PROVE s \in Seq(Samples)
  BY <1>1, <1>2, <1>3, ConcatProperties DEF Cut
<1> QED
  BY <1>1, <1>2, <1>4, ConcatProperties

\* A failed publication takes nothing from an output that is added to.
LEMMA CutKeeps ==
  ASSUME TypeOK, NEW p \in Publisher, Kind[p] # "overwrite", NEW s \in Cut(p)
  PROVE  ToSet(received[p]) \subseteq ToSet(s)
<1>1. samples \in Seq(Samples) /\ received[p] \in Seq(Samples)
  BY DEF TypeOK
<1>2. CASE s = received[p]
  BY <1>2
<1>3. ASSUME NEW n \in 0..Len(samples), s = received[p] \o SubSeq(samples, 1, n)
      PROVE  ToSet(received[p]) \subseteq ToSet(s)
  <2>1. \A i \in 1..n : samples[i] \in Samples
    BY <1>1, ElementOfSeq, LenProperties
  <2>2. SubSeq(samples, 1, n) \in Seq(Samples)
    BY <1>1, <2>1, SubSeqProperties, LenProperties
  <2> QED
    BY <1>1, <1>3, <2>2, ToSetConcat
<1> QED
  BY <1>2, <1>3 DEF Cut, Opened

\* The steps of PublishSamples keep the types.
LEMMA PublishTypes ==
  ASSUME TypeInv, PublishStep PROVE TypeInv'
<1> USE DEF TypeInv, RetriesLeft, InStage, FromTheFirst
<1>0. NumPublishers \in Nat
  BY RunPhaseAssumption
<1>1. CASE PublishNothing
  BY <1>1 DEF PublishNothing, phase, collector, history, TypeOK
<1>2. CASE PublishTo
  <2>1. at \in Publisher
    BY <1>0, <1>2 DEF PublishTo, TypeOK, Publisher
  <2>2. CASE /\ received' = [received EXCEPT ![at] = Opened(at) \o samples]
             /\ at' = at + 1
             /\ UNCHANGED <<pc, raised, faults, unpublished>>
    <3>1. received' \in [Publisher -> Seq(Samples)]
      BY <2>1, <2>2, OutputTyped DEF TypeOK
    <3>2. at' \in 1..(NumPublishers + 1)
      BY <1>0, <1>2, <2>2 DEF PublishTo, TypeOK
    <3> QED
      BY <1>2, <2>2, <3>1, <3>2 DEF PublishTo, phase, TypeOK
  <2>3. CASE /\ \E s \in Cut(at) : received' = [received EXCEPT ![at] = s]
             /\ Fault /\ unpublished' = unpublished + 1
             /\ raised' = (raised \/ ret = "next")
             /\ at' = 1 /\ pc' = Raised[ret]
    <3>1. received' \in [Publisher -> Seq(Samples)]
      BY <2>1, <2>3, OutputTyped DEF TypeOK
    <3>2. pc' \in {"finally", "task", "end"}
      BY <2>3 DEF Raised, TypeOK
    <3>3. faults' \in Nat /\ unpublished' \in Nat /\ raised' \in BOOLEAN
      BY <2>3, FaultTyped DEF TypeOK
    <3>4. at' \in 1..(NumPublishers + 1)
      BY <1>0, <2>3
    <3> QED
      BY <1>2, <2>3, <3>1, <3>2, <3>3, <3>4 DEF PublishTo, phase, TypeOK
  <2> QED
    BY <1>2, <2>2, <2>3 DEF PublishTo
<1>3. CASE Published
  <2>1. published_samples' \in Seq(Samples) /\ samples' \in Seq(Samples)
    BY <1>3, ConcatProperties DEF Published, TypeOK
  <2> QED
    BY <1>0, <1>3, <2>1 DEF Published, phase, TypeOK
<1>4. CASE SwallowError
  <2>1. at \in Publisher /\ at' \in 1..(NumPublishers + 1)
    BY <1>0, <1>4 DEF SwallowError, TypeOK, Publisher
  <2>2. received' \in [Publisher -> Seq(Samples)]
    BY <1>4, <2>1, OutputTyped DEF SwallowError, TypeOK
  <2>3. faults' \in Nat /\ swallowed' \subseteq Publisher
    BY <1>4, <2>1, FaultTyped DEF SwallowError, TypeOK
  <2> QED
    BY <1>4, <2>1, <2>2, <2>3 DEF SwallowError, phase, TypeOK
<1> QED
  BY <1>1, <1>2, <1>3, <1>4 DEF PublishStep

\* Every step keeps the types.
LEMMA TypeInductive == TypeInv /\ [Next]_vars => TypeInv'
<1> SUFFICES ASSUME TypeInv, [Next]_vars PROVE TypeInv'
  OBVIOUS
<1> USE DEF TypeInv, RetriesLeft, InStage, FromTheFirst
<1>1. CASE Tick
  BY <1>1 DEF Tick, collector, history, TypeOK
<1>2. CASE Finally
  BY <1>2 DEF Finally, phase, history, TypeOK
<1>3. CASE RunBenchmarks
  BY <1>3 DEF RunBenchmarks, phase, history, TypeOK
<1>4. CASE UNCHANGED vars
  BY <1>4 DEF vars, phase, collector, history, TypeOK
<1> QED
  BY <1>1, <1>2, <1>3, <1>4, RunTypes, PublishTypes DEF Next

\* A run stage begins in a state of the type invariant.
LEMMA TypeInit == Init => TypeInv
<1> SUFFICES ASSUME Init PROVE TypeInv
  OBVIOUS
<1>1. NumPublishers \in Nat \ {0} /\ opt \in OptionsType
  BY RunPhaseAssumption DEF Init
<1>2. opt.retries \in Nat
  BY <1>1 DEF OptionsType
<1>3. << >> \in Seq(Samples) /\ << >> \in Seq(BOOLEAN)
  BY EmptySeq
<1>4. received \in [Publisher -> Seq(Samples)]
  BY <1>3 DEF Init
<1>5. at \in 1..(NumPublishers + 1) /\ consecutive_failures \in 0..(opt.retries + 1)
  BY <1>1, <1>2 DEF Init
<1>6. TypeOK
  BY <1>3, <1>4, <1>5 DEF Init, TypeOK
<1> QED
  BY <1>2, <1>6
     DEF Init, TypeInv, TypeOK, RetriesLeft, InStage, FromTheFirst

\* The run stage, the collector and the publishers keep their types; the
\* failures in a row are never more than --run_stage_retries and one.
THEOREM TypeCorrect == Spec => []TypeOK
<1>1. TypeInv => TypeOK
  BY DEF TypeInv
<1> QED
  BY <1>1, TypeInit, TypeInductive, PTL DEF Spec

-----------------------------------------------------------------------------
\* Steps that leave the collector's samples and what was received alone keep
\* the two invariants about them.
LEMMA Aside ==
  ASSUME Kept, InStep,
         UNCHANGED <<samples, received, added, unpublished, publications,
                     swallowed, at>>
  PROVE  Kept' /\ InStep'
  BY DEF Kept, InStep, Stretch

\* A sample that is added goes into the collector and on record.
LEMMA AddKeeps ==
  ASSUME TypeInv, Kept, InStep, AddSamples
  PROVE  Kept' /\ InStep'
<1>0. UNCHANGED <<received, unpublished, publications, swallowed, at>> /\ at = 1
  BY DEF AddSamples, TypeInv, FromTheFirst
<1>1. CASE UNCHANGED <<samples, added>>
  BY <1>0, <1>1, Aside
<1>2. CASE /\ samples' = Append(samples, Head(batch))
           /\ added' = Append(added, Head(batch))
  <2> DEFINE h == Head(batch)
  <2>1. h \in Samples
    BY HeadTailProperties DEF AddSamples, TypeInv, TypeOK
  <2>2. samples \in Seq(Samples) /\ added \in Seq(Samples)
    BY DEF TypeInv, TypeOK
  <2>3. samples' # << >>
    BY <1>2, <2>1, <2>2, AppendProperties
  <2>4. ToSet(samples') = ToSet(samples) \cup {h}
    BY <1>2, <2>1, <2>2, ToSetAppend
  <2>5. ToSet(added') = ToSet(added) \cup {h}
    BY <1>2, <2>1, <2>2, ToSetAppend
  <2>6. ASSUME NEW p \in Publisher PROVE ~(p < at)
    BY <1>0 DEF Publisher
  <2>7. Kept'
    BY <1>0, <2>3, <2>4, <2>5, <2>6 DEF Kept
  <2>8. ASSUME NEW p \in Publisher \ swallowed, unpublished = 0
        PROVE  \E x \in Seq(Samples) : /\ Kind[p] # "overwrite" => x = << >>
                                      /\ x \o (received[p] \o samples') = added'
    <3>1. received[p] \in Seq(Samples)
      BY DEF TypeInv, TypeOK
    <3>2. PICK x \in Seq(Samples) : /\ Kind[p] # "overwrite" => x = << >>
                                   /\ x \o (received[p] \o samples) = added
      BY <2>6, <2>8 DEF InStep, Stretch
    <3>3. received[p] \o samples' = Append(received[p] \o samples, h)
      BY <1>2, <2>1, <2>2, <3>1, ConcatAppend
    <3>4. received[p] \o samples \in Seq(Samples)
      BY <2>2, <3>1, ConcatProperties
    <3>5. x \o Append(received[p] \o samples, h) = Append(added, h)
      BY <2>1, <3>2, <3>4, ConcatAppend
    <3> QED
      BY <1>2, <3>2, <3>3, <3>5
  <2>9. InStep'
    BY <1>0, <2>6, <2>8 DEF InStep, Stretch
  <2> QED
    BY <2>7, <2>9
<1> QED
  BY <1>1, <1>2 DEF AddSamples

LEMMA Associative ==
  ASSUME NEW x \in Seq(Samples), NEW y \in Seq(Samples), NEW z \in Seq(Samples)
  PROVE  (x \o y) \o z = x \o (y \o z)
BY ConcatAssociative

\* The publisher at the turn gets all of the samples ...
LEMMA GivenKeeps ==
  ASSUME TypeInv, Kept, InStep, at \in Publisher, samples # << >>,
         received' = [received EXCEPT ![at] = Opened(at) \o samples],
         at' = at + 1,
         UNCHANGED <<samples, added, unpublished, publications, swallowed>>
  PROVE  Kept' /\ InStep'
<1>1. /\ samples \in Seq(Samples) /\ received \in [Publisher -> Seq(Samples)]
      /\ received[at] \in Seq(Samples) /\ Opened(at) \in Seq(Samples) /\ at \in Nat
  BY OutputTyped DEF TypeInv, TypeOK
<1>2. received'[at] = Opened(at) \o samples
  BY <1>1
<1>3. ToSet(received'[at]) = ToSet(Opened(at)) \cup ToSet(samples)
  BY <1>1, <1>2, ToSetConcat
<1>4. \A p \in Publisher : p # at => received'[p] = received[p]
  BY <1>1
<1>5. \A p \in Publisher : p < at' <=> p < at \/ p = at
  BY <1>1 DEF Publisher
<1>6. Kept'
  <2>1. ASSUME NEW p \in Publisher \ swallowed
        PROVE  /\ p < at' => ToSet(samples) \subseteq ToSet(received'[p])
               /\ Kind[p] # "overwrite" =>
                    ToSet(added) \subseteq ToSet(received'[p]) \cup ToSet(samples)
    <3>1. CASE p = at
      BY <1>3, <3>1 DEF Kept, Opened
    <3>2. CASE p # at
      BY <1>4, <1>5, <3>2 DEF Kept
    <3> QED
      BY <3>1, <3>2
  <2> QED
    BY <2>1 DEF Kept
<1>7. ASSUME NEW p \in Publisher \ swallowed, unpublished = 0
      PROVE  \E x \in Seq(Samples) : /\ Kind[p] # "overwrite" => x = << >>
                                    /\ x \o Stretch(p)' = added
  <2>1. PICK x \in Seq(Samples) : /\ Kind[p] # "overwrite" => x = << >>
                                 /\ x \o Stretch(p) = added
    BY <1>7 DEF InStep
  <2>2. CASE p # at
    <3>1. Stretch(p)' = Stretch(p)
      BY <1>4, <1>5, <2>2 DEF Stretch
    <3> QED
      BY <2>1, <3>1
  <2>3. CASE p = at
    <3>1. Stretch(p) = received[at] \o samples /\ Stretch(p)' = Opened(at) \o samples
      BY <1>1, <1>2, <1>5, <2>3 DEF Stretch
    <3>2. CASE Kind[at] # "overwrite"
      BY <2>1, <2>3, <3>1, <3>2 DEF Opened
    <3>3. CASE Kind[at] = "overwrite"
      <4>1. Stretch(p)' = samples
        BY <1>1, <3>1, <3>3, ConcatEmptySeq DEF Opened
      <4>2. (x \o received[at]) \o samples = x \o (received[at] \o samples)
        BY <1>1, Associative
      <4>3. x \o received[at] \in Seq(Samples)
        BY <1>1, ConcatProperties
      <4>4. (x \o received[at]) \o Stretch(p)' = added
        BY <2>1, <3>1, <4>1, <4>2
      <4> QED
        BY <2>3, <3>3, <4>3, <4>4
    <3> QED
      BY <3>2, <3>3
  <2> QED
    BY <2>2, <2>3
<1>8. InStep'
  BY <1>7 DEF InStep
<1> QED
  BY <1>6, <1>8

\* ... or some and fails, with an exception ...
LEMMA FailedKeeps ==
  ASSUME TypeInv, Kept, at \in Publisher, samples # << >>,
         NEW s \in Cut(at), received' = [received EXCEPT ![at] = s],
         unpublished' = unpublished + 1, at' = 1,
         UNCHANGED <<samples, added, publications, swallowed>>
  PROVE  Kept' /\ InStep'
<1>1. received \in [Publisher -> Seq(Samples)] /\ unpublished \in Nat /\ TypeOK
  BY DEF TypeInv, TypeOK
<1>2. \A p \in Publisher :
        Kind[p] # "overwrite" => ToSet(received[p]) \subseteq ToSet(received'[p])
  BY <1>1, CutKeeps
<1>3. \A p \in Publisher : ~(p < at')
  BY DEF Publisher
<1>4. Kept'
  BY <1>2, <1>3 DEF Kept
<1>5. InStep'
  BY <1>1 DEF InStep
<1> QED
  BY <1>4, <1>5

\* ... or without one.
LEMMA SwallowKeeps ==
  ASSUME TypeInv, Kept, InStep, SwallowError
  PROVE  Kept' /\ InStep'
<1>1. /\ at' = at + 1 /\ swallowed' = swallowed \cup {at} /\ samples # << >>
      /\ UNCHANGED <<samples, added, unpublished, publications>>
  BY DEF SwallowError
<1>2. \A p \in Publisher : p # at => received'[p] = received[p]
  BY DEF SwallowError, TypeInv, TypeOK
<1>3. \A p \in Publisher : p # at => (p < at' <=> p < at)
  BY <1>1 DEF Publisher, TypeInv, TypeOK
<1>4. Kept'
  BY <1>1, <1>2, <1>3 DEF Kept
<1>5. \A p \in Publisher : p # at => Stretch(p)' = Stretch(p)
  BY <1>1, <1>2, <1>3 DEF Stretch
<1>6. InStep'
  BY <1>1, <1>5 DEF InStep
<1> QED
  BY <1>4, <1>6

\* So both invariants survive a publisher's turn.
LEMMA PublishKeeps ==
  ASSUME TypeInv, Kept, InStep, PublishTo
  PROVE  Kept' /\ InStep'
<1>1. at \in Publisher /\ samples # << >>
      /\ UNCHANGED <<samples, added, publications, swallowed>>
  BY RunPhaseAssumption DEF PublishTo, TypeInv, TypeOK, Publisher
<1>2. CASE /\ received' = [received EXCEPT ![at] = Opened(at) \o samples]
           /\ at' = at + 1
           /\ UNCHANGED unpublished
  BY <1>1, <1>2, GivenKeeps
<1>3. CASE /\ \E s \in Cut(at) : received' = [received EXCEPT ![at] = s]
           /\ unpublished' = unpublished + 1 /\ at' = 1
  BY <1>1, <1>3, FailedKeeps
<1> QED
  BY <1>2, <1>3 DEF PublishTo

\* The collector gives its samples up when all publishers have had their turn.
LEMMA PublishedKeepsAll ==
  ASSUME TypeInv, Kept, InStep, Published
  PROVE  Kept' /\ InStep'
<1>1. \A p \in Publisher : p < at /\ ~(p < at')
  BY RunPhaseAssumption DEF Published, TypeInv, TypeOK, Publisher
<1>2. /\ UNCHANGED <<received, added, unpublished, swallowed>> /\ samples' = << >>
      /\ publications' = publications + 1 /\ publications \in Nat
  BY DEF Published, TypeInv, TypeOK
<1>3. ToSet(samples') = {}
  BY <1>2, ToSetEmpty
<1>4. publications' # 0 /\ (publications' <= 1 => publications = 0)
  BY <1>2
<1>5. Kept'
  BY <1>1, <1>2, <1>3, <1>4 DEF Kept
<1>6. \A p \in Publisher : received[p] \o << >> = received[p]
  BY ConcatEmptySeq DEF TypeInv, TypeOK
<1>7. \A p \in Publisher : Stretch(p)' = Stretch(p)
  BY <1>1, <1>2, <1>6 DEF Stretch
<1>8. InStep'
  BY <1>2, <1>7 DEF InStep
<1> QED
  BY <1>5, <1>8

\* Every step keeps the invariant.
LEMMA StepKeeps == IInv /\ [Next]_vars => IInv'
<1> SUFFICES ASSUME IInv, [Next]_vars PROVE Kept' /\ InStep'
  BY TypeInductive DEF IInv
<1> USE DEF IInv
<1>1. CASE RunStep
  <2>1. CASE RunAborted
    BY <2>1, Aside DEF RunAborted, collector
  <2>2. CASE RunSucceeds
    BY <2>2, Aside DEF RunSucceeds, collector
  <2>3. CASE RunFails
    BY <2>3, Aside DEF RunFails, collector
  <2>4. CASE ExtendSamples
    BY <2>4, Aside DEF ExtendSamples, collector
  <2>5. CASE AddSamples
    BY <2>5, AddKeeps
  <2>6. CASE Added
    BY <2>6, Aside DEF Added, history
  <2>7. CASE NextRun
    BY <2>7, Aside DEF NextRun, collector, history
  <2> QED
    BY <1>1, <2>1, <2>2, <2>3, <2>4, <2>5, <2>6, <2>7 DEF RunStep
<1>2. CASE PublishStep
  <2>1. CASE PublishNothing
    BY <2>1, Aside DEF PublishNothing, collector, history
  <2> QED
    BY <1>2, <2>1, PublishKeeps, SwallowKeeps, PublishedKeepsAll DEF PublishStep
<1>3. CASE Tick
  BY <1>3, Aside DEF Tick, collector, history
<1>4. CASE Finally
  BY <1>4, Aside DEF Finally, history
<1>5. CASE RunBenchmarks
  BY <1>5, Aside DEF RunBenchmarks, history
<1>6. CASE UNCHANGED vars
  BY <1>6, Aside DEF vars, collector, history
<1> QED
  BY <1>1, <1>2, <1>3, <1>4, <1>5, <1>6 DEF Next

\* The invariant holds throughout.
LEMMA Invariance == Spec => []IInv
<1>1. Init => Kept /\ InStep
  <2> SUFFICES ASSUME Init PROVE Kept /\ InStep
    OBVIOUS
  <2>1. << >> \in Seq(Samples) /\ << >> \o << >> = << >>
    BY EmptySeq, ConcatEmptySeq
  <2>2. \A p \in Publisher : ~(p < at) /\ received[p] = << >>
    BY DEF Init, Publisher
  <2>3. \A p \in Publisher : << >> \o Stretch(p) = added
    BY <2>1, <2>2 DEF Init, Stretch
  <2> QED
    BY <2>1, <2>2, <2>3, ToSetEmpty DEF Init, Kept, InStep
<1>2. Init => IInv
  BY <1>1, TypeInit DEF IInv
<1> QED
  BY <1>2, StepKeeps, PTL DEF Spec

-----------------------------------------------------------------------------
\* Whatever goes wrong in DoRunPhase and in PublishSamples, when RunBenchmarks
\* is over and its publication emptied the collector, every sample that was
\* ever added is in the output of every publisher that reports its failures,
\* of one that overwrites its file if there was but one publication.
THEOREM NothingIsLost == Spec => []NothingLost
<1>1. IInv => NothingLost
  BY ToSetEmpty DEF IInv, Kept, NothingLost
<1> QED
  BY <1>1, Invariance, PTL

\* As long as no publisher fails, what each has is, in order and without
\* repetition, a stretch of what was added to the collector, its beginning if
\* the publisher adds to its output.
THEOREM NothingTwice == Spec => []PublishedOnce
<1>1. IInv => PublishedOnce
  <2> SUFFICES ASSUME IInv, unpublished = 0, NEW p \in Publisher \ swallowed
               PROVE  \E i \in 0..Len(added) :
                        /\ Kind[p] # "overwrite" => i = 0
                        /\ IsPrefix(received[p], SubSeq(added, i + 1, Len(added)))
    BY DEF PublishedOnce
  <2>1. received[p] \in Seq(Samples) /\ samples \in Seq(Samples)
        /\ added \in Seq(Samples)
    BY DEF IInv, TypeInv, TypeOK
  <2>2. PICK x \in Seq(Samples) : /\ Kind[p] # "overwrite" => x = << >>
                                 /\ x \o Stretch(p) = added
    BY DEF IInv, InStep
  <2>3. PICK t \in Seq(Samples) : Stretch(p) = received[p] \o t
    <3>1. CASE p < at
      BY <2>1, <3>1, ConcatEmptySeq, EmptySeq DEF Stretch
    <3>2. CASE ~(p < at)
      BY <2>1, <3>2 DEF Stretch
    <3> QED
      BY <3>1, <3>2
  <2> DEFINE s == Stretch(p)
  <2>4. s \in Seq(Samples)
    BY <2>1, <2>3, ConcatProperties
  <2>5. x \o s = added
    BY <2>2
  <2>6. IsPrefix(received[p], s)
    BY <2>1, <2>3, PrefixOfConcat
  <2> HIDE DEF s
  <2>7. SubSeq(added, Len(x) + 1, Len(added)) = s /\ Len(x) \in 0..Len(added)
    BY <2>4, <2>5, RestOfConcat
  <2>8. Kind[p] # "overwrite" => Len(x) = 0
    BY <2>2, EmptySeq
  <2> QED
    BY <2>6, <2>7, <2>8
<1> QED
  BY <1>1, Invariance, PTL
=============================================================================
