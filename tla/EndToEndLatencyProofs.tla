------------------------ MODULE EndToEndLatencyProofs ------------------------
(***************************************************************************)
(* EndToEndLatency for any number of messages and of faults: main and the  *)
(* two workers stay in step, a reception report answers what main asked    *)
(* for, and an error of the receiver costs one message.                    *)
(***************************************************************************)
EXTENDS EndToEndLatency, SequenceTheorems, FiniteSetTheorems, TLAPS

MainPcs == {"start", "loop", "AckConsume", "AckPublish", "ReceptionReport",
            "sleep", "PurgeAck", "stop", "done"}
MainType == [pc : MainPcs, i : 1..(NumberOfMessages + 1)]
ReceiverStates == {"Booting", "Ready", "Pulling", "PullSuccess", "PullError",
                   "Purging", "dead"}
ReceiverType == [state : ReceiverStates, seq : Seqs \cup {NoSeq},
                 got : Seqs \cup {NoSeq}, notify : BOOLEAN]
FaultsType == [n : 0..MaxFaults, publish : BOOLEAN, pull : BOOLEAN,
               slow : BOOLEAN, crash : BOOLEAN]

\* TypeOK by parts.
Types ==
    /\ streaming \in BOOLEAN /\ main \in MainType
    /\ published \subseteq Seqs /\ received \subseteq Seqs
    /\ publisher \in {"boot", "ready", "dead"} /\ receiver \in ReceiverType
    /\ received_seqs \subseteq Seqs /\ service \subseteq Seqs
    /\ buffer \in Seq(Seqs)
    /\ toPub \in Seq(Messages) /\ fromPub \in Seq(Messages)
    /\ toRcv \in Seq(Messages) /\ fromRcv \in Seq(Messages)
    /\ faults \in FaultsType

InTurn == {"AckConsume", "AckPublish", "ReceptionReport", "sleep", "PurgeAck"}

\* What main is waiting for exists.
TurnOfMessage == main.pc \in InTurn => main.i \in Seqs

(***************************************************************************)
(* The conversation of main with the publisher, by where main is in its    *)
(* turn.                                                                   *)
(***************************************************************************)
PublisherInStep ==
    /\ main.pc = "start" =>
         /\ toPub = << >>
         /\ \/ publisher = "boot" /\ fromPub = << >>
            \/ publisher = "ready" /\ fromPub = <<Msg("Ready", NoSeq)>>
    /\ main.pc \in {"loop", "AckConsume", "ReceptionReport", "sleep", "PurgeAck"} =>
         publisher = "ready" /\ toPub = << >> /\ fromPub = << >>
    /\ main.pc = "AckPublish" =>
         /\ publisher = "ready"
         /\ \/ toPub = <<Msg("Publish", main.i)>> /\ fromPub = << >>
            \/ toPub = << >> /\ fromPub = <<Msg("AckPublish", main.i)>>
            \/ toPub = << >> /\ fromPub = <<Error("AckPublish")>>
    /\ \A k \in 1..Len(toPub) : toPub[k] = Msg("Publish", main.i)

(***************************************************************************)
(* And with the receiver.  It is at work on a Consume, or it has answered  *)
(* and is ready for the next one, or will be without a further word.       *)
(***************************************************************************)
AtWork == receiver.state \in {"Pulling", "PullSuccess", "PullError"}
AtRest == \/ receiver.state \in {"Ready", "dead"}
          \/ receiver.state = "Purging" /\ ~receiver.notify

Reports == {Error("ReceptionReport"), Msg("ReceptionReport", main.i)}
Answering == \/ fromRcv = << >> /\ AtWork
             \/ (\E r \in Reports : fromRcv = <<r>>) /\ AtRest

AckConsume == Msg("AckConsume", NoSeq)

ReceiverInStep ==
    /\ main.pc = "start" =>
         /\ toRcv = << >>
         /\ \/ receiver.state = "Booting" /\ fromRcv = << >>
            \/ receiver.state = "Ready" /\ fromRcv = <<Msg("Ready", NoSeq)>>
    /\ main.pc \in {"loop", "sleep"} =>
         toRcv = << >> /\ fromRcv = << >> /\ AtRest
    /\ main.pc = "AckConsume" =>
         \/ toRcv = <<Msg("Consume", main.i)>> /\ fromRcv = << >> /\ AtRest
         \/ toRcv = << >> /\ fromRcv = <<AckConsume>> /\ AtWork
         \/ toRcv = << >> /\ (\E r \in Reports : fromRcv = <<AckConsume, r>>) /\ AtRest
    /\ main.pc \in {"AckPublish", "ReceptionReport"} => toRcv = << >> /\ Answering
    /\ main.pc = "PurgeAck" =>
         \/ toRcv = <<Msg("Purge", NoSeq)>> /\ Answering
         \/ /\ toRcv = << >>
            /\ \/ /\ fromRcv = << >>
                  /\ receiver.state = "Purging" /\ receiver.notify
               \/ fromRcv = <<Msg("PurgeAck", NoSeq)>> /\ receiver.state = "Ready"
               \/ /\ receiver.state = "dead"
                  /\ fromRcv = << >> \/ \E r \in Reports : fromRcv = <<r>>

(***************************************************************************)
(* Nothing of message i is anywhere before main has asked for it, and the  *)
(* receiver that works on it has not registered it yet: so the message     *)
(* that ends the Consume is i, also when main has given up meanwhile.      *)
(***************************************************************************)
Seen == service \cup Range(buffer) \cup received_seqs
          \cup {g \in {receiver.got} : receiver.state = "PullSuccess"}

NotYetPublished ==
    /\ \A s \in Seen : s \in Seqs /\ s <= main.i
    /\ main.pc \in {"start", "loop", "AckConsume"} => main.i \notin Seen

Expected ==
    /\ receiver.state \in {"Pulling", "PullSuccess"} =>
         receiver.seq = main.i /\ main.i \notin received_seqs
    /\ Len(toRcv) <= 1
    /\ toRcv # << >> /\ Head(toRcv).type = "Consume" =>
         Head(toRcv).seq = main.i /\ main.i \notin received_seqs /\ ~AtWork

LatencyInv ==
    /\ Types /\ TurnOfMessage /\ PublisherInStep /\ ReceiverInStep
    /\ NotYetPublished /\ Expected /\ ReportIsAnswer

(***************************************************************************)
(* The cost of errors, as long as publishing works, nobody dies and no     *)
(* deadline is missed: each message lost before this turn, and the one     *)
(* being lost in it, has a fault of its own.                               *)
(***************************************************************************)
Undisturbed == ~(faults.publish \/ faults.slow \/ faults.crash)

LostBefore == (1..(main.i - 1)) \ (published \cap received)

BeingLost ==
    \/ main.pc = "sleep" \/ receiver.state = "PullError"
    \/ Error("ReceptionReport") \in Range(fromRcv)

Published == \/ main.pc = "ReceptionReport"
             \/ main.pc = "AckPublish" /\ toPub = << >>

\* The run comes to its end after the last message, and the message published
\* in this turn is not lost before the receiver has pulled it.
OnCourse ==
    /\ main.pc # "PurgeAck"
    /\ receiver.state = "dead" => main.pc = "done"
    /\ main.pc \in {"stop", "done"} =>
         main.i \notin Seqs /\ toRcv = << >> /\ fromRcv = << >> /\ AtRest
    /\ Error("AckPublish") \notin Range(fromPub)
    /\ main.pc = "ReceptionReport" => main.i \in published
    /\ Published /\ receiver.state \in {"Pulling", "PullSuccess"} => main.i \in Seen

EachHasItsFault ==
    Cardinality(LostBefore) + (IF BeingLost THEN 1 ELSE 0) <= faults.n

CostInv == LatencyInv /\ (Undisturbed => OnCourse /\ EachHasItsFault)

-----------------------------------------------------------------------------
(***************************************************************************)
(* Pipes: what is read from and written to the short ones that occur.      *)
(***************************************************************************)
\* Reading from, and writing to, a pipe with up to two messages.
LEMMA ShortPipes ==
    ASSUME NEW x, NEW y
    PROVE  /\ Append(<< >>, x) = <<x>> /\ Append(<<x>>, y) = <<x, y>>
           /\ Head(<<x>>) = x /\ Tail(<<x>>) = << >>
           /\ Head(<<x, y>>) = x /\ Tail(<<x, y>>) = <<y>>
           /\ <<x>> # << >> /\ <<x, y>> # << >>
<1>1. Append(<< >>, x) = <<x>>
  OBVIOUS
<1>2. Append(<<x>>, y) = <<x, y>>
  <2> DEFINE s == Append(<<x>>, y)
             t == <<x, y>>
  <2>1. <<x>> \in Seq({x, y}) /\ Len(<<x>>) = 1 /\ <<x>>[1] = x
    OBVIOUS
  <2>2. s \in Seq({x, y}) /\ Len(s) = 2 /\ s[1] = x /\ s[2] = y
    BY <2>1, AppendProperties
  <2>3. t \in Seq({x, y}) /\ Len(t) = 2 /\ t[1] = x /\ t[2] = y
    OBVIOUS
  <2> HIDE DEF s, t
  <2>4. \A i \in 1..Len(s) : s[i] = t[i]
    BY <2>2, <2>3
  <2>5. s = t
    BY <2>2, <2>3, <2>4, SeqEqual
  <2> QED
    BY <2>5 DEF s, t
<1>3. Head(<<x>>) = x /\ Head(<<x, y>>) = x
  OBVIOUS
<1>4. Tail(<<x>>) = << >>
  OBVIOUS
<1>5. Tail(<<x, y>>) = <<y>>
  OBVIOUS
<1>6. <<x>> # << >> /\ <<x, y>> # << >>
  OBVIOUS
<1> QED
  BY <1>1, <1>2, <1>3, <1>4, <1>5, <1>6

\* What reading and writing do to a pipe's contents.
LEMMA ReadAndWrite ==
    ASSUME NEW S, NEW s \in Seq(S), NEW m \in S
    PROVE  /\ Append(s, m) \in Seq(S)
           /\ s # << >> => Head(s) \in S /\ Tail(s) \in Seq(S)
           /\ Range(Append(s, m)) = Range(s) \cup {m}
           /\ s # << >> => Range(s) = Range(Tail(s)) \cup {Head(s)}
<1>1. /\ Append(s, m) \in Seq(S) /\ Len(s) \in Nat
      /\ s # << >> => Head(s) \in S /\ Tail(s) \in Seq(S)
  OBVIOUS
<1>2. Range(Append(s, m)) = Range(s) \cup {m}
  <2> DEFINE t == Append(s, m)
  <2>1. /\ Len(t) = Len(s) + 1 /\ t[Len(s) + 1] = m
        /\ \A i \in 1..Len(s) : t[i] = s[i]
        /\ DOMAIN s = 1..Len(s) /\ DOMAIN t = 1..Len(t)
    OBVIOUS
  <2> HIDE DEF t
  <2>2. 1..Len(t) = (1..Len(s)) \cup {Len(s) + 1}
    BY <1>1, <2>1
  <2>3. Range(t) = Range(s) \cup {m}
    BY <2>1, <2>2 DEF Range
  <2> QED
    BY <2>3 DEF t
<1>3. ASSUME s # << >> PROVE Range(s) = Range(Tail(s)) \cup {Head(s)}
  <2> DEFINE t == Tail(s)
  <2>1. /\ Len(t) = Len(s) - 1 /\ Len(s) > 0 /\ Head(s) = s[1]
        /\ \A i \in 1..Len(t) : t[i] = s[i + 1]
        /\ DOMAIN s = 1..Len(s) /\ DOMAIN t = 1..Len(t)
    BY <1>3
  <2> HIDE DEF t
  <2>2. ASSUME NEW i \in 1..Len(s) PROVE s[i] \in Range(t) \cup {Head(s)}
    <3>1. CASE i = 1
      BY <2>1, <3>1
    <3>2. CASE i # 1
      <4>1. i - 1 \in 1..Len(t) /\ t[i - 1] = s[i]
        BY <1>1, <2>1, <3>2
      <4> QED
        BY <2>1, <4>1 DEF Range
    <3> QED
      BY <3>1, <3>2
  <2>3. ASSUME NEW i \in 1..Len(t) PROVE t[i] \in Range(s)
    <3>1. i + 1 \in 1..Len(s) /\ t[i] = s[i + 1]
      BY <1>1, <2>1
    <3> QED
      BY <2>1, <3>1 DEF Range
  <2>4. Head(s) \in Range(s)
    BY <1>1, <2>1 DEF Range
  <2>5. Range(s) \subseteq Range(t) \cup {Head(s)}
    BY <2>1, <2>2 DEF Range
  <2>6. Range(t) \subseteq Range(s)
    BY <2>1, <2>3 DEF Range
  <2> QED
    BY <2>4, <2>5, <2>6 DEF t
<1> QED
  BY <1>1, <1>2, <1>3

\* What is written to a pipe stays of its type.
LEMMA Written == \A s \in Seq(Messages), m \in Messages : Append(s, m) \in Seq(Messages)
OBVIOUS

\* A pipe whose one message was read is empty.
LEMMA LastRead ==
    ASSUME NEW s \in Seq(Messages), s # << >>, Len(s) <= 1
    PROVE  Tail(s) = << >> /\ Len(Tail(s)) = 0
<1>1. Tail(s) \in Seq(Messages) /\ Len(Tail(s)) = Len(s) - 1 /\ Len(s) > 0
  OBVIOUS
<1>2. Len(Tail(s)) = 0
  BY <1>1
<1> QED
  BY <1>1, <1>2, EmptySeq

\* The messages of the protocol are of the type of messages.
LEMMA MessageTypes ==
    /\ \A t \in {"Ready", "Purge", "PurgeAck", "AckConsume"} :
         Msg(t, NoSeq) \in Messages
    /\ \A i \in Seqs : \A t \in {"Publish", "Consume"} : Msg(t, i) \in Messages
    /\ \A t \in {"AckPublish", "ReceptionReport"} :
         /\ Error(t) \in Messages
         /\ \A i \in Seqs \cup {NoSeq} : Msg(t, i) \in Messages
    /\ \A m \in Messages : m.seq \in Seqs \cup {NoSeq}
    /\ \A m \in Messages : m.type \in {"Publish", "Consume"} => m.seq \in Seqs
    /\ \A m \in Messages : m.type = "ReceptionReport" /\ m # Error("ReceptionReport")
                             => m.seq \in Seqs
BY LatencyAssumption DEF Messages, Msg, Error, Seqs, NoSeq

-----------------------------------------------------------------------------
(***************************************************************************)
(* Types.                                                                  *)
(***************************************************************************)
\* What the steps of main do to it.
LEMMA GotoStep ==
    ASSUME main \in MainType, NEW p \in MainPcs, Goto(p)
    PROVE  main' \in MainType /\ main'.pc = p /\ main'.i = main.i
BY DEF Goto, MainType

\* main goes on to the next message.
LEMMA NextStep ==
    ASSUME main \in MainType, main.i \in Seqs, NextMessage
    PROVE  main' \in MainType /\ main'.pc = "loop" /\ main'.i = main.i + 1
BY LatencyAssumption DEF NextMessage, MainType, MainPcs, Seqs

\* What a new state of the receiver consists of.
LEMMA AtStep ==
    ASSUME NEW st \in ReceiverStates
    PROVE  /\ At(st) \in ReceiverType /\ At(st).state = st
           /\ At(st).seq = NoSeq /\ At(st).got = NoSeq /\ At(st).notify = FALSE
BY DEF At, ReceiverType

\* The receiver is told to pull.
LEMMA ConsumingStep ==
    ASSUME NEW i \in Seqs, receiver' = [At("Pulling") EXCEPT !.seq = i]
    PROVE  /\ receiver' \in ReceiverType /\ receiver'.state = "Pulling"
           /\ receiver'.seq = i
BY DEF At, ReceiverType, ReceiverStates

\* The receiver is told to purge.
LEMMA PurgingStep ==
    ASSUME receiver' = [At("Purging") EXCEPT !.notify = TRUE]
    PROVE  /\ receiver' \in ReceiverType /\ receiver'.state = "Purging"
           /\ receiver'.notify
BY DEF At, ReceiverType, ReceiverStates

\* The receiver's pull ends.
LEMMA PulledStep ==
    ASSUME receiver \in ReceiverType, NEW st \in ReceiverStates,
           NEW i \in Seqs \cup {NoSeq},
           receiver' = [receiver EXCEPT !.state = st, !.got = i]
    PROVE  /\ receiver' \in ReceiverType /\ receiver'.state = st
           /\ receiver'.got = i /\ receiver'.seq = receiver.seq
BY DEF ReceiverType

\* What a fault adds to the count.
LEMMA FaultStep ==
    ASSUME faults \in FaultsType, NEW f \in FaultsType, Fault(f)
    PROVE  /\ faults' \in FaultsType /\ faults'.n = faults.n + 1
           /\ faults'.publish = f.publish /\ faults'.slow = f.slow
           /\ faults'.crash = f.crash
BY LatencyAssumption DEF Fault, FaultsType

\* The kinds of faults keep the type of the count.
LEMMA FaultKinds ==
    ASSUME faults \in FaultsType
    PROVE  /\ [faults EXCEPT !.slow = TRUE] \in FaultsType
           /\ [faults EXCEPT !.publish = TRUE] \in FaultsType
           /\ [faults EXCEPT !.pull = TRUE] \in FaultsType
           /\ [faults EXCEPT !.crash = TRUE] \in FaultsType
BY DEF FaultsType

\* Every step keeps the types.
LEMMA TypeInductive == LatencyInv /\ [Next]_vars => Types' /\ TurnOfMessage'
<1> SUFFICES ASSUME LatencyInv, [Next]_vars PROVE Types' /\ TurnOfMessage'
  OBVIOUS
<1> DEFINE Kept == Types /\ TurnOfMessage
<1>0. Types /\ (main.pc \in InTurn => main.i \in Seqs)
  BY DEF LatencyInv, TurnOfMessage
<1> USE <1>0 DEF Types, TurnOfMessage, stamps, rcv, pipes
<1>1. CASE Started
  <2>1. main' \in MainType /\ main'.pc = "loop"
    BY <1>1, GotoStep DEF Started, MainPcs
  <2>2. fromPub' \in Seq(Messages) /\ fromRcv' \in Seq(Messages)
    BY <1>1 DEF Started
  <2> QED
    BY <1>1, <2>1, <2>2 DEF Started, InTurn
<1>2. CASE SendConsume
  <2>1. CASE main.i \in Seqs
    <3>1. main' \in MainType /\ main'.i = main.i
      BY <1>2, <2>1, GotoStep DEF SendConsume, MainPcs
    <3>2. toRcv' \in Seq(Messages)
      BY <1>2, <2>1, ReadAndWrite, MessageTypes DEF SendConsume
    <3> QED
      BY <1>2, <2>1, <3>1, <3>2 DEF SendConsume
  <2>2. CASE main.i \notin Seqs
    <3>1. main' \in MainType /\ main'.pc = "stop"
      BY <1>2, <2>2, GotoStep DEF SendConsume, MainPcs
    <3> QED
      BY <1>2, <2>2, <3>1 DEF SendConsume, InTurn
  <2> QED
    BY <2>1, <2>2
<1>3. CASE GetAckConsume
  <2>0. main.i \in Seqs /\ fromRcv' \in Seq(Messages)
    BY <1>3 DEF GetAckConsume, InTurn
  <2>1. main' \in MainType /\ main'.i = main.i
    BY <1>3, GotoStep DEF GetAckConsume, MainPcs
  <2>2. toPub' \in Seq(Messages)
    <3>1. Msg("Publish", main.i) \in Messages
      BY <2>0, MessageTypes
    <3>2. toPub' = toPub \/ toPub' = Append(toPub, Msg("Publish", main.i))
      BY <1>3 DEF GetAckConsume
    <3> QED
      BY <3>1, <3>2, Written
  <2> QED
    BY <1>3, <2>0, <2>1, <2>2 DEF GetAckConsume
<1>4. CASE GetAckPublish
  <2>0. main.i \in Seqs /\ fromPub' \in Seq(Messages)
    BY <1>4 DEF GetAckPublish, InTurn
  <2>1. fromPub \in {<<Msg("AckPublish", main.i)>>, <<Error("AckPublish")>>}
    BY <1>4 DEF GetAckPublish, LatencyInv, PublisherInStep
  <2>2. Head(fromPub) = Error("AckPublish") \/ Head(fromPub).seq = main.i
    BY <2>1, ShortPipes DEF Msg
  <2>3. main' \in MainType /\ main'.i = main.i
    BY <1>4, GotoStep DEF GetAckPublish, MainPcs
  <2>4. toRcv' \in Seq(Messages)
    <3>1. Msg("Purge", NoSeq) \in Messages
      BY MessageTypes
    <3>2. toRcv' = toRcv \/ toRcv' = Append(toRcv, Msg("Purge", NoSeq))
      BY <1>4 DEF GetAckPublish
    <3> QED
      BY <3>1, <3>2, Written
  <2>5. published' \subseteq Seqs
    BY <1>4, <2>0, <2>2 DEF GetAckPublish
  <2> QED
    BY <1>4, <2>0, <2>3, <2>4, <2>5 DEF GetAckPublish
<1>5. CASE GetReport
  <2>0. main.i \in Seqs /\ fromRcv' \in Seq(Messages) /\ Head(fromRcv) \in Messages
    BY <1>5 DEF GetReport, InTurn
  <2>1. Goto("stop") \/ Goto("sleep") \/ NextMessage \/ UNCHANGED main
    BY <1>5 DEF GetReport
  <2>2. main' \in MainType /\ (main'.pc \in InTurn => main'.i \in Seqs)
    <3>1. CASE Goto("stop") \/ Goto("sleep")
      BY <2>0, <3>1, GotoStep DEF MainPcs
    <3>2. CASE NextMessage
      BY <2>0, <3>2, NextStep DEF InTurn
    <3> QED
      BY <2>0, <2>1, <3>1, <3>2
  <2>3. received' \subseteq Seqs
    BY <1>5, <2>0, MessageTypes DEF GetReport
  <2> QED
    BY <1>5, <2>0, <2>2, <2>3 DEF GetReport
<1>6. CASE Sleep
  <2>1. main' \in MainType /\ main'.pc = "loop"
    BY <1>6, NextStep DEF Sleep, InTurn
  <2> QED
    BY <1>6, <2>1 DEF Sleep, InTurn
<1>7. CASE GetPurgeAck
  <2>0. main.i \in Seqs /\ fromRcv' \in Seq(Messages)
    BY <1>7 DEF GetPurgeAck, InTurn
  <2>1. main' \in MainType /\ main'.pc \in {"loop", "stop"}
    BY <1>7, <2>0, NextStep, GotoStep DEF GetPurgeAck, MainPcs
  <2> QED
    BY <1>7, <2>0, <2>1 DEF GetPurgeAck, InTurn
<1>8. CASE Stop
  <2>1. main' \in MainType /\ main'.pc = "done"
    BY <1>8, GotoStep DEF Stop, MainPcs
  <2>2. receiver' \in ReceiverType
    BY <1>8, AtStep DEF Stop, ReceiverStates
  <2> QED
    BY <1>8, <2>1, <2>2 DEF Stop, InTurn
<1>9. CASE TimeOut
  <2>1. main' \in MainType /\ main'.pc = "stop"
    BY <1>9, GotoStep DEF TimeOut, MainPcs
  <2>2. faults' \in FaultsType
    BY <1>9, FaultStep, FaultKinds DEF TimeOut
  <2> QED
    BY <1>9, <2>1, <2>2 DEF TimeOut, InTurn
<1>10. CASE GreetPublisher
  <2>1. fromPub' \in Seq(Messages)
    BY <1>10, ReadAndWrite, MessageTypes DEF GreetPublisher
  <2> QED
    BY <1>10, <2>1 DEF GreetPublisher
<1>11. ASSUME Publish \/ PublishFails PROVE Kept'
  <2>1. toPub # << >> /\ toPub' = Tail(toPub)
    BY <1>11 DEF Publish, PublishFails
  <2>2. Head(toPub).seq \in Seqs /\ toPub' \in Seq(Messages)
    <3>1. \A k \in 1..Len(toPub) : toPub[k] = Msg("Publish", main.i)
      BY DEF LatencyInv, PublisherInStep
    <3>2. Head(toPub) = Msg("Publish", main.i)
      BY <2>1, <3>1
    <3>3. Head(toPub) \in Messages /\ Head(toPub).type = "Publish"
      BY <2>1, <3>2 DEF Msg
    <3> QED
      BY <2>1, <3>3, MessageTypes
  <2>3. fromPub' \in Seq(Messages)
    <3>1. /\ Error("AckPublish") \in Messages
          /\ Msg("AckPublish", Head(toPub).seq) \in Messages
      BY <2>2, MessageTypes
    <3>2. \/ fromPub' = Append(fromPub, Error("AckPublish"))
          \/ fromPub' = Append(fromPub, Msg("AckPublish", Head(toPub).seq))
      BY <1>11 DEF Publish, PublishFails
    <3> QED
      BY <3>1, <3>2, Written
  <2>4. faults' \in FaultsType
    BY <1>11, FaultStep, FaultKinds DEF Publish, PublishFails
  <2>5. service' \subseteq Seqs
    BY <1>11, <2>2 DEF Publish, PublishFails
  <2> QED
    BY <1>11, <2>2, <2>3, <2>4, <2>5 DEF Publish, PublishFails
<1>12. CASE GreetReceiver
  <2>1. fromRcv' \in Seq(Messages)
    BY <1>12, ReadAndWrite, MessageTypes DEF GreetReceiver
  <2>2. receiver' \in ReceiverType
    BY <1>12, AtStep DEF GreetReceiver, ReceiverStates
  <2> QED
    BY <1>12, <2>1, <2>2 DEF GreetReceiver
<1>13. CASE AwaitConsume
  <2>1. Head(toRcv) \in Messages /\ toRcv' \in Seq(Messages)
    BY <1>13 DEF AwaitConsume
  <2>2. receiver' \in ReceiverType
    BY <1>13, <2>1, AtStep, ConsumingStep, MessageTypes DEF AwaitConsume,
       ReceiverStates
  <2>3. fromRcv' \in Seq(Messages)
    <3>1. Msg("AckConsume", NoSeq) \in Messages
      BY MessageTypes
    <3>2. fromRcv' = fromRcv \/ fromRcv' = Append(fromRcv, Msg("AckConsume", NoSeq))
      BY <1>13 DEF AwaitConsume
    <3> QED
      BY <3>1, <3>2, Written
  <2> QED
    BY <1>13, <2>1, <2>2, <2>3 DEF AwaitConsume
<1>14. CASE PullMessage
  <2>1. CASE streaming
    <3>0. buffer # << >> /\ buffer' = Tail(buffer)
      BY <1>14, <2>1 DEF PullMessage
    <3>1. Head(buffer) \in Seqs /\ buffer' \in Seq(Seqs)
      BY <3>0
    <3>2. receiver' \in ReceiverType
      BY <1>14, <2>1, <3>1, PulledStep DEF PullMessage, ReceiverStates
    <3> QED
      BY <1>14, <2>1, <3>1, <3>2 DEF PullMessage
  <2>2. CASE ~streaming
    <3>1. PICK seq \in service :
            /\ Deliver(seq)
            /\ receiver' = [receiver EXCEPT !.state = "PullSuccess", !.got = seq]
      BY <1>14, <2>2 DEF PullMessage
    <3>2. receiver' \in ReceiverType
      BY <3>1, PulledStep DEF ReceiverStates
    <3>3. service' \subseteq Seqs /\ faults' \in FaultsType
      BY <3>1, FaultStep DEF Deliver
    <3> QED
      BY <1>14, <2>2, <3>2, <3>3 DEF PullMessage
  <2> QED
    BY <2>1, <2>2
<1>15. CASE PullSuccess
  <2>1. receiver.got \in Seqs
    BY <1>15 DEF PullSuccess, LatencyInv, NotYetPublished, Seen
  <2>2. CASE toRcv # << >> /\ Head(toRcv).type = "Purge"
    <3>1. toRcv' = Tail(toRcv) /\ UNCHANGED <<received_seqs, fromRcv>>
      BY <1>15, <2>2 DEF PullSuccess
    <3>2. toRcv' \in Seq(Messages)
      BY <2>2, <3>1
    <3>3. receiver' \in ReceiverType
      BY <1>15, <2>2, PurgingStep DEF PullSuccess
    <3> QED
      BY <1>15, <3>1, <3>2, <3>3 DEF PullSuccess
  <2>3. CASE ~(toRcv # << >> /\ Head(toRcv).type = "Purge")
    <3>1. /\ toRcv' = toRcv /\ received_seqs' = received_seqs \cup {receiver.got}
          /\ \/ fromRcv' = Append(fromRcv, Msg("ReceptionReport", receiver.got))
             \/ fromRcv' = fromRcv
      BY <1>15, <2>3 DEF PullSuccess
    <3>2. Msg("ReceptionReport", receiver.got) \in Messages
      BY <2>1, MessageTypes
    <3>3. fromRcv' \in Seq(Messages)
      BY <3>1, <3>2, Written
    <3>4. receiver' \in ReceiverType
      BY <1>15, <2>3, PulledStep, AtStep DEF PullSuccess, ReceiverStates
    <3> QED
      BY <1>15, <2>1, <3>1, <3>3, <3>4 DEF PullSuccess
  <2> QED
    BY <2>2, <2>3
<1>16. CASE PullError
  <2>1. fromRcv' \in Seq(Messages)
    BY <1>16, ReadAndWrite, MessageTypes DEF PullError
  <2>2. receiver' \in ReceiverType
    BY <1>16, AtStep DEF PullError, ReceiverStates
  <2> QED
    BY <1>16, <2>1, <2>2 DEF PullError
<1>17. CASE Purge
  <2>1. fromRcv' \in Seq(Messages)
    BY <1>17, ReadAndWrite, MessageTypes DEF Purge
  <2>2. receiver' \in ReceiverType
    BY <1>17, AtStep DEF Purge, ReceiverStates
  <2> QED
    BY <1>17, <2>1, <2>2 DEF Purge
<1>18. CASE PullFails
  <2>1. receiver' \in ReceiverType
    BY <1>18, AtStep DEF PullFails, ReceiverStates
  <2>2. faults' \in FaultsType
    BY <1>18, FaultStep, FaultKinds DEF PullFails
  <2>3. service' \subseteq Seqs
    BY <1>18 DEF PullFails
  <2> QED
    BY <1>18, <2>1, <2>2, <2>3 DEF PullFails
<1>19. CASE PurgeFails
  <2>1. receiver' \in ReceiverType
    BY <1>19, AtStep DEF PurgeFails, ReceiverStates
  <2>2. faults' \in FaultsType
    BY <1>19, FaultStep, FaultKinds DEF PurgeFails
  <2> QED
    BY <1>19, <2>1, <2>2 DEF PurgeFails
<1>20. ASSUME NEW seq \in Seqs, OnMessageReceived(seq) PROVE Kept'
  <2>1. buffer' \in Seq(Seqs)
    BY <1>20, ReadAndWrite DEF OnMessageReceived
  <2>2. service' \subseteq Seqs /\ faults' \in FaultsType
    BY <1>20, FaultStep DEF OnMessageReceived, Deliver
  <2> QED
    BY <1>20, <2>1, <2>2 DEF OnMessageReceived
<1>21. CASE UNCHANGED vars
  BY <1>21 DEF vars
<1> QED
  BY <1>1, <1>2, <1>3, <1>4, <1>5, <1>6, <1>7, <1>8, <1>9, <1>10, <1>11, <1>12,
     <1>13, <1>14, <1>15, <1>16, <1>17, <1>18, <1>19, <1>20, <1>21
  DEF Next, Main, Receiver

-----------------------------------------------------------------------------
(***************************************************************************)
(* Main and the publisher stay in step.                                    *)
(***************************************************************************)
\* Every step keeps main and the publisher in step.
LEMMA PublisherStep == LatencyInv /\ [Next]_vars => PublisherInStep'
<1> SUFFICES ASSUME LatencyInv, [Next]_vars PROVE PublisherInStep'
  OBVIOUS
<1>0. /\ PublisherInStep /\ main \in MainType /\ main.pc \in MainPcs
      /\ toPub \in Seq(Messages) /\ (main.pc \in InTurn => main.i \in Seqs)
  BY DEF LatencyInv, Types, TurnOfMessage, MainType
<1> USE <1>0
<1>1. CASE Started
  <2>1. /\ main'.pc = "loop" /\ publisher' = publisher /\ toPub' = toPub
        /\ fromPub # << >> /\ fromPub' = Tail(fromPub) /\ main.pc = "start"
    BY <1>1, GotoStep DEF Started, MainPcs
  <2>2. publisher = "ready" /\ toPub = << >> /\ fromPub = <<Msg("Ready", NoSeq)>>
    BY <2>1 DEF PublisherInStep
  <2>3. fromPub' = << >>
    BY <2>1, <2>2, ShortPipes
  <2> QED
    BY <2>1, <2>2, <2>3 DEF PublisherInStep
<1>2. CASE SendConsume
  <2>1. /\ main'.pc \in {"AckConsume", "stop"} /\ main.pc = "loop"
        /\ UNCHANGED <<publisher, toPub, fromPub>>
    BY <1>2, GotoStep DEF SendConsume, MainPcs
  <2> QED
    BY <2>1 DEF PublisherInStep
<1>3. CASE GetAckConsume
  <2>1. /\ main.pc = "AckConsume" /\ main'.i = main.i
        /\ UNCHANGED <<publisher, fromPub>>
        /\ \/ toPub' = Append(toPub, Msg("Publish", main.i)) /\ main'.pc = "AckPublish"
           \/ toPub' = toPub /\ main'.pc = "stop"
    BY <1>3, GotoStep DEF GetAckConsume, MainPcs
  <2>2. publisher = "ready" /\ toPub = << >> /\ fromPub = << >>
    BY <2>1 DEF PublisherInStep
  <2>3. \/ toPub' = <<Msg("Publish", main.i)>> /\ main'.pc = "AckPublish"
        \/ toPub' = << >> /\ main'.pc = "stop"
    BY <2>1, <2>2, ShortPipes
  <2>4. \A k \in 1..Len(toPub') : toPub'[k] = Msg("Publish", main'.i)
    BY <2>1, <2>3
  <2> QED
    BY <2>1, <2>2, <2>3, <2>4 DEF PublisherInStep
<1>4. CASE GetAckPublish
  <2>1. /\ main.pc = "AckPublish" /\ main'.pc \in {"PurgeAck", "ReceptionReport"}
        /\ UNCHANGED <<publisher, toPub>>
        /\ fromPub # << >> /\ fromPub' = Tail(fromPub)
    BY <1>4, GotoStep DEF GetAckPublish, MainPcs
  <2>2. publisher = "ready" /\ toPub = << >> /\ \E m : fromPub = <<m>>
    BY <2>1 DEF PublisherInStep
  <2>3. fromPub' = << >>
    BY <2>1, <2>2, ShortPipes
  <2> QED
    BY <2>1, <2>2, <2>3 DEF PublisherInStep
<1>5. CASE GetReport \/ Sleep \/ GetPurgeAck
  <2>1. /\ main.pc \in {"ReceptionReport", "sleep", "PurgeAck"}
        /\ UNCHANGED <<publisher, toPub, fromPub>>
    BY <1>5 DEF GetReport, Sleep, GetPurgeAck, pipes
  <2>2. Goto("stop") \/ Goto("sleep") \/ NextMessage \/ UNCHANGED main
    BY <1>5 DEF GetReport, Sleep, GetPurgeAck
  <2>3. main'.pc \in {"stop", "sleep", "loop", "ReceptionReport", "PurgeAck"}
    BY <2>1, <2>2, GotoStep, NextStep DEF MainPcs, InTurn
  <2> QED
    BY <2>1, <2>3 DEF PublisherInStep
<1>6. CASE Stop \/ TimeOut
  <2>1. main'.pc \in {"stop", "done"} /\ main'.i = main.i /\ toPub' = toPub
    BY <1>6, GotoStep DEF Stop, TimeOut, MainPcs, pipes
  <2> QED
    BY <2>1 DEF PublisherInStep
<1>7. CASE GreetPublisher
  <2>1. /\ publisher = "boot" /\ publisher' = "ready" /\ UNCHANGED <<main, toPub>>
        /\ fromPub' = Append(fromPub, Msg("Ready", NoSeq))
    BY <1>7 DEF GreetPublisher
  <2>2. CASE main.pc = "start"
    <3>1. fromPub = << >>
      BY <2>1, <2>2 DEF PublisherInStep
    <3>2. fromPub' = <<Msg("Ready", NoSeq)>>
      BY <2>1, <3>1, ShortPipes
    <3> QED
      BY <2>1, <2>2, <3>2 DEF PublisherInStep
  <2>3. CASE main.pc # "start"
    BY <2>1, <2>3 DEF PublisherInStep
  <2> QED
    BY <2>2, <2>3
<1>8. CASE Publish \/ PublishFails
  <2>1. /\ toPub # << >> /\ toPub' = Tail(toPub) /\ UNCHANGED <<main, publisher>>
        /\ \/ fromPub' = Append(fromPub, Msg("AckPublish", Head(toPub).seq))
           \/ fromPub' = Append(fromPub, Error("AckPublish"))
    BY <1>8 DEF Publish, PublishFails
  <2>2. \A k \in 1..Len(toPub') : toPub'[k] = Msg("Publish", main'.i)
    BY <2>1 DEF PublisherInStep
  <2>3. CASE main.pc = "AckPublish"
    <3>1. toPub = <<Msg("Publish", main.i)>> /\ fromPub = << >> /\ publisher = "ready"
      BY <2>1, <2>3 DEF PublisherInStep
    <3>2. toPub' = << >> /\ Head(toPub) = Msg("Publish", main.i)
      BY <2>1, <3>1, ShortPipes
    <3>3. Head(toPub).seq = main.i
      BY <3>2 DEF Msg
    <3>4. fromPub' \in {<<Msg("AckPublish", main.i)>>, <<Error("AckPublish")>>}
      BY <2>1, <3>1, <3>3, ShortPipes
    <3> QED
      BY <2>1, <2>2, <2>3, <3>1, <3>2, <3>4 DEF PublisherInStep
  <2>4. CASE main.pc # "AckPublish"
    BY <2>1, <2>2, <2>4 DEF PublisherInStep, MainPcs
  <2> QED
    BY <2>3, <2>4
<1>9. CASE UNCHANGED <<main, publisher, toPub, fromPub>>
  BY <1>9 DEF PublisherInStep
<1>10. Receiver \/ PullFails \/ PurgeFails \/ (\E seq \in Seqs : OnMessageReceived(seq))
         \/ UNCHANGED vars => UNCHANGED <<main, publisher, toPub, fromPub>>
  BY DEF Receiver, GreetReceiver, AwaitConsume, PullMessage, PullSuccess,
     PullError, Purge, PullFails, PurgeFails, OnMessageReceived, vars, pipes
<1> QED
  BY <1>1, <1>2, <1>3, <1>4, <1>5, <1>6, <1>7, <1>8, <1>9, <1>10 DEF Next, Main

-----------------------------------------------------------------------------
(***************************************************************************)
(* Main and the receiver stay in step.                                     *)
(***************************************************************************)
\* The message that ends the wait for i is i.
LEMMA ReportedIsExpected ==
    ASSUME LatencyInv, receiver.state = "PullSuccess",
           receiver.seq \in received_seqs \cup {receiver.got}
    PROVE  receiver.got = main.i
BY DEF LatencyInv, Expected

\* What main does when it reads from the receiver.
LEMMA ReceiverStepOfMain ==
    LatencyInv /\ (Started \/ SendConsume \/ GetAckConsume \/ GetAckPublish
                     \/ GetReport \/ Sleep \/ GetPurgeAck \/ Stop \/ TimeOut)
      => ReceiverInStep'
<1> SUFFICES ASSUME LatencyInv,
                    Started \/ SendConsume \/ GetAckConsume \/ GetAckPublish
                      \/ GetReport \/ Sleep \/ GetPurgeAck \/ Stop \/ TimeOut
             PROVE  ReceiverInStep'
  OBVIOUS
<1>0. /\ ReceiverInStep /\ main \in MainType /\ main.pc \in MainPcs
      /\ main.pc \in InTurn => main.i \in Seqs
  BY DEF LatencyInv, Types, TurnOfMessage, MainType
<1> USE <1>0
<1>1. CASE Started
  <2>1. /\ main'.pc = "loop" /\ receiver' = receiver /\ toRcv' = toRcv
        /\ fromRcv # << >> /\ fromRcv' = Tail(fromRcv) /\ main.pc = "start"
    BY <1>1, GotoStep DEF Started, MainPcs, rcv
  <2>2. /\ receiver.state = "Ready" /\ toRcv = << >>
        /\ fromRcv = <<Msg("Ready", NoSeq)>>
    BY <2>1 DEF ReceiverInStep
  <2>3. fromRcv' = << >>
    BY <2>1, <2>2, ShortPipes
  <2> QED
    BY <2>1, <2>2, <2>3 DEF ReceiverInStep, AtRest
<1>2. CASE SendConsume
  <2>1. /\ main.pc = "loop" /\ main'.i = main.i /\ UNCHANGED <<receiver, fromRcv>>
        /\ \/ main'.pc = "stop"
           \/ /\ main'.pc = "AckConsume"
              /\ toRcv' = Append(toRcv, Msg("Consume", main.i))
    BY <1>2, GotoStep DEF SendConsume, MainPcs, rcv
  <2>2. toRcv = << >> /\ fromRcv = << >> /\ AtRest
    BY <2>1 DEF ReceiverInStep
  <2>3. main'.pc = "AckConsume" => toRcv' = <<Msg("Consume", main'.i)>>
    BY <2>1, <2>2, ShortPipes
  <2> QED
    BY <2>1, <2>2, <2>3 DEF ReceiverInStep, AtRest
<1>3. CASE GetAckConsume
  <2>1. /\ main.pc = "AckConsume" /\ main'.i = main.i /\ UNCHANGED <<receiver, toRcv>>
        /\ main'.pc \in {"AckPublish", "stop"}
        /\ fromRcv # << >> /\ fromRcv' = Tail(fromRcv)
    BY <1>3, GotoStep DEF GetAckConsume, MainPcs, rcv
  <2>2. /\ toRcv = << >>
        /\ \/ fromRcv = <<AckConsume>> /\ AtWork
           \/ (\E r \in Reports : fromRcv = <<AckConsume, r>>) /\ AtRest
    BY <2>1 DEF ReceiverInStep
  <2>3. \/ fromRcv' = << >> /\ AtWork
        \/ (\E r \in Reports : fromRcv' = <<r>>) /\ AtRest
    <3>1. CASE fromRcv = <<AckConsume>> /\ AtWork
      BY <2>1, <3>1, ShortPipes
    <3>2. ASSUME NEW r \in Reports, fromRcv = <<AckConsume, r>>
          PROVE  fromRcv' = <<r>>
      BY <2>1, <3>2, ShortPipes
    <3> QED
      BY <2>2, <3>1, <3>2
  <2> QED
    BY <2>1, <2>2, <2>3 DEF ReceiverInStep, Answering, AtRest, AtWork, Reports
<1>4. CASE GetAckPublish
  <2>1. /\ main.pc = "AckPublish" /\ main'.i = main.i /\ UNCHANGED <<receiver, fromRcv>>
        /\ \/ main'.pc = "ReceptionReport" /\ toRcv' = toRcv
           \/ main'.pc = "PurgeAck" /\ toRcv' = Append(toRcv, Msg("Purge", NoSeq))
    BY <1>4, GotoStep DEF GetAckPublish, MainPcs, rcv
  <2>2. toRcv = << >> /\ Answering
    BY <2>1 DEF ReceiverInStep
  <2>3. main'.pc = "PurgeAck" => toRcv' = <<Msg("Purge", NoSeq)>>
    BY <2>1, <2>2, ShortPipes
  <2>4. Answering'
    BY <2>1, <2>2 DEF Answering, AtRest, AtWork, Reports
  <2> QED
    BY <2>1, <2>2, <2>3, <2>4 DEF ReceiverInStep
<1>5. CASE GetReport
  <2>1. /\ main.pc = "ReceptionReport" /\ UNCHANGED <<receiver, toRcv>>
        /\ fromRcv # << >> /\ fromRcv' = Tail(fromRcv)
    BY <1>5 DEF GetReport, rcv
  <2>2. PICK r \in Reports : fromRcv = <<r>> /\ AtRest /\ toRcv = << >>
    BY <2>1 DEF ReceiverInStep, Answering
  <2>3. Head(fromRcv) = r /\ fromRcv' = << >>
    BY <2>1, <2>2, ShortPipes
  <2>4. r.type = "ReceptionReport"
    BY <2>2 DEF Reports, Msg, Error
  <2>5. r = Error("ReceptionReport") \/ r.seq = main.i
    BY <2>2 DEF Reports, Msg
  <2>6. Goto("sleep") \/ NextMessage
    BY <1>5, <2>3, <2>4, <2>5 DEF GetReport
  <2>7. main'.pc \in {"sleep", "loop"}
    BY <2>1, <2>6, GotoStep, NextStep DEF MainPcs, InTurn
  <2> QED
    BY <2>1, <2>2, <2>3, <2>7 DEF ReceiverInStep, AtRest
<1>6. CASE Sleep
  <2>1. main.pc = "sleep" /\ main'.pc = "loop" /\ UNCHANGED <<receiver, toRcv, fromRcv>>
    BY <1>6, NextStep DEF Sleep, InTurn, rcv, pipes
  <2> QED
    BY <2>1 DEF ReceiverInStep, AtRest
<1>7. CASE GetPurgeAck
  <2>1. /\ main.pc = "PurgeAck" /\ UNCHANGED <<receiver, toRcv>>
        /\ fromRcv # << >> /\ fromRcv' = Tail(fromRcv)
        /\ main'.pc = IF Head(fromRcv).type = "PurgeAck" THEN "loop" ELSE "stop"
    BY <1>7, NextStep, GotoStep DEF GetPurgeAck, rcv, InTurn, MainPcs
  <2>2. CASE Head(fromRcv).type # "PurgeAck"
    BY <2>1, <2>2 DEF ReceiverInStep
  <2>3. CASE Head(fromRcv).type = "PurgeAck"
    <3>1. ASSUME NEW r \in Reports PROVE fromRcv # <<r>>
      <4>1. r.type = "ReceptionReport"
        BY DEF Reports, Msg, Error
      <4> QED
        BY <2>3, <4>1, ShortPipes
    <3>2. /\ toRcv = << >> /\ fromRcv = <<Msg("PurgeAck", NoSeq)>>
          /\ receiver.state = "Ready"
      BY <2>1, <3>1 DEF ReceiverInStep, Answering
    <3>3. fromRcv' = << >>
      BY <2>1, <3>2, ShortPipes
    <3> QED
      BY <2>1, <2>3, <3>2, <3>3 DEF ReceiverInStep, AtRest
  <2> QED
    BY <2>2, <2>3
<1>8. CASE Stop \/ TimeOut
  <2>1. main'.pc \in {"stop", "done"}
    BY <1>8, GotoStep DEF Stop, TimeOut, MainPcs
  <2> QED
    BY <2>1 DEF ReceiverInStep
<1> QED
  BY <1>1, <1>2, <1>3, <1>4, <1>5, <1>6, <1>7, <1>8

\* A step of the receiver from its work to rest.
LEMMA Answers ==
    ASSUME LatencyInv, AtWork, NEW r \in Reports, UNCHANGED <<main, toRcv>>,
           fromRcv' = Append(fromRcv, r), AtRest'
    PROVE  ReceiverInStep'
<1>0. ReceiverInStep /\ Reports' = Reports
  BY DEF LatencyInv, Reports
<1>1. main.pc \notin {"start", "loop", "sleep"}
  BY <1>0 DEF ReceiverInStep, AtRest, AtWork
<1>2. CASE main.pc = "AckConsume"
  <2>1. toRcv = << >> /\ fromRcv = <<AckConsume>>
    BY <1>0, <1>2 DEF ReceiverInStep, AtRest, AtWork
  <2>2. fromRcv' = <<AckConsume, r>>
    BY <2>1, ShortPipes
  <2> QED
    BY <1>0, <1>2, <2>1, <2>2 DEF ReceiverInStep
<1>3. CASE main.pc \in {"AckPublish", "ReceptionReport", "PurgeAck"}
  <2>1. fromRcv = << >>
    BY <1>0, <1>3 DEF ReceiverInStep, Answering, AtRest, AtWork
  <2>2. fromRcv' = <<r>>
    BY <2>1, ShortPipes
  <2>3. Answering'
    BY <1>0, <2>2 DEF Answering
  <2>4. main.pc = "PurgeAck" => toRcv = <<Msg("Purge", NoSeq)>>
    BY <1>0 DEF ReceiverInStep, AtWork
  <2> QED
    BY <1>0, <1>3, <2>3, <2>4 DEF ReceiverInStep
<1>4. CASE main.pc \notin {"AckConsume", "AckPublish", "ReceptionReport", "PurgeAck"}
  BY <1>1, <1>4 DEF ReceiverInStep
<1> QED
  BY <1>2, <1>3, <1>4

\* A step of the receiver within its work, or within its rest.
LEMMA StaysInStep ==
    ASSUME LatencyInv, UNCHANGED <<main, toRcv, fromRcv>>,
           \/ AtWork /\ AtWork'
           \/ AtRest /\ AtRest' /\ (receiver.state = "dead" => receiver'.state = "dead")
                     /\ (main.pc = "start" => UNCHANGED receiver)
                     /\ (receiver.state = "Ready" => receiver'.state = "Ready")
    PROVE  ReceiverInStep'
BY DEF LatencyInv, ReceiverInStep, Answering, AtWork, AtRest, Reports

\* Every step keeps main and the receiver in step.
LEMMA ReceiverStep == LatencyInv /\ [Next]_vars => ReceiverInStep'
<1> SUFFICES ASSUME LatencyInv, [Next]_vars PROVE ReceiverInStep'
  OBVIOUS
<1>0. /\ ReceiverInStep /\ receiver \in ReceiverType /\ main.pc \in MainPcs
  BY DEF LatencyInv, Types, MainType
<1> USE <1>0
<1>1. CASE Main \/ TimeOut
  BY <1>1, ReceiverStepOfMain DEF Main
<1>2. CASE GreetReceiver
  <2>1. /\ receiver.state = "Booting" /\ receiver'.state = "Ready"
        /\ fromRcv' = Append(fromRcv, Msg("Ready", NoSeq)) /\ UNCHANGED <<main, toRcv>>
    BY <1>2, AtStep DEF GreetReceiver, ReceiverStates
  <2>2. main.pc \in {"start", "stop", "done"}
    BY <2>1 DEF ReceiverInStep, Answering, AtRest, AtWork, MainPcs
  <2>3. main.pc = "start" => toRcv = << >> /\ fromRcv' = <<Msg("Ready", NoSeq)>>
    BY <2>1, ShortPipes DEF ReceiverInStep
  <2> QED
    BY <2>1, <2>2, <2>3 DEF ReceiverInStep
<1>3. CASE AwaitConsume
  <2>1. /\ receiver.state = "Ready" /\ toRcv # << >> /\ toRcv' = Tail(toRcv)
        /\ UNCHANGED main
    BY <1>3 DEF AwaitConsume
  <2>2. CASE main.pc = "AckConsume"
    <3>1. toRcv = <<Msg("Consume", main.i)>> /\ fromRcv = << >>
      BY <2>1, <2>2 DEF ReceiverInStep
    <3>2. toRcv' = << >> /\ Head(toRcv) = Msg("Consume", main.i)
      BY <2>1, <3>1, ShortPipes
    <3>3. Head(toRcv).type = "Consume" /\ Head(toRcv).seq = main.i /\ main.i \in Seqs
      BY <2>2, <3>2 DEF Msg, LatencyInv, TurnOfMessage, InTurn
    <3>4. receiver'.state = "Pulling"
      BY <1>3, <3>3, ConsumingStep DEF AwaitConsume
    <3>5. fromRcv' = <<AckConsume>>
      BY <1>3, <3>1, <3>3, ShortPipes DEF AwaitConsume, AckConsume
    <3> QED
      BY <2>1, <2>2, <3>2, <3>4, <3>5 DEF ReceiverInStep, AtWork
  <2>3. CASE main.pc = "PurgeAck"
    <3>1. toRcv = <<Msg("Purge", NoSeq)>> /\ \E r \in Reports : fromRcv = <<r>>
      BY <2>1, <2>3 DEF ReceiverInStep, Answering, AtWork
    <3>2. toRcv' = << >> /\ Head(toRcv).type = "Purge"
      BY <2>1, <3>1, ShortPipes DEF Msg
    <3>3. receiver'.state = "dead" /\ fromRcv' = fromRcv
      BY <1>3, <3>2, AtStep DEF AwaitConsume, ReceiverStates
    <3>4. Reports' = Reports
      BY <2>1 DEF Reports
    <3> QED
      BY <2>1, <2>3, <3>1, <3>2, <3>3, <3>4 DEF ReceiverInStep
  <2>4. CASE main.pc \notin {"AckConsume", "PurgeAck"}
    <3>1. main.pc \in {"stop", "done"}
      BY <2>1, <2>4 DEF ReceiverInStep, MainPcs
    <3> QED
      BY <2>1, <3>1 DEF ReceiverInStep
  <2> QED
    BY <2>2, <2>3, <2>4
<1>4. CASE PullMessage
  <2>1. receiver.state = "Pulling" /\ UNCHANGED <<main, toRcv, fromRcv>>
    BY <1>4 DEF PullMessage, pipes
  <2>2. PICK seq : receiver' = [receiver EXCEPT !.state = "PullSuccess", !.got = seq]
    BY <1>4 DEF PullMessage
  <2>3. receiver'.state = "PullSuccess"
    BY <2>2 DEF ReceiverType
  <2> QED
    BY <2>1, <2>3, StaysInStep DEF AtWork
<1>5. CASE PullFails
  <2>1. /\ receiver.state = "Pulling" /\ receiver'.state = "PullError"
        /\ UNCHANGED <<main, toRcv, fromRcv>>
    BY <1>5, AtStep DEF PullFails, pipes, ReceiverStates
  <2> QED
    BY <2>1, StaysInStep DEF AtWork
<1>6. CASE PullError
  <2>1. /\ receiver.state = "PullError" /\ receiver'.state = "Purging"
        /\ ~receiver'.notify /\ UNCHANGED <<main, toRcv>>
        /\ fromRcv' = Append(fromRcv, Error("ReceptionReport"))
    BY <1>6, AtStep DEF PullError, ReceiverStates
  <2>2. Error("ReceptionReport") \in Reports
    BY DEF Reports
  <2>3. AtWork /\ AtRest'
    BY <2>1 DEF AtWork, AtRest
  <2> QED
    BY <2>1, <2>2, <2>3, Answers
<1>7. CASE PullSuccess
  <2>0. receiver.state = "PullSuccess" /\ AtWork /\ UNCHANGED main
    BY <1>7 DEF PullSuccess, AtWork
  <2>1. CASE toRcv # << >> /\ Head(toRcv).type = "Purge"
    <3>1. toRcv' = Tail(toRcv) /\ fromRcv' = fromRcv
      BY <1>7, <2>1 DEF PullSuccess
    <3>2. receiver'.state = "Purging" /\ receiver'.notify
      BY <1>7, <2>1, PurgingStep DEF PullSuccess
    <3>3. main.pc \in {"PurgeAck", "stop", "done"}
      BY <2>0, <2>1 DEF ReceiverInStep, AtWork, AtRest, MainPcs
    <3>4. main.pc = "PurgeAck" => toRcv' = << >> /\ fromRcv = << >>
      <4>1. SUFFICES ASSUME main.pc = "PurgeAck" PROVE toRcv' = << >> /\ fromRcv = << >>
        OBVIOUS
      <4>2. toRcv = <<Msg("Purge", NoSeq)>> /\ fromRcv = << >>
        BY <2>0, <4>1 DEF ReceiverInStep, Answering, AtWork, AtRest
      <4> QED
        BY <3>1, <4>2, ShortPipes
    <3> QED
      BY <2>0, <3>1, <3>2, <3>3, <3>4 DEF ReceiverInStep
  <2>2. CASE ~(toRcv # << >> /\ Head(toRcv).type = "Purge")
    <3>1. toRcv' = toRcv /\ received_seqs' = received_seqs \cup {receiver.got}
      BY <1>7, <2>2 DEF PullSuccess
    <3>2. CASE receiver.seq \in received_seqs'
      <4>1. /\ fromRcv' = Append(fromRcv, Msg("ReceptionReport", receiver.got))
            /\ receiver'.state = "Ready"
        BY <1>7, <2>2, <3>2, AtStep DEF PullSuccess, ReceiverStates
      <4>2. receiver.got = main.i
        BY <2>0, <3>1, <3>2, ReportedIsExpected
      <4>3. Msg("ReceptionReport", receiver.got) \in Reports /\ AtRest'
        BY <4>1, <4>2 DEF Reports, AtRest
      <4> QED
        BY <2>0, <3>1, <4>1, <4>3, Answers
    <3>3. CASE receiver.seq \notin received_seqs'
      <4>1. /\ fromRcv' = fromRcv
            /\ receiver' = [receiver EXCEPT !.state = "Pulling", !.got = NoSeq]
        BY <1>7, <2>2, <3>3 DEF PullSuccess
      <4>2. receiver'.state = "Pulling"
        BY <4>1 DEF ReceiverType
      <4>3. AtWork'
        BY <4>2 DEF AtWork
      <4> QED
        BY <2>0, <3>1, <4>1, <4>3, StaysInStep
    <3> QED
      BY <3>2, <3>3
  <2> QED
    BY <2>1, <2>2
<1>8. CASE Purge
  <2>1. /\ receiver.state = "Purging" /\ receiver'.state = "Ready"
        /\ UNCHANGED <<main, toRcv>>
        /\ fromRcv' = IF receiver.notify THEN Append(fromRcv, Msg("PurgeAck", NoSeq))
                                         ELSE fromRcv
    BY <1>8, AtStep DEF Purge, ReceiverStates
  <2>2. CASE ~receiver.notify
    <3>1. AtRest /\ AtRest' /\ fromRcv' = fromRcv /\ main.pc # "start"
      BY <2>1, <2>2 DEF AtRest, ReceiverInStep
    <3> QED
      BY <2>1, <3>1, StaysInStep
  <2>3. CASE receiver.notify
    <3>1. main.pc \in {"PurgeAck", "stop", "done"}
      BY <2>1, <2>3 DEF ReceiverInStep, Answering, AtWork, AtRest, MainPcs
    <3>2. main.pc = "PurgeAck" => toRcv = << >> /\ fromRcv = << >>
      BY <2>1, <2>3 DEF ReceiverInStep, Answering, AtWork, AtRest
    <3>3. main.pc = "PurgeAck" => fromRcv' = <<Msg("PurgeAck", NoSeq)>>
      BY <2>1, <2>3, <3>2, ShortPipes
    <3> QED
      BY <2>1, <3>1, <3>2, <3>3 DEF ReceiverInStep
  <2> QED
    BY <2>2, <2>3
<1>9. CASE PurgeFails
  <2>1. /\ receiver.state = "Purging" /\ receiver'.state = "dead"
        /\ UNCHANGED <<main, toRcv, fromRcv>>
    BY <1>9, AtStep DEF PurgeFails, ReceiverStates, pipes
  <2>2. CASE ~receiver.notify
    <3>1. AtRest /\ AtRest' /\ main.pc # "start"
      BY <2>1, <2>2 DEF AtRest, ReceiverInStep
    <3> QED
      BY <2>1, <3>1, StaysInStep
  <2>3. CASE receiver.notify
    <3>1. main.pc \in {"PurgeAck", "stop", "done"}
      BY <2>1, <2>3 DEF ReceiverInStep, Answering, AtWork, AtRest, MainPcs
    <3>2. main.pc = "PurgeAck" => toRcv = << >> /\ fromRcv = << >>
      BY <2>1, <2>3 DEF ReceiverInStep, Answering, AtWork, AtRest
    <3> QED
      BY <2>1, <3>1, <3>2 DEF ReceiverInStep
  <2> QED
    BY <2>2, <2>3
<1>10. CASE UNCHANGED <<main, receiver, toRcv, fromRcv>>
  BY <1>10 DEF ReceiverInStep, Answering, AtRest, AtWork, Reports
<1>11. GreetPublisher \/ Publish \/ PublishFails \/ UNCHANGED vars
         \/ (\E seq \in Seqs : OnMessageReceived(seq))
         => UNCHANGED <<main, receiver, toRcv, fromRcv>>
  BY DEF GreetPublisher, Publish, PublishFails, vars, OnMessageReceived, pipes,
     rcv
<1> QED
  BY <1>1, <1>2, <1>3, <1>4, <1>5, <1>6, <1>7, <1>8, <1>9, <1>10, <1>11
  DEF Next, Receiver

-----------------------------------------------------------------------------
(***************************************************************************)
(* Nothing of message i is seen before main asks for it, and what is       *)
(* reported is i.                                                          *)
(***************************************************************************)
\* What was not published yet is nowhere.
LEMMA SeenStep == LatencyInv /\ [Next]_vars => NotYetPublished'
<1> SUFFICES ASSUME LatencyInv, [Next]_vars PROVE NotYetPublished'
  OBVIOUS
<1> DEFINE Early == {"start", "loop", "AckConsume"}
<1>0. /\ Types /\ NotYetPublished /\ ReceiverInStep /\ PublisherInStep
      /\ main \in MainType /\ main.i \in Nat /\ Seqs \subseteq Nat
      /\ main.pc \in MainPcs /\ (main.pc \in InTurn => main.i \in Seqs)
  BY LatencyAssumption DEF LatencyInv, Types, MainType, TurnOfMessage, Seqs
<1> USE <1>0
<1>1. ASSUME Seen' \subseteq Seen, main'.i = main.i,
             main'.pc \in Early => main.pc \in Early
      PROVE  NotYetPublished'
  BY <1>1 DEF NotYetPublished
<1>2. ASSUME Seen' \subseteq Seen, main'.i = main.i + 1
      PROVE  NotYetPublished'
  <2>1. \A x \in Seen : x \in Seqs /\ x \in Nat /\ x <= main.i
    BY DEF NotYetPublished
  <2>2. \A x \in Seen' : x \in Seqs /\ x < main'.i
    BY <1>2, <2>1
  <2>3. \A x \in Seen' : x \in Seqs /\ x <= main'.i /\ x # main'.i
    BY <1>2, <2>1, <2>2
  <2> QED
    BY <2>3 DEF NotYetPublished
<1>3. ASSUME Main \/ TimeOut PROVE Seen' \subseteq Seen
  <2>1. CASE Stop
    <3>1. receiver'.state = "dead" /\ UNCHANGED <<service, buffer, received_seqs>>
      BY <2>1, AtStep DEF Stop, ReceiverStates
    <3> QED
      BY <3>1 DEF Seen, Range
  <2>2. CASE ~Stop
    <3>1. UNCHANGED <<service, buffer, received_seqs, receiver>>
      BY <1>3, <2>2 DEF Main, Started, SendConsume, GetAckConsume, GetAckPublish,
                        GetReport, Sleep, GetPurgeAck, TimeOut, rcv
    <3> QED
      BY <3>1 DEF Seen, Range
  <2> QED
    BY <2>1, <2>2
<1>4. CASE Started
  BY <1>1, <1>3, <1>4, GotoStep DEF Started, Main, MainPcs
<1>5. CASE SendConsume
  BY <1>1, <1>3, <1>5, GotoStep DEF SendConsume, Main, MainPcs
<1>6. CASE GetAckConsume
  BY <1>1, <1>3, <1>6, GotoStep DEF GetAckConsume, Main, MainPcs
<1>7. CASE GetAckPublish
  <2>1. main'.i = main.i /\ main'.pc \notin Early
    BY <1>7, GotoStep DEF GetAckPublish, MainPcs
  <2> QED
    BY <1>1, <1>3, <1>7, <2>1 DEF Main
<1>8. CASE GetReport \/ Sleep \/ GetPurgeAck
  <2>1. Goto("stop") \/ Goto("sleep") \/ NextMessage \/ UNCHANGED main
    BY <1>8 DEF GetReport, Sleep, GetPurgeAck
  <2>2. main.i \in Seqs /\ main.pc \notin Early
    BY <1>8 DEF GetReport, Sleep, GetPurgeAck, InTurn
  <2>3. main'.i = main.i + 1 \/ (main'.i = main.i /\ main'.pc \notin Early)
    <3>1. CASE Goto("stop") \/ Goto("sleep")
      BY <3>1, GotoStep DEF MainPcs
    <3>2. CASE NextMessage
      BY <2>2, <3>2, NextStep
    <3>3. CASE main' = main
      BY <2>2, <3>3
    <3> QED
      BY <2>1, <3>1, <3>2, <3>3
  <2> QED
    BY <1>1, <1>2, <1>3, <1>8, <2>3 DEF Main
<1>9. CASE Stop \/ TimeOut
  <2>1. main'.i = main.i /\ main'.pc \notin Early
    BY <1>9, GotoStep DEF Stop, TimeOut, MainPcs
  <2> QED
    BY <1>1, <1>3, <1>9, <2>1 DEF Main
<1>10. CASE GreetPublisher
  BY <1>1, <1>10 DEF GreetPublisher, Seen, Range, rcv
<1>11. CASE Publish \/ PublishFails
  <2>1. /\ toPub # << >> /\ toPub \in Seq(Messages)
        /\ UNCHANGED <<main, receiver, received_seqs, buffer>>
        /\ service' \subseteq service \cup {Head(toPub).seq}
    BY <1>11 DEF Publish, PublishFails, rcv, Types
  <2>2. Head(toPub) = Msg("Publish", main.i) /\ Head(toPub) \in Messages
    BY <2>1 DEF PublisherInStep
  <2>3. Head(toPub).seq = main.i /\ main.i \in Seqs
    <3>1. Head(toPub).type = "Publish" /\ Head(toPub).seq = main.i
      BY <2>2 DEF Msg
    <3> QED
      BY <2>2, <3>1, MessageTypes
  <2>4. Seen' \subseteq Seen \cup {main.i}
    BY <2>1, <2>3 DEF Seen, Range
  <2>5. main.pc \notin Early
    BY <2>1 DEF PublisherInStep
  <2> QED
    BY <2>1, <2>3, <2>4, <2>5 DEF NotYetPublished
<1>12. CASE GreetReceiver \/ AwaitConsume \/ PullError \/ PurgeFails \/ Purge
  <2>1. UNCHANGED <<main, buffer, received_seqs>> /\ service' \subseteq service
    BY <1>12 DEF GreetReceiver, AwaitConsume, PullError, PurgeFails, Purge
  <2>2. receiver'.state # "PullSuccess"
    <3>1. CASE AwaitConsume /\ Head(toRcv).type = "Consume"
      <4>1. Head(toRcv) \in Messages
        BY <3>1 DEF AwaitConsume, Types
      <4> QED
        BY <3>1, <4>1, ConsumingStep, MessageTypes DEF AwaitConsume
    <3>2. CASE ~(AwaitConsume /\ Head(toRcv).type = "Consume")
      BY <1>12, <3>2, AtStep DEF GreetReceiver, AwaitConsume, PullError,
         PurgeFails, Purge, ReceiverStates
    <3> QED
      BY <3>1, <3>2
  <2>3. Seen' \subseteq Seen
    BY <2>1, <2>2 DEF Seen, Range
  <2> QED
    BY <1>1, <2>1, <2>3
<1>13. CASE PullFails
  <2>1. /\ UNCHANGED <<main, buffer, received_seqs>> /\ service' \subseteq service
        /\ receiver'.state = "PullError"
    BY <1>13, AtStep DEF PullFails, ReceiverStates
  <2>2. Seen' \subseteq Seen
    BY <2>1 DEF Seen, Range
  <2> QED
    BY <1>1, <2>1, <2>2
<1>14. CASE PullMessage
  <2>1. CASE streaming
    <3>1. /\ UNCHANGED <<main, service, received_seqs>> /\ buffer # << >>
          /\ buffer' = Tail(buffer) /\ buffer \in Seq(Seqs)
          /\ receiver' = [receiver EXCEPT !.state = "PullSuccess",
                                          !.got = Head(buffer)]
      BY <1>14, <2>1 DEF PullMessage, Types
    <3>2. Head(buffer) \in Seqs /\ Range(buffer) = Range(buffer') \cup {Head(buffer)}
      BY <3>1, ReadAndWrite
    <3>3. receiver'.got = Head(buffer)
      BY <3>1, <3>2, PulledStep DEF ReceiverStates, Types
    <3>4. Range(buffer)' = Range(buffer')
      BY DEF Range
    <3>5. Seen' \subseteq Seen
      BY <3>1, <3>2, <3>3, <3>4 DEF Seen
    <3> QED
      BY <1>1, <3>1, <3>5
  <2>2. CASE ~streaming
    <3>1. PICK seq \in service :
            /\ Deliver(seq)
            /\ receiver' = [receiver EXCEPT !.state = "PullSuccess", !.got = seq]
      BY <1>14, <2>2 DEF PullMessage
    <3>2. receiver'.got = seq
      BY <3>1, PulledStep DEF ReceiverStates, Types
    <3>3. service' \subseteq service /\ UNCHANGED <<main, buffer, received_seqs>>
      BY <1>14, <2>2, <3>1 DEF PullMessage, Deliver
    <3>4. Seen' \subseteq Seen
      BY <3>1, <3>2, <3>3 DEF Seen, Range
    <3> QED
      BY <1>1, <3>3, <3>4
  <2> QED
    BY <2>1, <2>2
<1>15. CASE PullSuccess
  <2>1. /\ receiver.state = "PullSuccess" /\ UNCHANGED <<main, buffer, service>>
        /\ received_seqs' \subseteq received_seqs \cup {receiver.got}
    BY <1>15 DEF PullSuccess
  <2>2. receiver'.state # "PullSuccess"
    BY <1>15, PulledStep, PurgingStep, AtStep DEF PullSuccess, ReceiverStates,
       Types
  <2>3. Seen' \subseteq Seen
    BY <2>1, <2>2 DEF Seen, Range
  <2> QED
    BY <1>1, <2>1, <2>3
<1>16. ASSUME NEW seq \in Seqs, OnMessageReceived(seq) PROVE NotYetPublished'
  <2>1. /\ UNCHANGED <<main, received_seqs, receiver>> /\ service' \subseteq service
        /\ seq \in service /\ buffer' = Append(buffer, seq) /\ buffer \in Seq(Seqs)
    BY <1>16 DEF OnMessageReceived, Deliver, Types
  <2>2. Range(buffer') = Range(buffer) \cup {seq}
    BY <2>1, ReadAndWrite
  <2>3. Range(buffer)' = Range(buffer')
    BY DEF Range
  <2>4. Seen' \subseteq Seen
    BY <2>1, <2>2, <2>3 DEF Seen
  <2> QED
    BY <1>1, <2>1, <2>4
<1>17. CASE UNCHANGED vars
  BY <1>1, <1>17 DEF vars, Seen, Range
<1> QED
  BY <1>4, <1>5, <1>6, <1>7, <1>8, <1>9, <1>10, <1>11, <1>12, <1>13, <1>14, <1>15,
     <1>16, <1>17 DEF Next, Main, Receiver

\* Every step keeps what the receiver is expected to report.
LEMMA ExpectedStep == LatencyInv /\ [Next]_vars => Expected'
<1> SUFFICES ASSUME LatencyInv, [Next]_vars PROVE Expected'
  OBVIOUS
<1>0. /\ Expected /\ ReceiverInStep /\ ReceiverInStep' /\ NotYetPublished
      /\ main \in MainType /\ main.pc \in MainPcs /\ receiver \in ReceiverType
      /\ main.pc \in InTurn => main.i \in Seqs
      /\ toRcv \in Seq(Messages)
  BY ReceiverStep DEF LatencyInv, Types, MainType, TurnOfMessage
<1> USE <1>0
\* At the beginning of a turn there is nothing to expect.
<1>1. ASSUME main'.pc = "loop" PROVE Expected'
  BY <1>1 DEF ReceiverInStep, Expected, AtRest
<1>2. CASE Started \/ Sleep
  <2>1. main'.pc = "loop"
    BY <1>2, GotoStep, NextStep DEF Started, Sleep, MainPcs, InTurn
  <2> QED
    BY <1>1, <2>1
<1>3. CASE SendConsume
  <2>0. /\ main.pc = "loop" /\ toRcv = << >> /\ AtRest /\ main.i \notin Seen
        /\ UNCHANGED <<receiver, received_seqs>>
    BY <1>3 DEF SendConsume, ReceiverInStep, NotYetPublished, rcv
  <2>1. main'.i = main.i
    BY <1>3, GotoStep DEF SendConsume, MainPcs
  <2>2. CASE toRcv' = toRcv
    BY <2>0, <2>1, <2>2 DEF Expected, AtRest
  <2>3. CASE toRcv' = Append(toRcv, Msg("Consume", main.i))
    <3>1. toRcv' = <<Msg("Consume", main.i)>>
      BY <2>0, <2>3, ShortPipes
    <3>2. Len(toRcv') = 1 /\ Head(toRcv') = Msg("Consume", main.i)
      BY <3>1
    <3>3. Head(toRcv').seq = main.i
      BY <3>2 DEF Msg
    <3>4. receiver.state \notin {"Pulling", "PullSuccess"} /\ ~AtWork /\ ~AtWork'
      BY <2>0 DEF AtRest, AtWork
    <3>5. main.i \notin received_seqs
      BY <2>0 DEF Seen
    <3> QED
      BY <2>0, <2>1, <3>2, <3>3, <3>4, <3>5 DEF Expected
  <2> QED
    BY <1>3, <2>2, <2>3 DEF SendConsume
<1>4. CASE GetAckPublish
  <2>0. /\ main.pc = "AckPublish" /\ toRcv = << >>
        /\ UNCHANGED <<receiver, received_seqs>>
    BY <1>4 DEF GetAckPublish, ReceiverInStep, rcv
  <2>1. main'.i = main.i
    BY <1>4, GotoStep DEF GetAckPublish, MainPcs
  <2>2. toRcv' = << >> \/ toRcv' = <<Msg("Purge", NoSeq)>>
    BY <1>4, <2>0, ShortPipes DEF GetAckPublish
  <2>3. Len(toRcv') <= 1 /\ (toRcv' # << >> => Head(toRcv').type = "Purge")
    BY <2>2 DEF Msg
  <2> QED
    BY <2>0, <2>1, <2>3 DEF Expected, AtWork
<1>5. CASE GetAckConsume \/ TimeOut
  <2>1. main'.i = main.i /\ UNCHANGED <<receiver, received_seqs, toRcv>>
    BY <1>5, GotoStep DEF GetAckConsume, TimeOut, MainPcs, rcv, pipes
  <2> QED
    BY <2>1 DEF Expected, AtWork
<1>6. CASE GetReport \/ GetPurgeAck
  <2>1. /\ UNCHANGED <<receiver, received_seqs, toRcv>> /\ main.i \in Seqs
        /\ Goto("stop") \/ Goto("sleep") \/ NextMessage \/ UNCHANGED main
    BY <1>6 DEF GetReport, GetPurgeAck, rcv, InTurn
  <2>2. main'.pc = "loop" \/ main'.i = main.i
    BY <2>1, GotoStep, NextStep DEF MainPcs
  <2>3. CASE main'.i = main.i
    BY <2>1, <2>3 DEF Expected, AtWork
  <2> QED
    BY <1>1, <2>2, <2>3
<1>7. CASE Stop
  <2>1. /\ main'.i = main.i /\ UNCHANGED <<toRcv, received_seqs>>
        /\ receiver'.state = "dead"
    BY <1>7, GotoStep, AtStep DEF Stop, MainPcs, ReceiverStates, pipes
  <2> QED
    BY <2>1 DEF Expected, AtWork
<1>8. CASE GreetReceiver \/ PullError \/ Purge \/ PurgeFails
  <2>1. UNCHANGED <<main, toRcv, received_seqs>>
    BY <1>8 DEF GreetReceiver, PullError, Purge, PurgeFails, pipes
  <2>2. receiver'.state \in {"Ready", "Purging", "dead"}
    BY <1>8, AtStep DEF GreetReceiver, PullError, Purge, PurgeFails,
       ReceiverStates
  <2> QED
    BY <2>1, <2>2 DEF Expected, AtWork
<1>9. CASE AwaitConsume
  <2>1. /\ toRcv # << >> /\ toRcv' = Tail(toRcv) /\ UNCHANGED <<main, received_seqs>>
        /\ receiver.state = "Ready" /\ Head(toRcv) \in Messages
    BY <1>9 DEF AwaitConsume
  <2>2. toRcv' = << >> /\ Len(toRcv') = 0
    BY <2>1, LastRead DEF Expected
  <2>3. CASE Head(toRcv).type = "Consume"
    <3>1. Head(toRcv).seq = main.i /\ main.i \notin received_seqs
      BY <2>1, <2>3 DEF Expected
    <3>2. receiver'.seq = main.i /\ Head(toRcv).seq \in Seqs
      BY <1>9, <2>1, <2>3, <3>1, ConsumingStep, MessageTypes DEF AwaitConsume
    <3> QED
      BY <2>1, <2>2, <3>1, <3>2 DEF Expected
  <2>4. CASE Head(toRcv).type # "Consume"
    <3>1. receiver'.state = "dead"
      BY <1>9, <2>4, AtStep DEF AwaitConsume, ReceiverStates
    <3> QED
      BY <2>2, <3>1 DEF Expected
  <2> QED
    BY <2>3, <2>4
<1>10. CASE PullMessage
  <2>1. receiver.state = "Pulling" /\ UNCHANGED <<main, toRcv, received_seqs>>
    BY <1>10 DEF PullMessage, pipes
  <2>2. PICK seq : receiver' = [receiver EXCEPT !.state = "PullSuccess", !.got = seq]
    BY <1>10 DEF PullMessage
  <2>3. receiver'.state = "PullSuccess" /\ receiver'.seq = receiver.seq
    BY <2>2 DEF ReceiverType
  <2> QED
    BY <2>1, <2>3 DEF Expected, AtWork
<1>11. CASE PullFails
  <2>1. /\ receiver.state = "Pulling" /\ receiver'.state = "PullError"
        /\ UNCHANGED <<main, toRcv, received_seqs>>
    BY <1>11, AtStep DEF PullFails, pipes, ReceiverStates
  <2> QED
    BY <2>1 DEF Expected, AtWork
<1>12. CASE PullSuccess
  <2>0. receiver.state = "PullSuccess" /\ AtWork /\ UNCHANGED main
    BY <1>12 DEF PullSuccess, AtWork
  <2>1. CASE toRcv # << >> /\ Head(toRcv).type = "Purge"
    <3>1. toRcv' = Tail(toRcv)
      BY <1>12, <2>1 DEF PullSuccess
    <3>2. toRcv' = << >> /\ Len(toRcv') = 0
      BY <2>1, <3>1, LastRead DEF Expected
    <3>3. receiver'.state = "Purging"
      BY <1>12, <2>1, PurgingStep DEF PullSuccess
    <3> QED
      BY <3>2, <3>3 DEF Expected
  <2>2. CASE ~(toRcv # << >> /\ Head(toRcv).type = "Purge")
    <3>1. toRcv' = toRcv /\ ~(toRcv # << >> /\ Head(toRcv).type = "Consume")
      BY <1>12, <2>0, <2>2 DEF PullSuccess, Expected
    <3>2. CASE receiver.seq \in received_seqs'
      <4>1. receiver'.state = "Ready"
        BY <1>12, <2>2, <3>2, AtStep DEF PullSuccess, ReceiverStates
      <4> QED
        BY <3>1, <4>1 DEF Expected
    <3>3. CASE receiver.seq \notin received_seqs'
      <4>1. receiver' = [receiver EXCEPT !.state = "Pulling", !.got = NoSeq]
        BY <1>12, <2>2, <3>3 DEF PullSuccess
      <4>2. receiver'.seq = receiver.seq
        BY <4>1 DEF ReceiverType
      <4> QED
        BY <2>0, <3>1, <3>3, <4>2 DEF Expected
    <3> QED
      BY <3>2, <3>3
  <2> QED
    BY <2>1, <2>2
<1>13. CASE UNCHANGED <<main, receiver, toRcv, received_seqs>>
  BY <1>13 DEF Expected, AtWork
<1>14. GreetPublisher \/ Publish \/ PublishFails \/ UNCHANGED vars
         \/ (\E seq \in Seqs : OnMessageReceived(seq))
         => UNCHANGED <<main, receiver, toRcv, received_seqs>>
  BY DEF GreetPublisher, Publish, PublishFails, vars, OnMessageReceived, pipes,
     rcv
<1> QED
  BY <1>2, <1>3, <1>4, <1>5, <1>6, <1>7, <1>8, <1>9, <1>10, <1>11, <1>12, <1>13,
     <1>14 DEF Next, Main, Receiver

\* A report on its way is about the message main waits for.
LEMMA AnswerStep == LatencyInv /\ [Next]_vars => ReportIsAnswer'
<1> SUFFICES ASSUME LatencyInv, [Next]_vars PROVE ReportIsAnswer'
  OBVIOUS
<1>0. /\ ReportIsAnswer /\ ReceiverInStep' /\ fromRcv \in Seq(Messages)
      /\ main \in MainType /\ main.pc \in MainPcs /\ receiver \in ReceiverType
      /\ main.pc \in InTurn => main.i \in Seqs
  BY ReceiverStep DEF LatencyInv, Types, MainType, TurnOfMessage
<1> USE <1>0
<1>1. CASE main'.pc = "loop"
  <2>1. fromRcv' = << >>
    BY <1>1 DEF ReceiverInStep
  <2>2. Range(fromRcv)' = {}
    BY <2>1 DEF Range
  <2> QED
    BY <2>2 DEF ReportIsAnswer
<1>2. ASSUME main'.i = main.i,
             \/ UNCHANGED fromRcv
             \/ fromRcv # << >> /\ fromRcv' = Tail(fromRcv)
             \/ \E m \in Messages :
                  /\ fromRcv' = Append(fromRcv, m)
                  /\ m.type = "ReceptionReport" /\ m.seq # NoSeq => m.seq = main.i
      PROVE  ReportIsAnswer'
  <2>1. ASSUME NEW m \in Range(fromRcv')
        PROVE  \/ m \in Range(fromRcv)
               \/ m.type = "ReceptionReport" /\ m.seq # NoSeq => m.seq = main.i
    <3>1. CASE fromRcv' = fromRcv
      BY <2>1, <3>1
    <3>2. CASE fromRcv # << >> /\ fromRcv' = Tail(fromRcv)
      <4>1. \A x \in Messages : Range(fromRcv) = Range(Tail(fromRcv)) \cup {Head(fromRcv)}
        BY <3>2, ReadAndWrite
      <4>2. Msg("Ready", NoSeq) \in Messages
        BY MessageTypes
      <4> QED
        BY <2>1, <3>2, <4>1, <4>2
    <3>3. ASSUME NEW x \in Messages, fromRcv' = Append(fromRcv, x),
                 x.type = "ReceptionReport" /\ x.seq # NoSeq => x.seq = main.i
          PROVE  \/ m \in Range(fromRcv)
                 \/ m.type = "ReceptionReport" /\ m.seq # NoSeq => m.seq = main.i
      <4>1. Range(fromRcv') = Range(fromRcv) \cup {x}
        BY <3>3, ReadAndWrite
      <4> QED
        BY <2>1, <3>3, <4>1
    <3> QED
      BY <1>2, <3>1, <3>2, <3>3
  <2>2. Range(fromRcv)' = Range(fromRcv')
    BY DEF Range
  <2> QED
    BY <1>2, <2>1, <2>2 DEF ReportIsAnswer
<1>3. CASE Started \/ Sleep
  <2>1. main'.pc = "loop"
    BY <1>3, GotoStep, NextStep DEF Started, Sleep, MainPcs, InTurn
  <2> QED
    BY <1>1, <2>1
<1>4. CASE SendConsume \/ GetAckPublish \/ Stop \/ TimeOut
  <2>1. main'.i = main.i /\ UNCHANGED fromRcv
    BY <1>4, GotoStep DEF SendConsume, GetAckPublish, Stop, TimeOut, MainPcs,
       pipes
  <2> QED
    BY <1>2, <2>1
<1>5. CASE GetAckConsume
  <2>1. main'.i = main.i /\ fromRcv # << >> /\ fromRcv' = Tail(fromRcv)
    BY <1>5, GotoStep DEF GetAckConsume, MainPcs
  <2> QED
    BY <1>2, <2>1
<1>6. CASE GetReport \/ GetPurgeAck
  <2>1. /\ fromRcv # << >> /\ fromRcv' = Tail(fromRcv) /\ main.i \in Seqs
        /\ Goto("stop") \/ Goto("sleep") \/ NextMessage \/ UNCHANGED main
    BY <1>6 DEF GetReport, GetPurgeAck, InTurn
  <2>2. main'.pc = "loop" \/ main'.i = main.i
    BY <2>1, GotoStep, NextStep DEF MainPcs
  <2> QED
    BY <1>1, <1>2, <2>1, <2>2
<1>7. CASE GreetReceiver
  <2>1. main'.i = main.i /\ fromRcv' = Append(fromRcv, Msg("Ready", NoSeq))
    BY <1>7 DEF GreetReceiver
  <2>2. Msg("Ready", NoSeq) \in Messages /\ Msg("Ready", NoSeq).type # "ReceptionReport"
    BY MessageTypes DEF Msg
  <2> QED
    BY <1>2, <2>1, <2>2
<1>8. CASE AwaitConsume
  <2>1. /\ main'.i = main.i
        /\ UNCHANGED fromRcv \/ fromRcv' = Append(fromRcv, Msg("AckConsume", NoSeq))
    BY <1>8 DEF AwaitConsume
  <2>2. /\ Msg("AckConsume", NoSeq) \in Messages
        /\ Msg("AckConsume", NoSeq).type # "ReceptionReport"
    BY MessageTypes DEF Msg
  <2> QED
    BY <1>2, <2>1, <2>2
<1>9. CASE PullSuccess
  <2>1. /\ main'.i = main.i /\ receiver.state = "PullSuccess"
        /\ \/ UNCHANGED fromRcv
           \/ /\ fromRcv' = Append(fromRcv, Msg("ReceptionReport", receiver.got))
              /\ receiver.seq \in received_seqs \cup {receiver.got}
    BY <1>9 DEF PullSuccess
  <2>2. CASE UNCHANGED fromRcv
    BY <1>2, <2>1, <2>2
  <2>3. CASE ~UNCHANGED fromRcv
    <3>1. receiver.got = main.i
      BY <2>1, <2>3, ReportedIsExpected
    <3>2. Msg("ReceptionReport", receiver.got) \in Messages
      BY MessageTypes DEF ReceiverType
    <3>3. Msg("ReceptionReport", receiver.got).seq = main.i
      BY <3>1 DEF Msg
    <3> QED
      BY <1>2, <2>1, <2>3, <3>2, <3>3
  <2> QED
    BY <2>2, <2>3
<1>10. CASE PullError
  <2>1. main'.i = main.i /\ fromRcv' = Append(fromRcv, Error("ReceptionReport"))
    BY <1>10 DEF PullError
  <2>2. Error("ReceptionReport") \in Messages /\ Error("ReceptionReport").seq = NoSeq
    BY MessageTypes DEF Error
  <2> QED
    BY <1>2, <2>1, <2>2
<1>11. CASE Purge
  <2>1. /\ main'.i = main.i
        /\ UNCHANGED fromRcv \/ fromRcv' = Append(fromRcv, Msg("PurgeAck", NoSeq))
    BY <1>11 DEF Purge
  <2>2. /\ Msg("PurgeAck", NoSeq) \in Messages
        /\ Msg("PurgeAck", NoSeq).type # "ReceptionReport"
    BY MessageTypes DEF Msg
  <2> QED
    BY <1>2, <2>1, <2>2
<1>12. CASE UNCHANGED <<main, fromRcv>>
  BY <1>2, <1>12
<1>13. GreetPublisher \/ Publish \/ PublishFails \/ UNCHANGED vars \/ PullMessage
         \/ PullFails \/ PurgeFails \/ (\E seq \in Seqs : OnMessageReceived(seq))
         => UNCHANGED <<main, fromRcv>>
  BY DEF GreetPublisher, Publish, PublishFails, vars, PullMessage, PullFails,
     PurgeFails, OnMessageReceived, pipes
<1> QED
  BY <1>3, <1>4, <1>5, <1>6, <1>7, <1>8, <1>9, <1>10, <1>11, <1>12, <1>13
  DEF Next, Main, Receiver

-----------------------------------------------------------------------------
\* The invariant holds before the processes are started.
LEMMA LatencyInit == Init => LatencyInv
<1> SUFFICES ASSUME Init PROVE LatencyInv
  OBVIOUS
<1>1. /\ main.pc = "start" /\ main.i = 1 /\ receiver.state = "Booting"
      /\ main \in MainType /\ receiver \in ReceiverType
  BY LatencyAssumption, AtStep DEF Init, MainType, MainPcs, ReceiverStates
<1>2. faults \in FaultsType
  BY LatencyAssumption DEF Init, FaultsType
<1>3. Types
  BY <1>1, <1>2 DEF Init, Types
<1>4. TurnOfMessage
  BY <1>1 DEF TurnOfMessage, InTurn
<1>5. PublisherInStep
  BY <1>1 DEF Init, PublisherInStep
<1>6. ReceiverInStep
  BY <1>1 DEF Init, ReceiverInStep
<1>7. Seen = {}
  BY <1>1 DEF Init, Seen, Range
<1>8. NotYetPublished
  BY <1>7 DEF NotYetPublished
<1>9. Expected
  BY <1>1 DEF Init, Expected
<1>10. ReportIsAnswer
  BY DEF Init, ReportIsAnswer, Range
<1> QED
  BY <1>3, <1>4, <1>5, <1>6, <1>8, <1>9, <1>10 DEF LatencyInv

\* Every step keeps the invariant.
LEMMA LatencyInductive == LatencyInv /\ [Next]_vars => LatencyInv'
BY TypeInductive, PublisherStep, ReceiverStep, SeenStep, ExpectedStep, AnswerStep
DEF LatencyInv

\* main, both workers, the pipes and the service keep their types.
THEOREM TypeCorrect == Spec => []TypeOK
<1>1. LatencyInv => TypeOK
  BY DEF LatencyInv, Types, TypeOK, MainType, MainPcs, ReceiverType,
     ReceiverStates, FaultsType
<1> QED
  BY <1>1, LatencyInit, LatencyInductive, PTL DEF Spec

\* _wait_until_received is never answered about another message than the one
\* that was just published, however late or often messages are delivered.
THEOREM AnswersSound == Spec => []ReportIsAnswer
<1>1. LatencyInv => ReportIsAnswer
  BY DEF LatencyInv
<1> QED
  BY <1>1, LatencyInit, LatencyInductive, PTL DEF Spec

\* Every turn of _async_run_phase begins with empty pipes and a receiver that
\* waits for a command, will without a further word, or is dead.
THEOREM TurnsClean == Spec => []TurnIsClean
<1>1. LatencyInv => TurnIsClean
  BY DEF LatencyInv, PublisherInStep, ReceiverInStep, AtRest, TurnIsClean
<1> QED
  BY <1>1, LatencyInit, LatencyInductive, PTL DEF Spec

-----------------------------------------------------------------------------
(***************************************************************************)
(* The cost of an error.                                                   *)
(***************************************************************************)
\* What has gone wrong is not forgotten.
LEMMA FaultsStay ==
    ASSUME LatencyInv, [Next]_vars, Undisturbed'
    PROVE  /\ Undisturbed /\ faults.n \in Nat /\ faults'.n \in Nat
           /\ faults.n <= faults'.n
           /\ ~PublishFails /\ ~PurgeFails /\ (TimeOut => Silent)
<1>0. faults \in FaultsType /\ faults' \in FaultsType
  BY TypeInductive DEF LatencyInv, Types
<1>1. /\ faults.n \in Nat /\ faults'.n \in Nat
      /\ faults.publish \in BOOLEAN /\ faults.slow \in BOOLEAN /\ faults.crash \in BOOLEAN
  BY <1>0 DEF FaultsType
<1>2. /\ [faults EXCEPT !.slow = TRUE].slow = TRUE
      /\ [faults EXCEPT !.publish = TRUE].publish = TRUE
      /\ [faults EXCEPT !.crash = TRUE].crash = TRUE
      /\ [faults EXCEPT !.pull = TRUE].slow = faults.slow
      /\ [faults EXCEPT !.pull = TRUE].publish = faults.publish
      /\ [faults EXCEPT !.pull = TRUE].crash = faults.crash
  BY <1>0 DEF FaultsType
<1>3. ~Fault([faults EXCEPT !.slow = TRUE])
  BY <1>0, <1>2, FaultStep, FaultKinds DEF Undisturbed
<1>4. ~Fault([faults EXCEPT !.publish = TRUE])
  BY <1>0, <1>2, FaultStep, FaultKinds DEF Undisturbed
<1>5. ~Fault([faults EXCEPT !.crash = TRUE])
  BY <1>0, <1>2, FaultStep, FaultKinds DEF Undisturbed
<1>6. ~PublishFails /\ ~PurgeFails /\ (TimeOut => Silent /\ UNCHANGED faults)
  BY <1>3, <1>4, <1>5 DEF PublishFails, PurgeFails, TimeOut
<1>7. UNCHANGED faults \/ Fault(faults) \/ Fault([faults EXCEPT !.pull = TRUE])
  BY <1>6 DEF Next, Main, Started, SendConsume, GetAckConsume, GetAckPublish,
     GetReport, Sleep, GetPurgeAck, Stop, GreetPublisher, Publish, Receiver,
     GreetReceiver, AwaitConsume, PullMessage, PullSuccess, PullError, Purge,
     PullFails, OnMessageReceived, Deliver, vars
<1>8. CASE UNCHANGED faults
  BY <1>1, <1>6, <1>8 DEF Undisturbed
<1>9. CASE Fault(faults)
  <2>1. /\ faults'.n = faults.n + 1 /\ faults'.publish = faults.publish
        /\ faults'.slow = faults.slow /\ faults'.crash = faults.crash
    BY <1>0, <1>9, FaultStep
  <2> QED
    BY <1>1, <1>6, <2>1 DEF Undisturbed
<1>10. CASE Fault([faults EXCEPT !.pull = TRUE])
  <2>1. /\ faults'.n = faults.n + 1 /\ faults'.publish = faults.publish
        /\ faults'.slow = faults.slow /\ faults'.crash = faults.crash
    BY <1>0, <1>2, <1>10, FaultStep, FaultKinds
  <2> QED
    BY <1>1, <1>6, <2>1 DEF Undisturbed
<1> QED
  BY <1>7, <1>8, <1>9, <1>10

\* The lost messages can be counted.
LEMMA LostIsFinite ==
    ASSUME LatencyInv
    PROVE  IsFiniteSet(LostBefore) /\ Cardinality(LostBefore) \in Nat
<1>1. main.i \in Nat /\ main.i - 1 \in Int
  BY LatencyAssumption DEF LatencyInv, Types, MainType
<1>2. IsFiniteSet(1..(main.i - 1))
  BY <1>1, FS_Interval
<1>3. IsFiniteSet(LostBefore)
  BY <1>2, FS_Subset DEF LostBefore
<1> QED
  BY <1>3, FS_CardinalityType

\* A step after which no more is lost or being lost than before.
LEMMA NoMoreLost ==
    ASSUME LatencyInv, EachHasItsFault, faults.n \in Nat, faults'.n \in Nat,
           faults.n <= faults'.n, LostBefore' \subseteq LostBefore,
           BeingLost' => BeingLost
    PROVE  EachHasItsFault'
<1>1. /\ Cardinality(LostBefore') <= Cardinality(LostBefore)
      /\ Cardinality(LostBefore) \in Nat /\ Cardinality(LostBefore') \in Nat
  BY LostIsFinite, FS_Subset, FS_CardinalityType
<1>2. Cardinality(LostBefore)' = Cardinality(LostBefore')
  OBVIOUS
<1>3. CASE BeingLost
  BY <1>1, <1>2, <1>3 DEF EachHasItsFault
<1>4. CASE ~BeingLost
  BY <1>1, <1>2, <1>4 DEF EachHasItsFault
<1> QED
  BY <1>3, <1>4

\* Undisturbed, main never waits in vain and never stops early.
LEMMA NoDetour ==
    ASSUME LatencyInv, OnCourse, [Next]_vars, Undisturbed'
    PROVE  /\ ~TimeOut /\ ~GetPurgeAck /\ ~PublishFails /\ ~PurgeFails
           /\ GetAckConsume => Goto("AckPublish") /\ toPub' = Append(toPub, Msg("Publish", main.i))
           /\ GetAckPublish => /\ Goto("ReceptionReport") /\ UNCHANGED toRcv
                               /\ published' = published \cup {main.i}
           /\ GetReport => \/ /\ Goto("sleep") /\ UNCHANGED received
                              /\ Error("ReceptionReport") \in Range(fromRcv)
                           \/ NextMessage /\ received' = received \cup {main.i}
           /\ AwaitConsume => main.pc = "AckConsume" /\ Head(toRcv).type = "Consume"
<1>0. /\ ReceiverInStep /\ PublisherInStep /\ main.pc \in MainPcs
      /\ fromPub \in Seq(Messages)
  BY DEF LatencyInv, Types, MainType
<1> USE <1>0
<1>1. ~Silent
  BY DEF Silent, OnCourse, PublisherInStep
<1>2. ~GetPurgeAck
  BY DEF GetPurgeAck, OnCourse
<1>3. ASSUME GetAckConsume
      PROVE  Goto("AckPublish") /\ toPub' = Append(toPub, Msg("Publish", main.i))
  <2>1. main.pc = "AckConsume" /\ fromRcv # << >>
    BY <1>3 DEF GetAckConsume
  <2>2. fromRcv = <<AckConsume>> \/ \E r \in Reports : fromRcv = <<AckConsume, r>>
    BY <2>1 DEF ReceiverInStep
  <2>3. Head(fromRcv) = AckConsume
    BY <2>2, ShortPipes
  <2>4. Head(fromRcv).type = "AckConsume"
    BY <2>3 DEF AckConsume, Msg
  <2> QED
    BY <1>3, <2>4 DEF GetAckConsume
<1>4. ASSUME GetAckPublish
      PROVE  /\ Goto("ReceptionReport") /\ UNCHANGED toRcv
             /\ published' = published \cup {main.i}
  <2>1. main.pc = "AckPublish" /\ fromPub # << >>
    BY <1>4 DEF GetAckPublish
  <2>2. Head(fromPub) # Error("AckPublish")
    <3>1. Msg("Ready", NoSeq) \in Messages
      BY MessageTypes
    <3>2. Head(fromPub) \in Range(fromPub)
      BY <2>1, <3>1, ReadAndWrite
    <3> QED
      BY <3>2 DEF OnCourse
  <2>3. Head(fromPub) = Msg("AckPublish", main.i)
    BY <2>1, <2>2, ShortPipes DEF PublisherInStep
  <2>4. Head(fromPub).seq = main.i
    BY <2>3 DEF Msg
  <2> QED
    BY <1>4, <2>2, <2>4 DEF GetAckPublish
<1>5. ASSUME GetReport
      PROVE  \/ /\ Goto("sleep") /\ UNCHANGED received
                /\ Error("ReceptionReport") \in Range(fromRcv)
             \/ NextMessage /\ received' = received \cup {main.i}
  <2>1. main.pc = "ReceptionReport" /\ fromRcv # << >>
    BY <1>5 DEF GetReport
  <2>2. PICK r \in Reports : fromRcv = <<r>>
    BY <2>1 DEF ReceiverInStep, Answering
  <2>3. Head(fromRcv) = r /\ r \in Range(fromRcv)
    BY <2>2, ShortPipes DEF Range
  <2>4. r.type = "ReceptionReport"
    BY DEF Reports, Msg, Error
  <2>5. r = Error("ReceptionReport") \/ r.seq = main.i
    BY DEF Reports, Msg
  <2>6. CASE r = Error("ReceptionReport")
    BY <1>5, <2>3, <2>4, <2>6 DEF GetReport
  <2>7. CASE r # Error("ReceptionReport")
    BY <1>5, <2>3, <2>4, <2>5, <2>7 DEF GetReport
  <2> QED
    BY <2>6, <2>7
<1>6. ASSUME AwaitConsume PROVE main.pc = "AckConsume" /\ Head(toRcv).type = "Consume"
  <2>1. receiver.state = "Ready" /\ toRcv # << >>
    BY <1>6 DEF AwaitConsume
  <2>2. main.pc = "AckConsume"
    BY <2>1 DEF ReceiverInStep, OnCourse, MainPcs
  <2>3. toRcv = <<Msg("Consume", main.i)>>
    BY <2>1, <2>2 DEF ReceiverInStep
  <2>4. Head(toRcv) = Msg("Consume", main.i)
    BY <2>3, ShortPipes
  <2> QED
    BY <2>2, <2>4 DEF Msg
<1> QED
  BY <1>1, <1>2, <1>3, <1>4, <1>5, <1>6, FaultsStay

\* As long as main is not disturbed, every step keeps it on course.
LEMMA CourseStep ==
    ASSUME LatencyInv, OnCourse, [Next]_vars, Undisturbed'
    PROVE  OnCourse'
<1>0. /\ ReceiverInStep /\ PublisherInStep /\ main \in MainType /\ main.pc \in MainPcs
      /\ ReceiverInStep' /\ PublisherInStep' /\ main' \in MainType /\ main'.pc \in MainPcs
      /\ fromPub \in Seq(Messages) /\ receiver \in ReceiverType
      /\ (main.pc \in InTurn => main.i \in Seqs) /\ OnCourse
  BY LatencyInductive DEF LatencyInv, Types, MainType, TurnOfMessage
<1> USE <1>0
<1>1. CASE Started
  <2>1. main'.pc = "loop" /\ main.pc = "start" /\ UNCHANGED receiver
    BY <1>1, GotoStep DEF Started, MainPcs, rcv
  <2>2. fromPub' = << >> /\ receiver.state # "dead"
    BY <2>1 DEF PublisherInStep, OnCourse
  <2>3. Range(fromPub)' = {}
    BY <2>2 DEF Range
  <2> QED
    BY <2>1, <2>2, <2>3 DEF OnCourse, Published
<1>2. CASE SendConsume
  <2>1. /\ main.pc = "loop" /\ main'.i = main.i
        /\ UNCHANGED <<receiver, fromPub, fromRcv>>
        /\ \/ main'.pc = "AckConsume"
           \/ main'.pc = "stop" /\ main.i \notin Seqs /\ UNCHANGED toRcv
    BY <1>2, GotoStep DEF SendConsume, MainPcs, rcv
  <2>2. toRcv = << >> /\ fromRcv = << >> /\ AtRest
    BY <2>1 DEF ReceiverInStep
  <2> QED
    BY <2>1, <2>2 DEF OnCourse, Published, AtRest, Range
<1>3. CASE GetAckConsume
  <2>1. /\ main.pc = "AckConsume" /\ main'.pc = "AckPublish"
        /\ UNCHANGED <<receiver, fromPub>>
        /\ toPub' = Append(toPub, Msg("Publish", main.i))
    BY <1>3, NoDetour, GotoStep DEF GetAckConsume, MainPcs, rcv
  <2>2. toPub' # << >>
    BY <2>1, ShortPipes DEF PublisherInStep
  <2> QED
    BY <2>1, <2>2 DEF OnCourse, Published, Range
<1>4. CASE GetAckPublish
  <2>1. /\ main.pc = "AckPublish" /\ main'.pc = "ReceptionReport" /\ main'.i = main.i
        /\ UNCHANGED <<receiver, received_seqs, buffer, service>>
        /\ published' = published \cup {main.i} /\ fromPub # << >>
    BY <1>4, NoDetour, GotoStep DEF GetAckPublish, MainPcs, rcv
  <2>2. toPub = << >> /\ fromPub' = << >>
    BY <2>1 DEF PublisherInStep
  <2>3. Range(fromPub)' = {} /\ Seen' = Seen
    BY <2>1, <2>2 DEF Range, Seen
  <2> QED
    BY <2>1, <2>2, <2>3 DEF OnCourse, Published
<1>5. CASE GetReport \/ Sleep
  <2>1. /\ UNCHANGED <<receiver, fromPub>> /\ main.pc \in {"ReceptionReport", "sleep"}
        /\ main'.pc \in {"sleep", "loop"}
    BY <1>5, NoDetour, GotoStep, NextStep DEF GetReport, Sleep, MainPcs, InTurn,
       rcv, pipes
  <2> QED
    BY <2>1 DEF OnCourse, Published, Range
<1>6. CASE Stop
  <2>1. /\ main.pc = "stop" /\ main'.pc = "done" /\ main'.i = main.i
        /\ UNCHANGED <<toRcv, fromRcv, fromPub>> /\ receiver'.state = "dead"
    BY <1>6, GotoStep, AtStep DEF Stop, MainPcs, ReceiverStates, pipes
  <2> QED
    BY <2>1 DEF OnCourse, Published, AtRest, Range
<1>7. CASE GreetPublisher
  <2>1. UNCHANGED <<main, published, receiver, received_seqs, buffer, service, toPub,
                    toRcv, fromRcv>>
    BY <1>7 DEF GreetPublisher, rcv, stamps
  <2>2. fromPub' = Append(fromPub, Msg("Ready", NoSeq))
    BY <1>7 DEF GreetPublisher
  <2>3. /\ Msg("Ready", NoSeq) \in Messages
        /\ Msg("Ready", NoSeq) # Error("AckPublish")
    BY MessageTypes DEF Msg, Error
  <2>4. Range(fromPub') = Range(fromPub) \cup {Msg("Ready", NoSeq)}
    BY <2>2, <2>3, ReadAndWrite
  <2>5. Error("AckPublish") \notin Range(fromPub)'
    BY <2>3, <2>4 DEF OnCourse, Range
  <2> QED
    BY <2>1, <2>5 DEF OnCourse, Published, AtRest, Seen, Range
<1>8. CASE Publish
  <2>0. /\ toPub # << >> /\ toPub' = Tail(toPub) /\ toPub \in Seq(Messages)
        /\ UNCHANGED <<main, published, receiver, received_seqs, buffer, toRcv, fromRcv>>
        /\ service' = service \cup {Head(toPub).seq}
        /\ fromPub' = Append(fromPub, Msg("AckPublish", Head(toPub).seq))
    BY <1>8 DEF Publish, rcv, stamps, LatencyInv, Types
  <2>1. Head(toPub) = Msg("Publish", main.i) /\ Head(toPub) \in Messages
    BY <2>0 DEF PublisherInStep
  <2>2. Head(toPub).seq = main.i /\ main.i \in Seqs
    <3>1. Head(toPub).type = "Publish" /\ Head(toPub).seq = main.i
      BY <2>1 DEF Msg
    <3> QED
      BY <2>1, <3>1, MessageTypes
  <2>3. /\ Msg("AckPublish", main.i) \in Messages
        /\ Msg("AckPublish", main.i) # Error("AckPublish")
    BY <2>2, MessageTypes, LatencyAssumption DEF Msg, Error, Seqs, NoSeq
  <2>4. Range(fromPub') = Range(fromPub) \cup {Msg("AckPublish", main.i)}
    BY <2>0, <2>2, <2>3, ReadAndWrite
  <2>5. Error("AckPublish") \notin Range(fromPub)'
    BY <2>3, <2>4 DEF OnCourse, Range
  <2>6. main'.i \in Seen'
    BY <2>0, <2>2 DEF Seen
  <2> QED
    BY <2>0, <2>5, <2>6 DEF OnCourse, AtRest
<1>9. CASE AwaitConsume
  <2>0. /\ UNCHANGED <<main, published, fromPub>> /\ main.pc = "AckConsume"
        /\ Head(toRcv).type = "Consume" /\ Head(toRcv) \in Messages
    BY <1>9, NoDetour DEF AwaitConsume, stamps, LatencyInv, Types
  <2>1. receiver'.state = "Pulling"
    BY <1>9, <2>0, ConsumingStep, MessageTypes DEF AwaitConsume
  <2> QED
    BY <2>0, <2>1 DEF OnCourse, Published, Range
<1>10. CASE GreetReceiver \/ PullError \/ Purge \/ PullFails
  <2>1. UNCHANGED <<main, published, fromPub, toRcv>>
    BY <1>10 DEF GreetReceiver, PullError, Purge, PullFails, stamps, pipes
  <2>2. receiver'.state \in {"Ready", "Purging", "PullError"}
    BY <1>10, AtStep DEF GreetReceiver, PullError, Purge, PullFails,
       ReceiverStates
  <2>3. ASSUME main.pc \in {"stop", "done"} PROVE fromRcv' = << >> /\ AtRest'
    <3>1. AtRest /\ fromRcv = << >>
      BY <2>3 DEF OnCourse
    <3>2. Purge /\ ~receiver.notify
      BY <1>10, <3>1 DEF AtRest, GreetReceiver, PullError, Purge, PullFails
    <3>3. fromRcv' = fromRcv /\ receiver'.state = "Ready"
      BY <3>2, AtStep DEF Purge, ReceiverStates
    <3> QED
      BY <3>1, <3>3 DEF AtRest
  <2> QED
    BY <2>1, <2>2, <2>3 DEF OnCourse, Range
<1>11. CASE PullMessage
  <2>1. receiver.state = "Pulling" /\ UNCHANGED <<main, published, toPub, toRcv, fromRcv,
                                                  fromPub, received_seqs>>
    BY <1>11 DEF PullMessage, pipes, stamps
  <2>2. receiver'.state = "PullSuccess" /\ Seen \subseteq Seen'
    <3>1. CASE streaming
      <4>1. /\ UNCHANGED service /\ buffer # << >>
            /\ buffer' = Tail(buffer) /\ buffer \in Seq(Seqs)
            /\ receiver' = [receiver EXCEPT !.state = "PullSuccess",
                                            !.got = Head(buffer)]
        BY <1>11, <3>1 DEF PullMessage, LatencyInv, Types
      <4>2. Head(buffer) \in Seqs /\ Range(buffer) = Range(buffer') \cup {Head(buffer)}
        BY <4>1, ReadAndWrite
      <4>3. receiver'.got = Head(buffer) /\ receiver'.state = "PullSuccess"
        BY <4>1, <4>2, PulledStep DEF ReceiverStates
      <4>4. Range(buffer)' = Range(buffer')
        BY DEF Range
      <4> QED
        BY <2>1, <4>1, <4>2, <4>3, <4>4 DEF Seen
    <3>2. CASE ~streaming
      <4>1. PICK seq \in service :
              /\ Deliver(seq)
              /\ receiver' = [receiver EXCEPT !.state = "PullSuccess", !.got = seq]
        BY <1>11, <3>2 DEF PullMessage
      <4>2. receiver'.got = seq /\ receiver'.state = "PullSuccess"
        BY <4>1, PulledStep DEF ReceiverStates, LatencyInv, Types
      <4>3. service \subseteq service' \cup {seq} /\ UNCHANGED buffer
        BY <1>11, <3>2, <4>1 DEF PullMessage, Deliver
      <4> QED
        BY <2>1, <4>2, <4>3 DEF Seen, Range
    <3> QED
      BY <3>1, <3>2
  <2>3. main.pc \notin {"stop", "done"}
    BY <2>1 DEF OnCourse, AtRest
  <2> QED
    BY <2>1, <2>2, <2>3 DEF OnCourse, Published, Range
<1>12. CASE PullSuccess
  <2>1. /\ receiver.state = "PullSuccess"
        /\ UNCHANGED <<main, published, toPub, fromPub, buffer, service>>
    BY <1>12 DEF PullSuccess, stamps
  <2>2. main.pc \notin {"stop", "done"}
    BY <2>1 DEF OnCourse, AtRest
  <2>3. CASE receiver'.state = "Pulling"
    <3>1. received_seqs' = received_seqs \cup {receiver.got}
      BY <1>12, <2>3, PurgingStep DEF PullSuccess
    <3>2. Seen \subseteq Seen'
      BY <2>1, <3>1 DEF Seen, Range
    <3> QED
      BY <2>1, <2>2, <2>3, <3>2 DEF OnCourse, Published, Range
  <2>4. CASE receiver'.state # "Pulling"
    <3>1. receiver'.state \in {"Ready", "Purging", "Pulling"}
      BY <1>12, PulledStep, PurgingStep, AtStep DEF PullSuccess, ReceiverStates
    <3> QED
      BY <2>1, <2>2, <2>4, <3>1 DEF OnCourse, Range
  <2> QED
    BY <2>3, <2>4
<1>13. ASSUME NEW seq \in Seqs, OnMessageReceived(seq) PROVE OnCourse'
  <2>1. /\ UNCHANGED <<main, published, received_seqs, receiver, toPub, toRcv, fromPub,
                       fromRcv>>
        /\ service \subseteq service' \cup {seq}
        /\ buffer' = Append(buffer, seq) /\ buffer \in Seq(Seqs)
    BY <1>13 DEF OnMessageReceived, Deliver, LatencyInv, Types, pipes, stamps
  <2>2. Range(buffer') = Range(buffer) \cup {seq}
    BY <2>1, ReadAndWrite
  <2>3. Range(buffer)' = Range(buffer')
    BY DEF Range
  <2>4. Seen \subseteq Seen'
    BY <2>1, <2>2, <2>3 DEF Seen
  <2> QED
    BY <2>1, <2>4 DEF OnCourse, Published, AtRest, Range
<1>14. CASE UNCHANGED vars
  BY <1>14 DEF vars, OnCourse, Published, AtRest, Seen, Range
<1> QED
  BY <1>1, <1>2, <1>3, <1>4, <1>5, <1>6, <1>7, <1>8, <1>9, <1>10, <1>11, <1>12,
     <1>13, <1>14, NoDetour DEF Next, Main, Receiver

\* Every message lost has a fault of its own.
LEMMA CostStep ==
    ASSUME LatencyInv, OnCourse, EachHasItsFault, [Next]_vars, Undisturbed'
    PROVE  EachHasItsFault'
<1> DEFINE Err == Error("ReceptionReport")
<1>0. /\ LatencyInv' /\ ReceiverInStep /\ ReceiverInStep' /\ OnCourse
      /\ main \in MainType /\ main.pc \in MainPcs /\ main.i \in Nat \ {0}
      /\ fromRcv \in Seq(Messages) /\ receiver \in ReceiverType
      /\ main.pc \in InTurn => main.i \in Seqs
      /\ faults \in FaultsType
  BY LatencyInductive, LatencyAssumption
  DEF LatencyInv, Types, MainType, TurnOfMessage
<1>a. /\ faults.n \in Nat /\ faults'.n \in Nat /\ faults.n <= faults'.n
      /\ ~TimeOut /\ ~GetPurgeAck /\ ~PublishFails /\ ~PurgeFails
  BY FaultsStay, NoDetour
<1>b. ASSUME UNCHANGED fromRcv PROVE Range(fromRcv)' = Range(fromRcv)
  BY <1>b DEF Range
<1>c. ASSUME fromRcv # << >>, fromRcv' = Tail(fromRcv)
      PROVE  Range(fromRcv)' \subseteq Range(fromRcv)
  <2>1. Msg("Ready", NoSeq) \in Messages
    BY MessageTypes
  <2>2. Range(fromRcv) = Range(fromRcv') \cup {Head(fromRcv)}
    BY <1>0, <1>c, <2>1, ReadAndWrite
  <2> QED
    BY <2>2 DEF Range
<1>d. ASSUME NEW m \in Messages, fromRcv' = Append(fromRcv, m)
      PROVE  Range(fromRcv)' = Range(fromRcv) \cup {m}
  <2>1. Range(fromRcv') = Range(fromRcv) \cup {m}
    BY <1>0, <1>d, ReadAndWrite
  <2> QED
    BY <2>1 DEF Range
\* The beginning of a turn.
<1>e. ASSUME main'.pc = "loop" PROVE ~BeingLost'
  <2>1. fromRcv' = << >> /\ AtRest'
    BY <1>0, <1>e DEF ReceiverInStep
  <2>2. Range(fromRcv)' = {}
    BY <2>1 DEF Range
  <2> QED
    BY <1>e, <2>1, <2>2 DEF BeingLost, AtRest
<1>f. ASSUME main'.i = main.i, published \subseteq published', received \subseteq received'
      PROVE  LostBefore' \subseteq LostBefore
  BY <1>f DEF LostBefore
<1> USE <1>0, <1>a
<1>1. CASE Started
  <2>1. main'.pc = "loop" /\ main'.i = main.i /\ UNCHANGED <<published, received>>
    BY <1>1, GotoStep DEF Started, MainPcs, stamps
  <2> QED
    BY <1>e, <1>f, <2>1, NoMoreLost
<1>2. CASE SendConsume
  <2>1. /\ main'.i = main.i /\ UNCHANGED <<published, received, receiver, fromRcv>>
        /\ main'.pc # "sleep"
    BY <1>2, GotoStep DEF SendConsume, MainPcs, stamps, rcv
  <2>2. BeingLost' => BeingLost
    BY <1>b, <2>1 DEF BeingLost
  <2> QED
    BY <1>f, <2>1, <2>2, NoMoreLost
<1>3. CASE GetAckConsume
  <2>1. /\ main'.i = main.i /\ UNCHANGED <<published, received, receiver>>
        /\ main'.pc # "sleep" /\ fromRcv # << >> /\ fromRcv' = Tail(fromRcv)
    BY <1>3, GotoStep DEF GetAckConsume, MainPcs, stamps, rcv
  <2>2. BeingLost' => BeingLost
    BY <1>c, <2>1 DEF BeingLost
  <2> QED
    BY <1>f, <2>1, <2>2, NoMoreLost
<1>4. CASE GetAckPublish
  <2>1. /\ main'.i = main.i /\ UNCHANGED <<received, receiver, fromRcv>>
        /\ main'.pc # "sleep" /\ published' = published \cup {main.i}
    BY <1>4, NoDetour, GotoStep DEF GetAckPublish, MainPcs, rcv
  <2>2. BeingLost' => BeingLost
    BY <1>b, <2>1 DEF BeingLost
  <2> QED
    BY <1>f, <2>1, <2>2, NoMoreLost
<1>5. CASE GetReport
  <2>0. main.pc = "ReceptionReport" /\ UNCHANGED published /\ main.i \in Seqs
    BY <1>5 DEF GetReport, InTurn
  <2>1. CASE Goto("sleep") /\ UNCHANGED received /\ Err \in Range(fromRcv)
    <3>1. main'.i = main.i /\ BeingLost
      BY <2>1, GotoStep DEF MainPcs, BeingLost
    <3> QED
      BY <1>f, <2>0, <2>1, <3>1, NoMoreLost
  <2>2. CASE NextMessage /\ received' = received \cup {main.i}
    <3>1. main'.i = main.i + 1 /\ main'.pc = "loop"
      BY <2>0, <2>2, NextStep
    <3>2. main.i \in published
      BY <2>0 DEF OnCourse
    <3>3. \A x \in 1..(main'.i - 1) : x \in 1..(main.i - 1) \/ x = main.i
      BY <3>1
    <3>4. LostBefore' \subseteq LostBefore
      BY <2>0, <2>2, <3>2, <3>3 DEF LostBefore
    <3> QED
      BY <1>e, <3>1, <3>4, NoMoreLost
  <2> QED
    BY <1>5, <2>1, <2>2, NoDetour
<1>6. CASE Sleep
  <2>1. /\ main.pc = "sleep" /\ main'.pc = "loop" /\ main'.i = main.i + 1
        /\ UNCHANGED <<published, received, faults>>
    BY <1>6, NextStep DEF Sleep, stamps, InTurn
  <2>2. BeingLost /\ ~BeingLost'
    BY <1>e, <2>1 DEF BeingLost
  <2>3. \A x \in 1..(main'.i - 1) : x \in 1..(main.i - 1) \/ x = main.i
    BY <2>1
  <2>4. LostBefore' \subseteq LostBefore \cup {main.i}
    BY <2>1, <2>3 DEF LostBefore
  <2>5. /\ Cardinality(LostBefore') <= Cardinality(LostBefore \cup {main.i})
        /\ Cardinality(LostBefore \cup {main.i}) \in Nat
        /\ Cardinality(LostBefore') \in Nat
    <3>1. IsFiniteSet(LostBefore \cup {main.i})
      BY LostIsFinite, FS_AddElement
    <3>2. IsFiniteSet(LostBefore')
      BY <2>4, <3>1, FS_Subset
    <3> QED
      BY <2>4, <3>1, <3>2, FS_Subset, FS_CardinalityType
  <2>6. /\ Cardinality(LostBefore \cup {main.i}) <= Cardinality(LostBefore) + 1
        /\ Cardinality(LostBefore) \in Nat
    <3>1. IsFiniteSet(LostBefore) /\ Cardinality(LostBefore) \in Nat
      BY LostIsFinite
    <3>2. Cardinality(LostBefore \cup {main.i}) =
            IF main.i \in LostBefore THEN Cardinality(LostBefore)
                                     ELSE Cardinality(LostBefore) + 1
      BY <3>1, FS_AddElement
    <3> QED
      BY <3>1, <3>2
  <2>7. Cardinality(LostBefore) + 1 <= faults.n
    BY <2>2 DEF EachHasItsFault
  <2>8. Cardinality(LostBefore') <= faults.n
    BY <2>5, <2>6, <2>7
  <2> QED
    BY <2>1, <2>2, <2>5, <2>8 DEF EachHasItsFault
<1>7. CASE Stop
  <2>1. /\ main'.i = main.i /\ main'.pc = "done" /\ receiver'.state = "dead"
        /\ UNCHANGED <<published, received, fromRcv>>
    BY <1>7, GotoStep, AtStep DEF Stop, MainPcs, ReceiverStates, stamps, pipes
  <2>2. BeingLost' => BeingLost
    BY <1>b, <2>1 DEF BeingLost
  <2> QED
    BY <1>f, <2>1, <2>2, NoMoreLost
<1>8. CASE UNCHANGED <<main, published, received, receiver, fromRcv>>
  <2>1. BeingLost' => BeingLost
    BY <1>b, <1>8 DEF BeingLost
  <2> QED
    BY <1>f, <1>8, <2>1, NoMoreLost
<1>9. ASSUME UNCHANGED <<main, published, received>>, receiver'.state # "PullError",
             \/ UNCHANGED fromRcv
             \/ \E m \in Messages : fromRcv' = Append(fromRcv, m) /\ m # Err
      PROVE  EachHasItsFault'
  <2>1. BeingLost' => BeingLost
    BY <1>b, <1>d, <1>9 DEF BeingLost
  <2> QED
    BY <1>f, <1>9, <2>1, NoMoreLost
<1>10. CASE GreetReceiver
  <2>1. Msg("Ready", NoSeq) \in Messages /\ Msg("Ready", NoSeq) # Err
    BY MessageTypes DEF Msg, Error
  <2>2. /\ UNCHANGED <<main, published, received>> /\ receiver'.state = "Ready"
        /\ fromRcv' = Append(fromRcv, Msg("Ready", NoSeq))
    BY <1>10, AtStep DEF GreetReceiver, ReceiverStates, stamps
  <2> QED
    BY <1>9, <2>1, <2>2
<1>11. CASE AwaitConsume
  <2>1. Msg("AckConsume", NoSeq) \in Messages /\ Msg("AckConsume", NoSeq) # Err
    BY MessageTypes DEF Msg, Error
  <2>2. Head(toRcv).type = "Consume" /\ Head(toRcv) \in Messages
    BY <1>11, NoDetour DEF AwaitConsume, LatencyInv, Types
  <2>3. /\ UNCHANGED <<main, published, received>> /\ receiver'.state = "Pulling"
        /\ fromRcv' = Append(fromRcv, Msg("AckConsume", NoSeq))
    BY <1>11, <2>2, ConsumingStep, MessageTypes DEF AwaitConsume, stamps
  <2> QED
    BY <1>9, <2>1, <2>3
<1>12. CASE PullMessage
  <2>1. PICK seq : receiver' = [receiver EXCEPT !.state = "PullSuccess", !.got = seq]
    BY <1>12 DEF PullMessage
  <2>2. receiver'.state = "PullSuccess"
    BY <2>1 DEF ReceiverType
  <2>3. UNCHANGED <<main, published, received, fromRcv>>
    BY <1>12 DEF PullMessage, stamps, pipes
  <2> QED
    BY <1>9, <2>2, <2>3
<1>13. CASE PullFails
  <2>0. /\ receiver.state = "Pulling"
        /\ UNCHANGED <<main, published, received, fromRcv>>
    BY <1>13 DEF PullFails, stamps, pipes
  <2>1. main.pc \in {"AckConsume", "AckPublish", "ReceptionReport"}
    BY <2>0 DEF ReceiverInStep, OnCourse, AtRest, MainPcs
  <2>2. ~Quiet
    <3>1. SUFFICES ASSUME main.pc = "ReceptionReport" PROVE service # {} \/ buffer # << >>
      BY <2>1 DEF Quiet
    <3>2. main.i \in Seen /\ main.i \notin received_seqs
      BY <2>0, <3>1 DEF OnCourse, Published, LatencyInv, Expected
    <3> QED
      BY <2>0, <3>2 DEF Seen, Range
  <2>3. Fault([faults EXCEPT !.pull = TRUE])
    BY <1>13, <2>2 DEF PullFails
  <2>4. faults'.n = faults.n + 1
    BY <2>3, FaultStep, FaultKinds
  <2>5. ~BeingLost
    <3>1. fromRcv = << >> \/ fromRcv = <<AckConsume>>
      BY <2>0, <2>1 DEF ReceiverInStep, Answering, AtRest
    <3>2. AckConsume # Err
      BY DEF AckConsume, Msg, Error
    <3>3. Err \notin Range(fromRcv)
      BY <3>1, <3>2 DEF Range
    <3> QED
      BY <2>0, <2>1, <3>3 DEF BeingLost
  <2>6. LostBefore' = LostBefore
    BY <2>0 DEF LostBefore
  <2>7. Cardinality(LostBefore) \in Nat /\ Cardinality(LostBefore) <= faults.n
    BY <2>5, LostIsFinite DEF EachHasItsFault
  <2> QED
    BY <2>4, <2>6, <2>7 DEF EachHasItsFault
<1>14. CASE PullError
  <2>1. receiver.state = "PullError" /\ UNCHANGED <<main, published, received>>
    BY <1>14 DEF PullError, stamps
  <2>2. BeingLost
    BY <2>1 DEF BeingLost
  <2> QED
    BY <1>f, <2>1, <2>2, NoMoreLost
<1>15. CASE PullSuccess
  <2>1. /\ UNCHANGED <<main, published, received>>
        /\ receiver.state = "PullSuccess"
        /\ \/ UNCHANGED fromRcv
           \/ fromRcv' = Append(fromRcv, Msg("ReceptionReport", receiver.got))
    BY <1>15 DEF PullSuccess, stamps
  <2>2. receiver'.state \in {"Ready", "Purging", "Pulling"}
    BY <1>15, PulledStep, PurgingStep, AtStep DEF PullSuccess, ReceiverStates
  <2>3. receiver.got \in Seqs
    BY <2>1 DEF LatencyInv, NotYetPublished, Seen
  <2>4. /\ Msg("ReceptionReport", receiver.got) \in Messages
        /\ Msg("ReceptionReport", receiver.got) # Err
    BY <2>3, MessageTypes, LatencyAssumption DEF Msg, Error, Seqs, NoSeq
  <2> QED
    BY <1>9, <2>1, <2>2, <2>4
<1>16. CASE Purge
  <2>1. Msg("PurgeAck", NoSeq) \in Messages /\ Msg("PurgeAck", NoSeq) # Err
    BY MessageTypes DEF Msg, Error
  <2>2. /\ UNCHANGED <<main, published, received>> /\ receiver'.state = "Ready"
        /\ UNCHANGED fromRcv \/ fromRcv' = Append(fromRcv, Msg("PurgeAck", NoSeq))
    BY <1>16, AtStep DEF Purge, ReceiverStates, stamps
  <2> QED
    BY <1>9, <2>1, <2>2
<1>17. GreetPublisher \/ Publish \/ UNCHANGED vars
         \/ (\E seq \in Seqs : OnMessageReceived(seq))
         => UNCHANGED <<main, published, received, receiver, fromRcv>>
  BY DEF GreetPublisher, Publish, vars, OnMessageReceived, pipes, rcv, stamps
<1> QED
  BY <1>1, <1>2, <1>3, <1>4, <1>5, <1>6, <1>7, <1>8, <1>10, <1>11, <1>12, <1>13,
     <1>14, <1>15, <1>16, <1>17 DEF Next, Main, Receiver

\* Nothing is lost at the beginning.
LEMMA CostInit == Init => OnCourse /\ EachHasItsFault
<1> SUFFICES ASSUME Init PROVE OnCourse /\ EachHasItsFault
  OBVIOUS
<1>1. main.pc = "start" /\ main.i = 1 /\ receiver.state = "Booting"
  BY AtStep DEF Init, ReceiverStates
<1>2. Range(fromPub) = {} /\ Range(fromRcv) = {}
  BY DEF Init, Range
<1>3. OnCourse
  BY <1>1, <1>2 DEF OnCourse, Published
<1>4. LostBefore = {}
  BY <1>1 DEF LostBefore
<1>5. Cardinality(LostBefore) = 0 /\ faults.n = 0 /\ ~BeingLost
  BY <1>1, <1>2, <1>4, FS_EmptySet DEF Init, BeingLost
<1> QED
  BY <1>3, <1>5 DEF EachHasItsFault

\* An error or a deadline of the receiver costs the message it was waiting for
\* and no other, however many messages and errors there are.
THEOREM ErrorCostsOne == Spec => []PullErrorCostsOne
<1>1. Init => CostInv
  BY LatencyInit, CostInit DEF CostInv
<1>2. CostInv /\ [Next]_vars => CostInv'
  BY LatencyInductive, CourseStep, CostStep, FaultsStay DEF CostInv
<1>3. CostInv => PullErrorCostsOne
  <2> SUFFICES ASSUME CostInv, main.pc = "done", Undisturbed
               PROVE  Cardinality(Lost) <= faults.n
    BY DEF PullErrorCostsOne, Undisturbed
  <2>1. /\ main.i \in 1..(NumberOfMessages + 1) /\ main.i \notin Seqs
        /\ LatencyInv /\ EachHasItsFault /\ faults.n \in Nat
    BY DEF CostInv, OnCourse, LatencyInv, Types, MainType, FaultsType
  <2>2. 1..(main.i - 1) = Seqs
    BY <2>1, LatencyAssumption DEF Seqs
  <2>3. Lost = LostBefore
    BY <2>2 DEF Lost, LostBefore
  <2>4. Cardinality(LostBefore) \in Nat
    BY <2>1, LostIsFinite
  <2> QED
    BY <2>1, <2>3, <2>4 DEF EachHasItsFault
<1> QED
  BY <1>1, <1>2, <1>3, PTL DEF Spec
=============================================================================
