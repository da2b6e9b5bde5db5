--------------------------- MODULE EndToEndLatency ---------------------------
(***************************************************************************)
(* The end-to-end latency benchmark of the messaging services              *)
(* (scripts/messaging_service_scripts/common/e2e): the main process        *)
(* (latency_runner.py, main_process.py) sends one message at a time        *)
(* through a publisher process (publisher.py) to a receiver process        *)
(* (receiver.py, streaming_pull_receiver.py), all of them talking through  *)
(* pipes in request and acknowledgement, and the receiver being a state    *)
(* machine.  The messaging service may deliver late and more than once,    *)
(* and every operation on it may fail after having had its effect.         *)
(*                                                                         *)
(* A timestamp is the fact that it was recorded.  Communicator.peek keeps  *)
(* what it read for the next _recv, so it is a look at the head of the     *)
(* pipe.                                                                   *)
(*                                                                         *)
(* This is one run of the benchmark on a fresh subscription.  A second     *)
(* iteration of the run stage uses the subscription again and numbers its  *)
(* messages from the start; what the first left in it is not covered.      *)
(***************************************************************************)
EXTENDS Naturals, Sequences, FiniteSets, Functions

CONSTANTS NumberOfMessages,
          MaxFaults    \* bound: errors, redeliveries, timeouts and crashes

ASSUME LatencyAssumption == NumberOfMessages \in Nat /\ MaxFaults \in Nat

Seqs == 1..NumberOfMessages
NoSeq == 0

VARIABLES streaming,    \* StreamingPullReceiverRunner rather than its parent
          main,         \* where _async_run_phase is, and its i
          published, received,     \* messages with a recorded timestamp
          publisher, receiver,     \* the two processes
          received_seqs,           \* what the receiver has registered
          buffer,       \* messages_received, the queue of the streaming pull
          toPub, fromPub, toRcv, fromRcv,   \* the pipes
          service,      \* messages the service holds
          faults        \* history: what has gone wrong so far

vars == <<streaming, main, published, received, publisher, receiver,
          received_seqs, buffer, toPub, fromPub, toRcv, fromRcv, service,
          faults>>
pipes == <<toPub, fromPub, toRcv, fromRcv>>
stamps == <<published, received>>
rcv == <<receiver, received_seqs, buffer>>

Msg(type, seq) == [type |-> type, seq |-> seq]
Error(type) == [type |-> type, seq |-> NoSeq]   \* publish_error, receive_error

Messages ==
    [type : {"Ready", "Purge", "PurgeAck", "AckConsume"}, seq : {NoSeq}]
    \cup [type : {"Publish", "Consume"}, seq : Seqs]
    \cup [type : {"AckPublish", "ReceptionReport"}, seq : Seqs \cup {NoSeq}]

At(state) == [state |-> state, seq |-> NoSeq, got |-> NoSeq, notify |-> FALSE]

Init ==
    /\ streaming \in BOOLEAN
    /\ main = [pc |-> "start", i |-> 1]
    /\ published = {} /\ received = {}
    /\ publisher = "boot" /\ receiver = At("Booting")
    /\ received_seqs = {} /\ buffer = << >> /\ service = {}
    /\ toPub = << >> /\ fromPub = << >> /\ toRcv = << >> /\ fromRcv = << >>
    /\ faults = [n |-> 0, publish |-> FALSE, pull |-> FALSE, slow |-> FALSE,
                 crash |-> FALSE]

Fault(f) == /\ faults.n < MaxFaults
            /\ faults' = [f EXCEPT !.n = faults.n + 1]

-----------------------------------------------------------------------------
(***************************************************************************)
(* The main process.                                                       *)
(***************************************************************************)
Goto(pc) == main' = [main EXCEPT !.pc = pc]
NextMessage == main' = [pc |-> "loop", i |-> main.i + 1]

\* Both workers have greeted.
Started ==
    /\ main.pc = "start" /\ fromPub # << >> /\ fromRcv # << >>
    /\ fromPub' = Tail(fromPub) /\ fromRcv' = Tail(fromRcv)
    /\ Goto("loop")
    /\ UNCHANGED <<streaming, stamps, publisher, rcv, toPub, toRcv, service,
                   faults>>

\* start_consumption(seq=i), or the end of the loop.
SendConsume ==
    /\ main.pc = "loop"
    /\ IF main.i \in Seqs
       THEN /\ toRcv' = Append(toRcv, Msg("Consume", main.i))
            /\ Goto("AckConsume")
       ELSE Goto("stop") /\ UNCHANGED toRcv
    /\ UNCHANGED <<streaming, stamps, publisher, rcv, toPub, fromPub, fromRcv,
                   service, faults>>

\* The receiver is ready; after a pause, publish(i) is sent.
GetAckConsume ==
    /\ main.pc = "AckConsume" /\ fromRcv # << >>
    /\ fromRcv' = Tail(fromRcv)
    /\ IF Head(fromRcv).type = "AckConsume"
       THEN /\ toPub' = Append(toPub, Msg("Publish", main.i))
            /\ Goto("AckPublish")
       ELSE Goto("stop") /\ UNCHANGED toPub
    /\ UNCHANGED <<streaming, stamps, publisher, rcv, fromPub, toRcv, service,
                   faults>>

\* _record_message_published, or PublisherFailedOperationError: Purge is sent.
GetAckPublish ==
    /\ main.pc = "AckPublish" /\ fromPub # << >>
    /\ fromPub' = Tail(fromPub)
    /\ IF Head(fromPub) = Error("AckPublish")
       THEN /\ toRcv' = Append(toRcv, Msg("Purge", NoSeq))
            /\ Goto("PurgeAck") /\ UNCHANGED published
       ELSE /\ published' = published \cup {Head(fromPub).seq}
            /\ Goto("ReceptionReport") /\ UNCHANGED toRcv
    /\ UNCHANGED <<streaming, received, publisher, rcv, toPub, fromRcv, service,
                   faults>>

\* _wait_until_received(i): every report is recorded, the one for i ends the
\* wait; ReceiverFailedOperationError.
GetReport ==
    /\ main.pc = "ReceptionReport" /\ fromRcv # << >>
    /\ fromRcv' = Tail(fromRcv)
    /\ LET report == Head(fromRcv)
       IN  CASE report.type # "ReceptionReport" -> Goto("stop") /\ UNCHANGED received
             [] report = Error("ReceptionReport") ->
                  Goto("sleep") /\ UNCHANGED received
             [] OTHER -> /\ received' = received \cup {report.seq}
                         /\ IF report.seq = main.i THEN NextMessage
                                                   ELSE UNCHANGED main
    /\ UNCHANGED <<streaming, published, publisher, rcv, toPub, fromPub, toRcv,
                   service, faults>>

\* Faulty variant: main asks for the purge that the receiver makes anyway.
PurgeAgain ==
    /\ main.pc = "sleep"
    /\ toRcv' = Append(toRcv, Msg("Purge", NoSeq))
    /\ Goto("PurgeAck")
    /\ UNCHANGED <<streaming, stamps, publisher, rcv, toPub, fromPub, fromRcv,
                   service, faults>>

\* PURGE_TIMEOUT after a receiver error, for its purge.
Sleep ==
    /\ main.pc = "sleep"
    /\ NextMessage
    /\ UNCHANGED <<streaming, stamps, publisher, rcv, pipes, service, faults>>

\* purge_messages: anything but the acknowledgement ends the loop.
GetPurgeAck ==
    /\ main.pc = "PurgeAck" /\ fromRcv # << >>
    /\ fromRcv' = Tail(fromRcv)
    /\ IF Head(fromRcv).type = "PurgeAck" THEN NextMessage ELSE Goto("stop")
    /\ UNCHANGED <<streaming, stamps, publisher, rcv, toPub, fromPub, toRcv,
                   service, faults>>

\* The pipe main waits on is empty, and whoever should write to it is dead.
Silent ==
    \/ main.pc \in {"start", "AckPublish"} /\ fromPub = << >> /\ publisher = "dead"
    \/ /\ main.pc \in {"start", "AckConsume", "ReceptionReport", "PurgeAck"}
       /\ fromRcv = << >> /\ receiver.state = "dead"

\* Faulty variant: no deadline for a worker that died.
TimeOutIfAlive ==
    /\ main.pc \in {"start", "AckConsume", "AckPublish", "ReceptionReport",
                    "PurgeAck"}
    /\ ~Silent
    /\ Fault([faults EXCEPT !.slow = TRUE])
    /\ Goto("stop")
    /\ UNCHANGED <<streaming, stamps, publisher, rcv, pipes, service>>

\* SubprocessTimeoutError: the loop ends.  The deadline is looked at after a
\* sleep and the pipe before it, so that the answer may be there by then.
TimeOut ==
    /\ main.pc \in {"start", "AckConsume", "AckPublish", "ReceptionReport",
                    "PurgeAck"}
    /\ IF Silent THEN UNCHANGED faults
                 ELSE Fault([faults EXCEPT !.slow = TRUE])
    /\ Goto("stop")
    /\ UNCHANGED <<streaming, stamps, publisher, rcv, pipes, service>>

\* The finally block: terminate, or kill, both workers; then the metrics.
Stop ==
    /\ main.pc = "stop"
    /\ publisher' = "dead" /\ receiver' = At("dead")
    /\ Goto("done")
    /\ UNCHANGED <<streaming, stamps, received_seqs, buffer, pipes, service,
                   faults>>

Main == Started \/ SendConsume \/ GetAckConsume \/ GetAckPublish \/ GetReport
          \/ Sleep \/ GetPurgeAck \/ Stop

-----------------------------------------------------------------------------
(***************************************************************************)
(* publisher.main                                                          *)
(***************************************************************************)
GreetPublisher ==
    /\ publisher = "boot"
    /\ fromPub' = Append(fromPub, Msg("Ready", NoSeq))
    /\ publisher' = "ready"
    /\ UNCHANGED <<streaming, main, stamps, rcv, toPub, toRcv, fromRcv, service,
                   faults>>

Publish ==
    /\ publisher = "ready" /\ toPub # << >>
    /\ toPub' = Tail(toPub)
    /\ service' = service \cup {Head(toPub).seq}
    /\ fromPub' = Append(fromPub, Msg("AckPublish", Head(toPub).seq))
    /\ UNCHANGED <<streaming, main, stamps, publisher, rcv, toRcv, fromRcv,
                   faults>>

\* publish_message raises, and the message may have been sent.
PublishFails ==
    /\ publisher = "ready" /\ toPub # << >>
    /\ Fault([faults EXCEPT !.publish = TRUE])
    /\ toPub' = Tail(toPub)
    /\ \/ service' = service \cup {Head(toPub).seq}
       \/ UNCHANGED service
    /\ fromPub' = Append(fromPub, Error("AckPublish"))
    /\ UNCHANGED <<streaming, main, stamps, publisher, rcv, toRcv, fromRcv>>

-----------------------------------------------------------------------------
(***************************************************************************)
(* ReceiverRunner and its states.                                          *)
(***************************************************************************)
\* BootingState
GreetReceiver ==
    /\ receiver.state = "Booting"
    /\ fromRcv' = Append(fromRcv, Msg("Ready", NoSeq))
    /\ receiver' = At("Ready")
    /\ UNCHANGED <<streaming, main, stamps, publisher, received_seqs, buffer,
                   toPub, fromPub, toRcv, service, faults>>

\* ReadyState: anything but a Consume ends the process.
AwaitConsume ==
    /\ receiver.state = "Ready" /\ toRcv # << >>
    /\ toRcv' = Tail(toRcv)
    /\ IF Head(toRcv).type = "Consume"
       THEN /\ receiver' = [At("Pulling") EXCEPT !.seq = Head(toRcv).seq]
            /\ fromRcv' = Append(fromRcv, Msg("AckConsume", NoSeq))
       ELSE receiver' = At("dead") /\ UNCHANGED fromRcv
    /\ UNCHANGED <<streaming, main, stamps, publisher, received_seqs, buffer,
                   toPub, fromPub, service, faults>>

\* The service hands a message out and forgets it when it is acknowledged,
\* or delivers it again.
Deliver(seq) ==
    /\ seq \in service
    /\ \/ service' = service \ {seq} /\ UNCHANGED faults
       \/ Fault(faults) /\ UNCHANGED service

\* on_message_received, called in a thread of the client.
OnMessageReceived(seq) ==
    /\ streaming /\ receiver.state \notin {"Booting", "dead"}
    /\ Deliver(seq)
    /\ buffer' = Append(buffer, seq)
    /\ UNCHANGED <<streaming, main, stamps, publisher, receiver, received_seqs,
                   pipes>>

\* PullingState with a message; without one it stays in PullingState.
PullMessage ==
    /\ receiver.state = "Pulling"
    /\ \/ /\ streaming /\ buffer # << >>
          /\ receiver' = [receiver EXCEPT !.state = "PullSuccess",
                                          !.got = Head(buffer)]
          /\ buffer' = Tail(buffer) /\ UNCHANGED <<service, faults>>
       \/ /\ ~streaming
          /\ \E seq \in service :
               /\ Deliver(seq)
               /\ receiver' = [receiver EXCEPT !.state = "PullSuccess",
                                               !.got = seq]
          /\ UNCHANGED buffer
    /\ UNCHANGED <<streaming, main, stamps, publisher, received_seqs, pipes>>

\* No message can come: main has published, or has stopped doing so.
Quiet == /\ service = {} /\ buffer = << >>
         /\ main.pc \notin {"AckConsume", "AckPublish"}

\* PullingState at its deadline, or with an error of the client, which may
\* have taken a message before it raised.
PullFails ==
    /\ receiver.state = "Pulling"
    /\ IF Quiet THEN UNCHANGED <<service, faults>>
       ELSE /\ Fault([faults EXCEPT !.pull = TRUE])
            /\ \/ UNCHANGED service
               \/ ~streaming /\ \E seq \in service : service' = service \ {seq}
    /\ receiver' = At("PullError")
    /\ UNCHANGED <<streaming, main, stamps, publisher, received_seqs, buffer,
                   pipes>>

\* Faulty variant: every message is reported, the expected one or not.
ReportAny ==
    /\ receiver.state = "PullSuccess"
    /\ received_seqs' = received_seqs \cup {receiver.got}
    /\ fromRcv' = Append(fromRcv, Msg("ReceptionReport", receiver.got))
    /\ receiver' = At("Ready")
    /\ UNCHANGED <<streaming, main, stamps, publisher, buffer, toPub, fromPub,
                   toRcv, service, faults>>

\* PullSuccessState: a Purge command comes first; otherwise the message is
\* registered, and reported if the Consume command is fulfilled by it.
PullSuccess ==
    /\ receiver.state = "PullSuccess"
    /\ IF toRcv # << >> /\ Head(toRcv).type = "Purge"
       THEN /\ toRcv' = Tail(toRcv)
            /\ receiver' = [At("Purging") EXCEPT !.notify = TRUE]
            /\ UNCHANGED <<received_seqs, fromRcv>>
       ELSE /\ received_seqs' = received_seqs \cup {receiver.got}
            /\ IF receiver.seq \in received_seqs'
               THEN /\ fromRcv' = Append(fromRcv,
                                         Msg("ReceptionReport", receiver.got))
                    /\ receiver' = At("Ready")
               ELSE /\ receiver' = [receiver EXCEPT !.state = "Pulling",
                                                    !.got = NoSeq]
                    /\ UNCHANGED fromRcv
            /\ UNCHANGED toRcv
    /\ UNCHANGED <<streaming, main, stamps, publisher, buffer, toPub, fromPub,
                   service, faults>>

\* Faulty variant: a purge after an error is acknowledged to main as well.
PullErrorGoesOn ==
    /\ receiver.state = "PullError"
    /\ fromRcv' = Append(fromRcv, Error("ReceptionReport"))
    /\ receiver' = [At("Purging") EXCEPT !.notify = TRUE]
    /\ UNCHANGED <<streaming, main, stamps, publisher, received_seqs, buffer,
                   toPub, fromPub, toRcv, service, faults>>

\* PullErrorState
PullError ==
    /\ receiver.state = "PullError"
    /\ fromRcv' = Append(fromRcv, Error("ReceptionReport"))
    /\ receiver' = At("Purging")
    /\ UNCHANGED <<streaming, main, stamps, publisher, received_seqs, buffer,
                   toPub, fromPub, toRcv, service, faults>>

\* PurgingState: the service forgets its messages, the streaming pull's queue
\* does not.
Purge ==
    /\ receiver.state = "Purging"
    /\ service' = {}
    /\ fromRcv' = IF receiver.notify
                  THEN Append(fromRcv, Msg("PurgeAck", NoSeq)) ELSE fromRcv
    /\ receiver' = At("Ready")
    /\ UNCHANGED <<streaming, main, stamps, publisher, received_seqs, buffer,
                   toPub, fromPub, toRcv, faults>>

\* client.purge_messages raises: nothing catches it.
PurgeFails ==
    /\ receiver.state = "Purging"
    /\ Fault([faults EXCEPT !.crash = TRUE])
    /\ receiver' = At("dead")
    /\ UNCHANGED <<streaming, main, stamps, publisher, received_seqs, buffer,
                   pipes, service>>

Receiver == GreetReceiver \/ AwaitConsume \/ PullMessage \/ PullSuccess
              \/ PullError \/ Purge

Next ==
    \/ Main \/ TimeOut
    \/ GreetPublisher \/ Publish \/ PublishFails
    \/ Receiver \/ PullFails \/ PurgeFails
    \/ \E seq \in Seqs : OnMessageReceived(seq)

Spec == Init /\ [][Next]_vars

\* Processes run, and awaits and pulls have deadlines; the service delivers.
FairSpec ==
    /\ Spec
    /\ WF_vars(Main) /\ WF_vars(TimeOut)
    /\ WF_vars(GreetPublisher \/ Publish)
    /\ WF_vars(Receiver) /\ WF_vars(PullFails)
    /\ WF_vars(\E seq \in Seqs : OnMessageReceived(seq))

-----------------------------------------------------------------------------
(***************************************************************************)
(* Properties.                                                             *)
(***************************************************************************)
TypeOK ==
    /\ streaming \in BOOLEAN
    /\ main \in [pc : {"start", "loop", "AckConsume", "AckPublish",
                       "ReceptionReport", "sleep", "PurgeAck", "stop", "done"},
                 i : 1..(NumberOfMessages + 1)]
    /\ published \subseteq Seqs /\ received \subseteq Seqs
    /\ publisher \in {"boot", "ready", "dead"}
    /\ receiver \in [state : {"Booting", "Ready", "Pulling", "PullSuccess",
                              "PullError", "Purging", "dead"},
                     seq : Seqs \cup {NoSeq}, got : Seqs \cup {NoSeq},
                     notify : BOOLEAN]
    /\ received_seqs \subseteq Seqs /\ service \subseteq Seqs
    /\ buffer \in Seq(Seqs)
    /\ toPub \in Seq(Messages) /\ fromPub \in Seq(Messages)
    /\ toRcv \in Seq(Messages) /\ fromRcv \in Seq(Messages)
    /\ faults \in [n : 0..MaxFaults, publish : BOOLEAN, pull : BOOLEAN,
                   slow : BOOLEAN, crash : BOOLEAN]

\* A reception report is about the message that main is waiting for, whatever
\* is delivered late or twice: no latency is recorded for another message.
ReportIsAnswer ==
    \A m \in Range(fromRcv) :
      m.type = "ReceptionReport" /\ m.seq # NoSeq => m.seq = main.i

\* A turn begins in step: no command and no answer of an earlier one is left
\* in a pipe, and the receiver waits for a command, or will without a further
\* word, or is dead.
TurnIsClean ==
    main.pc = "loop" =>
      /\ toPub = << >> /\ fromPub = << >> /\ toRcv = << >> /\ fromRcv = << >>
      /\ \/ receiver.state \in {"Ready", "dead"}
         \/ receiver.state = "Purging" /\ ~receiver.notify

Lost == Seqs \ (published \cap received)

\* An error of the receiver costs the message it was waiting for and no
\* other: the run goes on in step with the next one.  A redelivery is among
\* the faults counted and costs no message; the bound allows for one.
PullErrorCostsOne ==
    main.pc = "done" /\ ~(faults.publish \/ faults.slow \/ faults.crash)
      => Cardinality(Lost) <= faults.n

\* The protocol's PurgeAck is the "Message acknowledging a Purge command to
\* main process": what main reads after a Purge is that message.
PurgeIsAcknowledged ==
    main.pc = "PurgeAck" /\ fromRcv # << >> => Head(fromRcv).type = "PurgeAck"

\* The run ends and the workers with it, whatever fails.
RunEnds == <>(main.pc = "done")
=============================================================================
