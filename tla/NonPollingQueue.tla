-------------------------- MODULE NonPollingQueue --------------------------
(***************************************************************************)
(* _NonPollingSingleReaderQueue of background_tasks.py: a deque, and a     *)
(* threading.Lock used backwards.  The lock is taken in __init__; the      *)
(* reader waits for items by ACQUIRING it, a writer signals by RELEASING   *)
(* it, and releasing a free lock is swallowed, so signals do not add up:   *)
(* two Puts may leave one signal, and a signal may outlive its item.       *)
(*                                                                         *)
(* One step per operation on shared state (each deque and lock operation   *)
(* is atomic under the interpreter lock), so the reader and the writers    *)
(* interleave between the append and the release, between the acquire and  *)
(* the emptiness test, and between the popleft and the second test.        *)
(***************************************************************************)
EXTENDS Naturals, Sequences

CONSTANTS Writer,   \* threads that call Put
          Item,     \* values they put
          MaxPuts   \* bound: number of Puts in a behaviour

ASSUME MaxPutsAssumption == MaxPuts \in Nat

VARIABLES deque,    \* self._deque
          locked,   \* self._lock is held
          rpc,      \* where the reader's Get is
          wpc,      \* where each writer's Put is
          put,      \* history: every item appended, in order
          got       \* history: every item taken by Get, in order

vars == <<deque, locked, rpc, wpc, put, got>>

ReaderPc == {"idle", "wait", "check", "pop", "recheck", "signal"}
WriterPc == {"idle", "signal"}

-----------------------------------------------------------------------------
(***************************************************************************)
(* Faulty variants: each is a bug this code could plausibly have had, and  *)
(* each breaks one of the properties stated at the end of the module.      *)
(***************************************************************************)
\* Put with appendleft instead of append.
PutAppendLeft(w, item) ==
    /\ wpc[w] = "idle"
    /\ Len(put) < MaxPuts
    /\ deque' = <<item>> \o deque
    /\ put' = Append(put, item)
    /\ wpc' = [wpc EXCEPT ![w] = "signal"]
    /\ UNCHANGED <<locked, rpc, got>>

\* _SignalAvailableItem forgets the release.
SignalNothing == UNCHANGED locked

\* Get without the emptiness test and its loop: trusts the signal.
GetTrustsSignal ==
    /\ rpc = "check"
    /\ rpc' = "pop"
    /\ UNCHANGED <<deque, locked, wpc, put, got>>

\* Get without the second emptiness test: one signal per Put is taken to be
\* enough.
GetNeverResignals ==
    /\ rpc = "recheck"
    /\ rpc' = "idle"
    /\ UNCHANGED <<deque, locked, wpc, put, got>>

-----------------------------------------------------------------------------
\* __init__: an empty deque and a lock that is already acquired.
Init ==
    /\ deque = << >>
    /\ locked = TRUE
    /\ rpc = "idle"
    /\ wpc = [w \in Writer |-> "idle"]
    /\ put = << >>
    /\ got = << >>

\* Put, first statement: self._deque.append(item).
PutAppend(w, item) ==
    /\ wpc[w] = "idle"
    /\ Len(put) < MaxPuts
    /\ deque' = Append(deque, item)
    /\ put' = Append(put, item)
    /\ wpc' = [wpc EXCEPT ![w] = "signal"]
    /\ UNCHANGED <<locked, rpc, got>>

\* _SignalAvailableItem: the lock is free afterwards, whether the release
\* succeeded or raised the ThreadError that is swallowed.
SignalAvailableItem == locked' = FALSE

\* Put, second statement.
PutSignal(w) ==
    /\ wpc[w] = "signal"
    /\ SignalAvailableItem
    /\ wpc' = [wpc EXCEPT ![w] = "idle"]
    /\ UNCHANGED <<deque, rpc, put, got>>

\* The reader thread calls Get.
GetCall ==
    /\ rpc = "idle"
    /\ rpc' = "wait"
    /\ UNCHANGED <<deque, locked, wpc, put, got>>

\* _WaitForItem: blocks until the lock is free, and takes it.
WaitForItem ==
    /\ rpc = "wait" /\ ~locked
    /\ locked' = TRUE
    /\ rpc' = "check"
    /\ UNCHANGED <<deque, wpc, put, got>>

\* `if self._deque`: a signal that outlived its item sends Get round again.
GetCheck ==
    /\ rpc = "check"
    /\ rpc' = IF deque # << >> THEN "pop" ELSE "wait"
    /\ UNCHANGED <<deque, locked, wpc, put, got>>

\* item = self._deque.popleft()
GetPop ==
    /\ rpc = "pop"
    /\ deque' = Tail(deque)
    /\ got' = Append(got, Head(deque))
    /\ rpc' = "recheck"
    /\ UNCHANGED <<locked, wpc, put>>

\* The second `if self._deque`: the caller still has items to be told of.
GetRecheck ==
    /\ rpc = "recheck"
    /\ rpc' = IF deque # << >> THEN "signal" ELSE "idle"
    /\ UNCHANGED <<deque, locked, wpc, put, got>>

\* Get signals itself for the next call, and returns.
GetSignal ==
    /\ rpc = "signal"
    /\ SignalAvailableItem
    /\ rpc' = "idle"
    /\ UNCHANGED <<deque, wpc, put, got>>

Get == GetCall \/ WaitForItem \/ GetCheck \/ GetPop \/ GetRecheck \/ GetSignal

Put(w) == (\E item \in Item : PutAppend(w, item)) \/ PutSignal(w)

Next == Get \/ \E w \in Writer : Put(w)

Spec == Init /\ [][Next]_vars

\* A thread inside Put or Get keeps running; whether a thread calls Put is
\* its own affair, and the one reader of these queues calls Get in a loop.
FairSpec ==
    /\ Spec
    /\ WF_vars(Get)
    /\ \A w \in Writer : WF_vars(PutSignal(w))

-----------------------------------------------------------------------------
(***************************************************************************)
(* Properties.                                                             *)
(***************************************************************************)
TypeOK ==
    /\ deque \in Seq(Item)
    /\ locked \in BOOLEAN
    /\ rpc \in ReaderPc
    /\ wpc \in [Writer -> WriterPc]
    /\ put \in Seq(Item)
    /\ got \in Seq(Item)

\* A writer has appended its item and not yet released the lock.
SignalPending == \E w \in Writer : wpc[w] = "signal"

\* No lost wakeup.  Whenever items are there and the reader is outside the
\* part of Get that looks at the deque, the lock is free or some Put is about
\* to free it.  It needs the second emptiness test of Get: signals do not add
\* up, so after two Puts the reader itself has to pass the second signal on.
NoLostWakeup ==
    deque # << >> /\ rpc \in {"idle", "wait"} => ~locked \/ SignalPending

\* popleft never raises IndexError: a writer may act between the test and the
\* pop, but only the single reader removes.
PopFindsItem == rpc = "pop" => deque # << >>

\* Every item comes out once, in the order the appends were done, whatever
\* the writers' signals did.
FifoDelivery == put = got \o deque

-----------------------------------------------------------------------------
(***************************************************************************)
(* The queue implements FifoQueue: Put takes effect at the append, Get at  *)
(* the popleft; the lock and the polling of the emptiness test are hidden. *)
(***************************************************************************)
ReaderState ==
    CASE rpc = "idle" -> "idle"
      [] rpc \in {"wait", "check", "pop"} -> "waiting"
      [] OTHER -> "served"

Fifo == INSTANCE FifoQueue WITH contents <- deque, reader <- ReaderState

\* Each step of the queue is one step of the abstract one or invisible.
ImplementsFifo == Fifo!FifoSafety

\* ... and, with the threads running, a reader that waits while there are
\* items is served: no signal is lost for good.
ImplementsFairFifo == Fifo!FifoSpec
=============================================================================
