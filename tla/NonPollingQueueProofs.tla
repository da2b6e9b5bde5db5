----------------------- MODULE NonPollingQueueProofs -----------------------
(***************************************************************************)
(* NonPollingQueue for any set of writers, any items and any number of     *)
(* Puts: no wakeup is lost, items come out in order, and every step is a   *)
(* step of the abstract FifoQueue.                                         *)
(***************************************************************************)
EXTENDS NonPollingQueue, SequenceTheorems, TLAPS

(***************************************************************************)
(* NoLostWakeup and PopFindsItem are inductive together with the type      *)
(* invariant: the only steps that could strand an item are a Get that goes *)
(* back to wait (the deque was empty), one that returns without signalling *)
(* (the deque was empty) and an acquire (the reader leaves "wait").        *)
(***************************************************************************)
IInv == TypeOK /\ NoLostWakeup /\ PopFindsItem

\* The type invariant holds of every initial state and is kept by every
\* step of Put and Get that finds an item where it pops one.
LEMMA TypeInductive ==
    ASSUME TypeOK, PopFindsItem, [Next]_vars
    PROVE  TypeOK'
<1> USE DEF TypeOK, ReaderPc, WriterPc
<1>1. ASSUME NEW w \in Writer, NEW item \in Item, PutAppend(w, item)
      PROVE  TypeOK'
  BY <1>1 DEF PutAppend
<1>2. ASSUME NEW w \in Writer, PutSignal(w)
      PROVE  TypeOK'
  BY <1>2 DEF PutSignal, SignalAvailableItem
<1>3. CASE GetCall
  BY <1>3 DEF GetCall
<1>4. CASE WaitForItem
  BY <1>4 DEF WaitForItem
<1>5. CASE GetCheck
  BY <1>5 DEF GetCheck
<1>6. CASE GetPop
  <2>1. deque # << >>
    BY <1>6 DEF GetPop, PopFindsItem
  <2>2. Head(deque) \in Item /\ Tail(deque) \in Seq(Item)
    BY <2>1, HeadTailProperties
  <2> QED
    BY <1>6, <2>2 DEF GetPop
<1>7. CASE GetRecheck
  BY <1>7 DEF GetRecheck
<1>8. CASE GetSignal
  BY <1>8 DEF GetSignal, SignalAvailableItem
<1>9. CASE UNCHANGED vars
  BY <1>9 DEF vars
<1> QED
  BY <1>1, <1>2, <1>3, <1>4, <1>5, <1>6, <1>7, <1>8, <1>9 DEF Next, Get, Put

\* popleft finds an item: only Get removes, and Put only adds.
LEMMA PopFindsItemInductive ==
    ASSUME TypeOK, PopFindsItem, [Next]_vars
    PROVE  PopFindsItem'
<1> USE DEF TypeOK, PopFindsItem
<1>1. ASSUME NEW w \in Writer, NEW item \in Item, PutAppend(w, item)
      PROVE  PopFindsItem'
  <2>1. Append(deque, item) # << >>
    BY AppendProperties
  <2> QED
    BY <1>1, <2>1 DEF PutAppend
<1>2. ASSUME NEW w \in Writer, PutSignal(w)
      PROVE  PopFindsItem'
  BY <1>2 DEF PutSignal
<1>3. CASE Get
  BY <1>3 DEF Get, GetCall, WaitForItem, GetCheck, GetPop, GetRecheck, GetSignal
<1>4. CASE UNCHANGED vars
  BY <1>4 DEF vars
<1> QED
  BY <1>1, <1>2, <1>3, <1>4 DEF Next, Put

\* No step of Put or Get leaves an item behind without a signal for it.
LEMMA NoLostWakeupInductive ==
    ASSUME TypeOK, NoLostWakeup, [Next]_vars
    PROVE  NoLostWakeup'
<1> USE DEF TypeOK, NoLostWakeup, SignalPending
<1>1. ASSUME NEW w \in Writer, NEW item \in Item, PutAppend(w, item)
      PROVE  NoLostWakeup'
  <2>1. wpc'[w] = "signal"
    BY <1>1 DEF PutAppend
  <2> QED
    BY <2>1
<1>2. ASSUME NEW w \in Writer, PutSignal(w)
      PROVE  NoLostWakeup'
  BY <1>2 DEF PutSignal, SignalAvailableItem
<1>3. CASE GetCall
  BY <1>3 DEF GetCall
<1>4. CASE WaitForItem
  BY <1>4 DEF WaitForItem
<1>5. CASE GetCheck
  BY <1>5 DEF GetCheck
<1>6. CASE GetPop
  BY <1>6 DEF GetPop
<1>7. CASE GetRecheck
  BY <1>7 DEF GetRecheck
<1>8. CASE GetSignal
  BY <1>8 DEF GetSignal, SignalAvailableItem
<1>9. CASE UNCHANGED vars
  BY <1>9 DEF vars
<1> QED
  BY <1>1, <1>2, <1>3, <1>4, <1>5, <1>6, <1>7, <1>8, <1>9 DEF Next, Get, Put

\* The three facts hold of the fresh queue and are kept by every step.
THEOREM Inductive == Spec => []IInv
<1>1. Init => IInv
  <2> SUFFICES ASSUME Init PROVE IInv
    OBVIOUS
  <2>1. << >> \in Seq(Item)
    BY EmptySeq
  <2> QED
    BY <2>1 DEF Init, IInv, TypeOK, NoLostWakeup, PopFindsItem, ReaderPc, WriterPc
<1>2. IInv /\ [Next]_vars => IInv'
  BY TypeInductive, PopFindsItemInductive, NoLostWakeupInductive DEF IInv
<1> QED
  BY <1>1, <1>2, PTL DEF Spec

\* The queue's state stays in its types: Get never hands out anything but an
\* item that was put.
THEOREM TypeCorrect == Spec => []TypeOK
  BY Inductive, PTL DEF IInv

\* No wakeup is lost, for any number of writers and Puts.
THEOREM WakeupSafe == Spec => []NoLostWakeup
  BY Inductive, PTL DEF IInv

\* popleft never meets an empty deque.
THEOREM PopSafe == Spec => []PopFindsItem
  BY Inductive, PTL DEF IInv

-----------------------------------------------------------------------------
(***************************************************************************)
(* Order and refinement.                                                   *)
(***************************************************************************)
\* Appending to the puts and to the deque keeps put = got \o deque.
LEMMA ConcatAppend ==
    ASSUME NEW S, NEW s \in Seq(S), NEW t \in Seq(S), NEW e \in S
    PROVE  Append(s \o t, e) = s \o Append(t, e)
  OBVIOUS

\* Moving the head of the deque to the end of got keeps their concatenation.
LEMMA ConcatMoveHead ==
    ASSUME NEW S, NEW s \in Seq(S), NEW t \in Seq(S), t # << >>
    PROVE  Append(s, Head(t)) \o Tail(t) = s \o t
  OBVIOUS

\* Every item comes out once and in the order of the appends.
THEOREM DeliveredInOrder == Spec => []FifoDelivery
<1>1. Init => FifoDelivery
  BY DEF Init, FifoDelivery
<1>2. ASSUME IInv, FifoDelivery, [Next]_vars
      PROVE  FifoDelivery'
  <2> USE DEF IInv, TypeOK, FifoDelivery
  <2>1. ASSUME NEW w \in Writer, NEW item \in Item, PutAppend(w, item)
        PROVE  FifoDelivery'
    <3>1. Append(got \o deque, item) = got \o Append(deque, item)
      BY <1>2, ConcatAppend
    <3> QED
      BY <1>2, <2>1, <3>1 DEF PutAppend
  <2>2. ASSUME NEW w \in Writer, PutSignal(w)
        PROVE  FifoDelivery'
    BY <1>2, <2>2 DEF PutSignal
  <2>3. CASE GetPop
    <3>1. deque # << >>
      BY <1>2, <2>3 DEF GetPop, PopFindsItem
    <3>2. Append(got, Head(deque)) \o Tail(deque) = got \o deque
      BY <1>2, <3>1, ConcatMoveHead
    <3> QED
      BY <1>2, <2>3, <3>2 DEF GetPop
  <2>4. CASE GetCall \/ WaitForItem \/ GetCheck \/ GetRecheck \/ GetSignal
    BY <1>2, <2>4 DEF GetCall, WaitForItem, GetCheck, GetRecheck, GetSignal
  <2>5. CASE UNCHANGED vars
    BY <1>2, <2>5 DEF vars
  <2> QED
    BY <1>2, <2>1, <2>2, <2>3, <2>4, <2>5 DEF Next, Get, Put
<1> QED
  BY <1>1, <1>2, Inductive, PTL DEF Spec

\* Put is the abstract Write, the popleft the abstract Take, the call and the
\* return of Get the abstract ones; every other step is invisible.
THEOREM Refinement == Spec => ImplementsFifo
<1>1. Init => Fifo!FifoInit
  BY DEF Init, Fifo!FifoInit, ReaderState
<1>2. ASSUME IInv, [Next]_vars
      PROVE  [Fifo!FifoNext]_(Fifo!fifoVars)
  <2> USE DEF ReaderState, Fifo!fifoVars
  <2>1. ASSUME NEW w \in Writer, NEW item \in Item, PutAppend(w, item)
        PROVE  Fifo!FifoNext
    BY <2>1 DEF PutAppend, Fifo!FifoNext, Fifo!Write
  <2>2. ASSUME NEW w \in Writer, PutSignal(w)
        PROVE  UNCHANGED Fifo!fifoVars
    BY <2>2 DEF PutSignal
  <2>3. CASE GetCall
    BY <2>3 DEF GetCall, Fifo!FifoNext, Fifo!CallGet
  <2>4. CASE WaitForItem
    BY <2>4 DEF WaitForItem
  <2>5. CASE GetCheck
    BY <2>5 DEF GetCheck
  <2>6. CASE GetPop
    <3>1. deque # << >>
      BY <1>2, <2>6 DEF GetPop, IInv, PopFindsItem
    <3> QED
      BY <2>6, <3>1 DEF GetPop, Fifo!FifoNext, Fifo!Take
  <2>7. CASE GetRecheck
    BY <2>7 DEF GetRecheck, Fifo!FifoNext, Fifo!Return
  <2>8. CASE GetSignal
    BY <2>8 DEF GetSignal, Fifo!FifoNext, Fifo!Return
  <2>9. CASE UNCHANGED vars
    BY <2>9 DEF vars
  <2> QED
    BY <1>2, <2>1, <2>2, <2>3, <2>4, <2>5, <2>6, <2>7, <2>8, <2>9
       DEF Next, Get, Put
<1> QED
  BY <1>1, <1>2, Inductive, PTL DEF Spec, ImplementsFifo, Fifo!FifoSafety
=============================================================================
