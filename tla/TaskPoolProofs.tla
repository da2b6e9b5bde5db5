--------------------------- MODULE TaskPoolProofs ---------------------------
(***************************************************************************)
(* What is proved of TaskPool, for any number of tasks, any concurrency,   *)
(* any number of interrupts and any targets that use interrupts up.        *)
(***************************************************************************)
EXTENDS TaskPool, FiniteSetTheorems, SequenceTheorems, TLAPS

-----------------------------------------------------------------------------
(***************************************************************************)
(* The invariant, by the phases of the call.                               *)
(***************************************************************************)
\* How many interrupts the parent has had says where it can be: the handler
\* runs after the first, and __exit__ runs after at most two.
Interrupted ==
    /\ ppc \in {"start", "boot", "enter", "loop"} => interrupts = 0 /\ ~raising
    /\ ppc \in {"setexc", "wake", "hjoin"} => interrupts = 1 /\ raising
    /\ ppc \in {"stop", "xjoin"} =>
         IF raising THEN interrupts \in {1, 2} ELSE interrupts = 0
    /\ interrupts <= 3

\* No interrupt was passed on to a worker unless the parent received one.
NonePending == ~raising => \A w \in Worker : ~ki[w]

\* Before the loop no task has been handed out.
NothingStarted ==
    /\ started = 0 /\ active = 0 /\ errors = << >>
    /\ avail = [i \in 1..Concurrency |-> i - 1]
    /\ \A w \in Worker : /\ tq[w] = << >> /\ cur[w] = NoTask
                         /\ wpc[w] \in {"unborn", "boot", "get"}
    /\ \A t \in Task : state[t] = "new"

\* Workers that have not reported yet.
Unreported == {w \in Worker : wpc[w] \in {"unborn", "boot"}}

\* Every worker is counted once: it has still to report, or its report is in
\* the response queue, or the parent has read it.
Booting ==
    /\ ppc \in {"start", "boot", "enter"} => NothingStarted
    /\ ppc = "start" => /\ \A w \in Worker : wpc[w] = "unborn" <=> w >= idx
                        /\ Cardinality(Unreported) + Len(resp) = Concurrency
    /\ ppc = "boot" =>
         /\ \A w \in Worker : wpc[w] # "unborn"
         /\ Cardinality(Unreported) + Len(resp) + idx = Concurrency
    /\ ppc = "enter" => resp = << >>
    /\ ppc \notin {"start", "boot", "done"} => Unreported = {}

\* In the loop a worker is on the stack, has a task in its queue, has a
\* current one, or has a response on the way, and no two of these ...
OnStack(w) == \E i \in 1..Len(avail) : avail[i] = w
Responded(w) == \E i \in 1..Len(resp) : resp[i][1] = w
OneThing(w) ==
    /\ wpc[w] \in {"get", "run", "put"}
    /\ Len(tq[w]) <= 1
    /\ wpc[w] = "get" <=> cur[w] = NoTask
    /\ tq[w] # << >> => wpc[w] = "get"
    /\ OnStack(w) \/ Responded(w) <=> tq[w] = << >> /\ wpc[w] = "get"
    /\ ~(OnStack(w) /\ Responded(w))
Held ==
    /\ \A w \in Worker : OneThing(w)
    /\ \A i, j \in 1..Len(avail) : avail[i] = avail[j] => i = j
    /\ \A i, j \in 1..Len(resp) : resp[i][1] = resp[j][1] => i = j
    /\ active + Len(avail) = Concurrency

\* ... and where a task is follows from its state.
Placed ==
    /\ \A t \in Task : state[t] = "new" <=> t > started
    /\ \A t \in Task : state[t] \in {"new", "queued", "running", "ok", "failed"}
    /\ \A w \in Worker : /\ tq[w] # << >> => /\ tq[w][1] \in Task
                                             /\ state[tq[w][1]] = "queued"
                         /\ wpc[w] = "run" => state[cur[w]] = "running"
                         /\ wpc[w] = "put" => state[cur[w]] \in {"ok", "failed"}
    /\ \A i \in 1..Len(resp) : /\ resp[i][2] \in Task
                               /\ state[resp[i][2]] \in {"ok", "failed"}
    /\ \A t \in Task :
         /\ state[t] = "queued" => \E w \in Worker : tq[w] # << >> /\ tq[w][1] = t
         /\ state[t] = "running" => \E w \in Worker : cur[w] = t

\* No task is given to two workers or answered twice.
Apart ==
    /\ \A v, w \in Worker : tq[v] # << >> /\ tq[w] # << >> /\ tq[v][1] = tq[w][1]
                              => v = w
    /\ \A v, w \in Worker : cur[v] # NoTask /\ cur[v] = cur[w] => v = w
    /\ \A i, j \in 1..Len(resp) : resp[i][2] = resp[j][2] => i = j
    /\ \A i \in 1..Len(resp), w \in Worker : resp[i][2] # cur[w]

\* A failure is on its way to the parent or on its list, once.
OnTheWay(t) == \/ \E w \in Worker : cur[w] = t
               \/ \E i \in 1..Len(resp) : resp[i][2] = t
Listed ==
    /\ \A i, j \in 1..Len(errors) : errors[i] = errors[j] => i = j
    /\ \A i \in 1..Len(errors) : errors[i] \in Failed /\ ~OnTheWay(errors[i])
    /\ \A t \in Failed : OnTheWay(t) \/ \E i \in 1..Len(errors) : errors[i] = t

Looping == ppc = "loop" => Held /\ Placed /\ Apart /\ Listed

\* After the loop: every task has finished, its failure is listed.
AllFinished ==
    /\ \A t \in Task : state[t] \in {"ok", "failed"}
    /\ \A i, j \in 1..Len(errors) : errors[i] = errors[j] => i = j
    /\ \A t \in Task : t \in Failed <=> \E i \in 1..Len(errors) : errors[i] = t
Ended ==
    (ppc \in {"stop", "xjoin"} /\ ~raising) \/ outcome \in {"returned", "raised"}
      => AllFinished

\* A worker that will not run a target any more.
Quiet(w) ==
    \/ wpc[w] = "dead"
    \/ /\ wpc[w] # "run"
       /\ \A i \in 1..Len(tq[w]) : tq[w][i] \notin Task

\* In __exit__ without an interrupt, or with one that did not cut the handler
\* short, and after it, workers are quiet.
Leaving ==
    /\ ppc \in {"stop", "xjoin"} /\ interrupts < 2 => \A w \in Worker : Quiet(w)
    /\ ppc = "done" /\ interrupts < 3 => \A w \in Worker : Quiet(w)
    /\ ppc \in {"hjoin", "xjoin"} => \A w \in Worker : w < idx => wpc[w] = "dead"
    /\ outcome # "none" => ppc = "done"
    /\ outcome \in {"returned", "raised"} =>
         /\ \A w \in Worker : wpc[w] = "dead"
         /\ outcome = "returned" <=> errors = << >>

PoolInv == /\ TypeOK /\ Interrupted /\ NonePending /\ Booting /\ Looping
           /\ Ended /\ Leaving

-----------------------------------------------------------------------------
(***************************************************************************)
(* Facts about sequences and about the constants.                          *)
(***************************************************************************)
\* What Append, Tail and dropping the last element do to the elements.
LEMMA AppendFact ==
    ASSUME NEW S, NEW s \in Seq(S), NEW e \in S
    PROVE  /\ Append(s, e) \in Seq(S) /\ Len(Append(s, e)) = Len(s) + 1
           /\ \A i \in 1..Len(s) : Append(s, e)[i] = s[i]
           /\ Append(s, e)[Len(s) + 1] = e
OBVIOUS

\* What Get leaves of a queue.
LEMMA TailFact ==
    ASSUME NEW S, NEW s \in Seq(S), s # << >>
    PROVE  /\ Head(s) \in S /\ Head(s) = s[1]
           /\ Tail(s) \in Seq(S) /\ Len(s) > 0 /\ Len(Tail(s)) = Len(s) - 1
           /\ \A i \in 1..Len(s) - 1 : Tail(s)[i] = s[i + 1]
OBVIOUS

\* What StartTask leaves of the stack of free workers.
LEMMA FrontFact ==
    ASSUME NEW S, NEW s \in Seq(S), s # << >>
    PROVE  /\ SubSeq(s, 1, Len(s) - 1) \in Seq(S)
           /\ Len(s) > 0 /\ Len(SubSeq(s, 1, Len(s) - 1)) = Len(s) - 1
           /\ \A i \in 1..Len(s) - 1 : SubSeq(s, 1, Len(s) - 1)[i] = s[i]
<1>1. Len(s) \in Nat /\ Len(s) > 0
  OBVIOUS
<1>2. \A i \in 1..(Len(s) - 1) : s[i] \in S
  BY <1>1
<1>3. /\ SubSeq(s, 1, Len(s) - 1) \in Seq(S)
      /\ Len(SubSeq(s, 1, Len(s) - 1)) =
           IF 1 <= Len(s) - 1 THEN Len(s) - 1 - 1 + 1 ELSE 0
      /\ \A i \in 1..(Len(s) - 1 - 1 + 1) :
           SubSeq(s, 1, Len(s) - 1)[i] = s[1 + i - 1]
  <2>1. 1 \in Int /\ Len(s) - 1 \in Int
    BY <1>1
  <2> QED
    BY <1>2, <2>1, SubSeqProperties
<1>4. ASSUME NEW i \in 1..(Len(s) - 1)
      PROVE  SubSeq(s, 1, Len(s) - 1)[i] = s[i]
  BY <1>1, <1>3
<1>5. Len(SubSeq(s, 1, Len(s) - 1)) = Len(s) - 1
  <2>1. \A n \in Nat : n > 0 => n - 1 = IF 1 <= n - 1 THEN n - 1 - 1 + 1 ELSE 0
    OBVIOUS
  <2> QED
    BY <1>1, <1>3, <2>1
<1>6. SubSeq(s, 1, Len(s) - 1) \in Seq(S)
  BY <1>3
<1> QED
  BY <1>1, <1>4, <1>5, <1>6, Zenon

\* A queue with one item.
LEMMA SingleFact ==
    ASSUME NEW S, NEW s \in Seq(S), s # << >>, Len(s) <= 1
    PROVE  Len(s) = 1 /\ Head(s) = s[1] /\ Tail(s) = << >>
<1>1. Len(s) \in Nat /\ Len(s) > 0 /\ Head(s) = s[1]
  BY TailFact
<1>2. Len(s) = 1
  <2>1. \A n \in Nat : n > 0 /\ n <= 1 => n = 1
    OBVIOUS
  <2> QED
    BY <1>1, <2>1
<1>3. Len(Tail(s)) = 0 /\ Tail(s) \in Seq(S)
  BY <1>2, TailFact
<1>4. Tail(s) = << >>
  BY <1>3, EmptySeq
<1> QED
  BY <1>1, <1>2, <1>4

\* There is a worker per unit of concurrency, and no more workers than tasks.
LEMMA SizesFact ==
    /\ NumTasks \in Nat /\ Concurrency \in Nat /\ Concurrency <= NumTasks
    /\ MaxInterrupts \in Nat
    /\ IsFiniteSet(Worker) /\ Cardinality(Worker) = Concurrency
    /\ NoWorker \notin Worker
    /\ Worker \subseteq Nat /\ Task \subseteq Message /\ NoTask \notin Task
    /\ StopProcessing \in Message \ Task /\ WaitForInterrupt \in Message \ Task
<1>1. /\ NumTasks \in Nat /\ Concurrency \in Nat /\ Concurrency <= NumTasks
      /\ MaxInterrupts \in Nat
  BY PoolAssumption DEF Concurrency
<1>2. IsFiniteSet(Worker) /\ Cardinality(Worker) = Concurrency
  <2>1. Concurrency - 1 \in Int /\ 0 \in Int
    BY <1>1
  <2>2. /\ IsFiniteSet(0..(Concurrency - 1))
        /\ Cardinality(0..(Concurrency - 1)) =
             IF 0 > Concurrency - 1 THEN 0 ELSE Concurrency - 1 - 0 + 1
    BY <2>1, FS_Interval
  <2> QED
    BY <1>1, <2>2 DEF Worker
<1> QED
  BY <1>1, <1>2 DEF Worker, NoWorker, Task, NoTask, Message, StopProcessing,
                    WaitForInterrupt

-----------------------------------------------------------------------------
(***************************************************************************)
(* Types.                                                                  *)
(***************************************************************************)
\* The types hold before the call.
LEMMA TypeInit == Init => TypeOK
<1> SUFFICES ASSUME Init PROVE TypeOK
  OBVIOUS
<1>1. avail \in Seq(Worker)
  BY SizesFact DEF Init, Worker
<1>2. /\ tq \in [Worker -> Seq(Message)] /\ sig \in [Worker -> BOOLEAN]
      /\ ki \in [Worker -> BOOLEAN]
  BY DEF Init
<1>3. /\ resp \in Seq(Worker \X (Task \cup {NoTask}))
      /\ wpc \in [Worker -> WorkerPc]
      /\ cur \in [Worker -> Task \cup {NoTask}]
      /\ state \in [Task -> TaskState]
  BY DEF Init, WorkerPc, TaskState
<1>4. ppc \in ParentPc /\ errors \in Seq(Task)
  BY DEF Init, ParentPc
<1>5. raising \in BOOLEAN
  BY DEF Init
<1> QED
  BY <1>1, <1>2, <1>3, <1>4, <1>5, SizesFact DEF Init, TypeOK

\* A `for` over the workers looks at one of them.
LEMMA InLoopFact ==
    ASSUME TypeOK, NEW p, InLoop(p)
    PROVE  ppc = p /\ idx \in Worker /\ idx' = idx + 1 /\ idx' \in 0..Concurrency
BY SizesFact DEF InLoop, TypeOK, Worker

\* The steps of the parent keep the types.
LEMMA ParentTypes == TypeOK /\ Parent => TypeOK'
<1> SUFFICES ASSUME TypeOK, Parent PROVE TypeOK'
  OBVIOUS
<1> USE SizesFact
<1>1. CASE PutRelease
  BY <1>1 DEF PutRelease, TypeOK
<1>2. CASE StartThread
  BY <1>2, InLoopFact DEF StartThread, TypeOK, WorkerPc
<1>3. CASE AwaitBoot
  BY <1>3 DEF AwaitBoot, InLoop, TypeOK
<1>4. CASE EnterTry
  BY <1>4 DEF EnterTry, TypeOK, ParentPc
<1>5. CASE StartTask
  <2>1. avail[Len(avail)] \in Worker /\ avail' \in Seq(Worker)
    <3>1. avail \in Seq(Worker) /\ avail # << >>
      BY <1>5 DEF StartTask, TypeOK
    <3>2. avail' = SubSeq(avail, 1, Len(avail) - 1)
      BY <1>5 DEF StartTask
    <3>3. avail[Len(avail)] \in Worker
      BY <3>1
    <3> QED
      BY <3>1, <3>2, <3>3, FrontFact
  <2>2. started + 1 \in Task /\ started + 1 \in Message
    BY <1>5 DEF StartTask, TypeOK, Task
  <2>3. tq' \in [Worker -> Seq(Message)] /\ unsig' \in Worker
    <3> DEFINE w == avail[Len(avail)]
    <3>1. tq' = [tq EXCEPT ![w] = Append(tq[w], started + 1)] /\ unsig' = w
      BY <1>5 DEF StartTask, PutAppend
    <3>2. w \in Worker
      BY <2>1
    <3> HIDE DEF w
    <3>3. tq \in [Worker -> Seq(Message)]
      BY DEF TypeOK
    <3>4. Append(tq[w], started + 1) \in Seq(Message)
      BY <2>2, <3>2, <3>3, AppendFact
    <3> QED
      BY <3>1, <3>2, <3>3, <3>4
  <2>4. state' \in [Task -> TaskState]
    BY <1>5 DEF StartTask, TypeOK, TaskState
  <2>5. started' \in 0..NumTasks /\ active' \in 0..Concurrency
    BY <1>5 DEF StartTask, TypeOK
  <2> QED
    BY <1>5, <2>1, <2>3, <2>4, <2>5 DEF StartTask, TypeOK
<1>6. CASE AwaitAnyTask
  <2>1. /\ Head(resp) \in Worker \X (Task \cup {NoTask})
        /\ resp' \in Seq(Worker \X (Task \cup {NoTask}))
    BY <1>6, TailFact DEF AwaitAnyTask, TypeOK
  <2>2. avail' \in Seq(Worker)
    <3>1. avail' = Append(avail, Head(resp)[1]) /\ Head(resp)[1] \in Worker
      BY <1>6, <2>1 DEF AwaitAnyTask
    <3> QED
      BY <3>1, AppendFact DEF TypeOK
  <2>3. errors' \in Seq(Task)
    <3>1. errors' = errors \/ (/\ Head(resp)[2] \in Task
                               /\ errors' = Append(errors, Head(resp)[2]))
      <4>1. Head(resp)[2] \in Failed => Head(resp)[2] \in Task
        BY DEF Failed
      <4> QED
        BY <1>6, <4>1 DEF AwaitAnyTask
    <3>2. CASE errors' = errors
      BY <3>2 DEF TypeOK
    <3>3. CASE /\ Head(resp)[2] \in Task
               /\ errors' = Append(errors, Head(resp)[2])
      BY <3>3, AppendFact DEF TypeOK
    <3> QED
      BY <3>1, <3>2, <3>3
  <2>4. active' \in 0..Concurrency
    BY <1>6 DEF AwaitAnyTask, TypeOK
  <2> QED
    BY <1>6, <2>1, <2>2, <2>3, <2>4 DEF AwaitAnyTask, TypeOK
<1>7. CASE LeaveLoop
  BY <1>7 DEF LeaveLoop, TypeOK, ParentPc
<1>8. CASE SetAsyncExc
  <2>1. ki' \in [Worker -> BOOLEAN]
    BY <1>8 DEF SetAsyncExc, TypeOK
  <2> QED
    BY <1>8, <2>1, InLoopFact DEF SetAsyncExc, TypeOK
<1>9. CASE WakeWorker
  BY <1>9 DEF WakeWorker, InLoop, PutAppend, TypeOK, Worker
<1>10. CASE StopWorker
  BY <1>10 DEF StopWorker, InLoop, PutAppend, TypeOK, Worker
<1>11. CASE JoinWorker
  BY <1>11 DEF JoinWorker, InLoop, TypeOK
<1>12. CASE Finish
  BY <1>12 DEF Finish, TypeOK, ParentPc
<1>13. ASSUME NEW p \in ParentPc, NEW q \in ParentPc, Advance(p, q) PROVE TypeOK'
  BY <1>13 DEF Advance, TypeOK, ParentPc
<1> QED
  BY <1>1, <1>2, <1>3, <1>4, <1>5, <1>6, <1>7, <1>8, <1>9, <1>10, <1>11, <1>12,
     <1>13 DEF Parent, ParentPc

\* So do interrupts and the workers.
LEMMA InterruptTypes == TypeOK /\ Interrupt => TypeOK'
<1> SUFFICES ASSUME TypeOK, NEW p \in ParentPc, InterruptTo(p) PROVE TypeOK'
  BY DEF Interrupt, InterruptEscapes, InterruptToExit, InterruptToHandler,
     ParentPc
<1> QED
  BY SizesFact DEF InterruptTo, TypeOK, ParentPc

\* A worker's step, and its death of an interrupt, keep the types.
LEMMA WorkerTypes ==
    ASSUME TypeOK, NEW w \in Worker, WorkerStep(w) \/ Die(w)
    PROVE  TypeOK'
<1> USE SizesFact
<1>1. CASE Boot(w)
  BY <1>1 DEF Boot, Booted, TypeOK, parent, WorkerPc
<1>2. CASE GetMessage(w)
  <2>1. CASE tq[w] = << >>
    BY <1>2, <2>1 DEF GetMessage, TypeOK, parent
  <2>2. CASE tq[w] # << >>
    <3>1. Head(tq[w]) \in Message /\ Tail(tq[w]) \in Seq(Message)
      BY <2>2 DEF TypeOK
    <3>2. /\ tq' \in [Worker -> Seq(Message)]
          /\ cur' \in [Worker -> Task \cup {NoTask}]
      BY <1>2, <2>2, <3>1 DEF GetMessage, TypeOK
    <3>3. sig' \in [Worker -> BOOLEAN]
      <4>1. sig' = [sig EXCEPT ![w] = Len(tq[w]) > 1]
        BY <1>2, <2>2 DEF GetMessage
      <4>2. (Len(tq[w]) > 1) \in BOOLEAN
        OBVIOUS
      <4> QED
        BY <4>1, <4>2, Zenon DEF TypeOK
    <3>4. wpc' \in [Worker -> WorkerPc]
      <4>1. \E p \in {"dead", "spin", "run"} : wpc' = [wpc EXCEPT ![w] = p]
        BY <1>2, <2>2 DEF GetMessage
      <4> QED
        BY <4>1 DEF TypeOK, WorkerPc
    <3>5. state' \in [Task -> TaskState]
      BY <1>2, <2>2 DEF GetMessage, TypeOK, TaskState
    <3> QED
      BY <1>2, <3>2, <3>3, <3>4, <3>5 DEF GetMessage, TypeOK, parent
  <2> QED
    BY <2>1, <2>2
<1>3. CASE Respond(w)
  BY <1>3 DEF Respond, TypeOK, parent, WorkerPc
<1>4. CASE AbsorbInterrupt(w)
  BY <1>4 DEF AbsorbInterrupt, TypeOK, parent, WorkerPc, TaskState
<1>5. CASE \E result \in {"ok", "failed"} : RunTask(w, result)
  BY <1>5 DEF RunTask, TypeOK, parent, WorkerPc, TaskState
<1>6. CASE Die(w)
  BY <1>6 DEF Die, TypeOK, parent, WorkerPc, TaskState
<1> QED
  BY <1>1, <1>2, <1>3, <1>4, <1>5, <1>6 DEF WorkerStep

\* Every step keeps the types.
LEMMA TypeStep == TypeOK /\ [Next]_vars => TypeOK'
<1> SUFFICES ASSUME TypeOK, [Next]_vars PROVE TypeOK'
  OBVIOUS
<1>1. CASE UNCHANGED vars
  BY <1>1 DEF vars, TypeOK
<1> QED
  BY <1>1, ParentTypes, InterruptTypes, WorkerTypes DEF Next

\* The parent, the workers and the queues of RunParallelThreads keep their
\* types: in particular a response names a worker and, once read, leaves
\* active_task_count at or above zero.
THEOREM TypeCorrect == Spec => []TypeOK
BY TypeInit, TypeStep, PTL DEF Spec

-----------------------------------------------------------------------------
(***************************************************************************)
(* Interrupts.                                                             *)
(***************************************************************************)
\* Every step keeps the relation of interrupts and the parent's place.
LEMMA InterruptedStep == TypeOK /\ Interrupted /\ [Next]_vars => Interrupted'
<1> SUFFICES ASSUME TypeOK, Interrupted, [Next]_vars PROVE Interrupted'
  OBVIOUS
<1>1. interrupts \in Nat /\ raising \in BOOLEAN /\ ppc \in ParentPc
  BY SizesFact DEF TypeOK
<1>2. CASE UNCHANGED <<ppc, raising, interrupts>>
  BY <1>2 DEF Interrupted
<1>3. CASE Parent
  <2>1. raising' = raising /\ interrupts' = interrupts
    BY <1>3 DEF Parent, PutRelease, StartThread, AwaitBoot, EnterTry, StartTask,
         AwaitAnyTask, LeaveLoop, SetAsyncExc, WakeWorker, StopWorker,
         JoinWorker, Finish, Advance
  <2>2. \/ ppc' = ppc
        \/ ppc' = "done"
        \/ <<ppc, ppc'>> \in
             {<<"start", "boot">>, <<"boot", "enter">>, <<"enter", "loop">>,
              <<"loop", "stop">>, <<"setexc", "wake">>, <<"wake", "hjoin">>,
              <<"hjoin", "stop">>, <<"stop", "xjoin">>}
    BY <1>3 DEF Parent, PutRelease, StartThread, AwaitBoot, EnterTry, StartTask,
         AwaitAnyTask, LeaveLoop, SetAsyncExc, WakeWorker, StopWorker,
         JoinWorker, Finish, Advance
  <2> QED
    BY <1>1, <2>1, <2>2 DEF Interrupted
<1>4. CASE InterruptEscapes
  BY <1>1, <1>4 DEF InterruptEscapes, InterruptTo, Interrupted
<1>5. CASE InterruptToExit
  BY <1>1, <1>5 DEF InterruptToExit, InterruptTo, Interrupted
<1>6. CASE InterruptToHandler
  BY <1>1, <1>6 DEF InterruptToHandler, InterruptTo, Interrupted
<1>7. ASSUME NEW w \in Worker, WorkerStep(w) \/ Die(w)
      PROVE  UNCHANGED <<ppc, raising, interrupts>>
  BY <1>7 DEF WorkerStep, Boot, GetMessage, Respond, AbsorbInterrupt, RunTask,
       Die, parent
<1> QED
  BY <1>2, <1>3, <1>4, <1>5, <1>6, <1>7 DEF Next, Interrupt, vars

\* The third KeyboardInterrupt always leaves RunParallelThreads: the first one
\* can only start the handler or __exit__, the second can only cut the handler
\* short, and one in __exit__ escapes.
THEOREM ThirdInterruptSound == Spec => []ThirdInterruptFrees
<1>1. Init => Interrupted
  BY DEF Init, Interrupted
<1>2. TypeOK /\ Interrupted => ThirdInterruptFrees
  BY SizesFact DEF TypeOK, ParentPc, Interrupted, ThirdInterruptFrees
<1> QED
  BY <1>1, <1>2, TypeCorrect, InterruptedStep, PTL DEF Spec

-----------------------------------------------------------------------------
(***************************************************************************)
(* Starting the workers.                                                   *)
(***************************************************************************)
\* What no step of the parent and no interrupt touches.
LEMMA ParentLeaves ==
    /\ Parent => cur' = cur
    /\ Parent /\ ~StartThread => wpc' = wpc
    /\ Parent /\ ~SetAsyncExc => ki' = ki
    /\ Parent /\ ~StartTask => state' = state /\ started' = started
    /\ Interrupt => UNCHANGED <<started, active, avail, errors, tq, sig, resp,
                                wpc, cur, ki, state>>
<1>1. /\ Parent => cur' = cur
      /\ Parent /\ ~StartThread => wpc' = wpc
      /\ Parent /\ ~SetAsyncExc => ki' = ki
      /\ Parent /\ ~StartTask => state' = state /\ started' = started
  BY DEF Parent, PutRelease, StartThread, AwaitBoot, EnterTry, StartTask,
       AwaitAnyTask, LeaveLoop, SetAsyncExc, WakeWorker, StopWorker,
       JoinWorker, Finish, Advance
<1>2. Interrupt => UNCHANGED <<started, active, avail, errors, tq, sig, resp,
                               wpc, cur, ki, state>>
  BY DEF Interrupt, InterruptEscapes, InterruptToExit, InterruptToHandler,
       InterruptTo
<1> QED
  BY <1>1, <1>2

\* No worker has an interrupt pending before the handler sends one.
LEMMA NonePendingStep ==
    TypeOK /\ Interrupted /\ NonePending /\ [Next]_vars => NonePending'
<1> SUFFICES ASSUME TypeOK, Interrupted, NonePending, [Next]_vars PROVE NonePending'
  OBVIOUS
<1>1. CASE UNCHANGED vars
  BY <1>1 DEF vars, NonePending
<1>2. CASE SetAsyncExc
  BY <1>2 DEF SetAsyncExc, InLoop, Interrupted, NonePending
<1>3. CASE Parent /\ ~SetAsyncExc
  <2>1. raising' = raising
    BY <1>3 DEF Parent, PutRelease, StartThread, AwaitBoot, EnterTry, StartTask,
         AwaitAnyTask, LeaveLoop, WakeWorker, StopWorker, JoinWorker, Finish,
         Advance
  <2> QED
    BY <1>3, <2>1, ParentLeaves DEF NonePending
<1>4. CASE Interrupt
  BY <1>4 DEF Interrupt, InterruptEscapes, InterruptToExit, InterruptToHandler,
       InterruptTo, NonePending
<1>5. ASSUME NEW w \in Worker, WorkerStep(w) \/ Die(w) PROVE NonePending'
  <2>1. raising' = raising
    BY <1>5 DEF WorkerStep, Boot, GetMessage, Respond, AbsorbInterrupt, RunTask,
         Die, parent
  <2>2. ki' = ki \/ ki' = [ki EXCEPT ![w] = FALSE]
    BY <1>5 DEF WorkerStep, Boot, GetMessage, Respond, AbsorbInterrupt, RunTask,
         Die, parent
  <2> QED
    BY <2>1, <2>2 DEF NonePending, TypeOK
<1> QED
  BY <1>1, <1>2, <1>3, <1>4, <1>5 DEF Next

\* Before the loop a worker can only report or wait for its queue.
LEMMA EarlyWorker ==
    ASSUME TypeOK, Interrupted, NonePending, NothingStarted,
           ppc \in {"start", "boot", "enter"},
           NEW w \in Worker, WorkerStep(w) \/ Die(w)
    PROVE  \/ Boot(w)
           \/ UNCHANGED <<parent, tq, resp, wpc, cur, ki, state>>
<1>1. tq[w] = << >> /\ wpc[w] \in {"unborn", "boot", "get"} /\ ~ki[w]
  BY DEF NothingStarted, Interrupted, NonePending
<1> QED
  BY <1>1 DEF WorkerStep, GetMessage, Respond, AbsorbInterrupt, RunTask, Die

\* The reports are counted: one that is put into the response queue is one
\* worker less that has still to report.
LEMMA BootCounted ==
    ASSUME TypeOK, NEW w \in Worker, Boot(w)
    PROVE  /\ Unreported' = Unreported \ {w} /\ w \in Unreported
           /\ Cardinality(Unreported') + Len(resp') =
                Cardinality(Unreported) + Len(resp)
           /\ UNCHANGED <<parent, tq, sig, cur, ki, state>>
           /\ wpc' = [wpc EXCEPT ![w] = "get"]
<1>1. wpc' = [wpc EXCEPT ![w] = "get"] /\ wpc[w] = "boot"
  BY DEF Boot
<1>2. Unreported' = Unreported \ {w} /\ w \in Unreported
  BY <1>1 DEF Unreported, TypeOK
<1>3. IsFiniteSet(Unreported) /\ Cardinality(Unreported) \in Nat
  <2>1. Unreported \in SUBSET Worker
    BY DEF Unreported
  <2> QED
    BY <2>1, SizesFact, FS_Subset, FS_CardinalityType
<1>4. Cardinality(Unreported') = Cardinality(Unreported) - 1
  BY <1>2, <1>3, FS_RemoveElement
<1>5. Len(resp') = Len(resp) + 1 /\ Len(resp) \in Nat
  <2>1. resp' = Append(resp, <<w, NoTask>>)
    BY DEF Boot, Booted
  <2>2. <<w, NoTask>> \in Worker \X (Task \cup {NoTask})
    OBVIOUS
  <2> QED
    BY <2>1, <2>2, AppendFact DEF TypeOK
<1> QED
  BY <1>1, <1>2, <1>3, <1>4, <1>5 DEF Boot

\* Every step keeps what is known while the workers are started.
LEMMA BootingStep ==
    TypeOK /\ Interrupted /\ NonePending /\ Booting /\ [Next]_vars => Booting'
<1> SUFFICES ASSUME TypeOK, Interrupted, NonePending, Booting, [Next]_vars
             PROVE  Booting'
  OBVIOUS
<1>0. IsFiniteSet(Unreported) /\ Cardinality(Unreported) \in Nat
  <2>1. Unreported \in SUBSET Worker
    BY DEF Unreported
  <2> QED
    BY <2>1, SizesFact, FS_Subset, FS_CardinalityType
<1>1. CASE UNCHANGED vars
  BY <1>1 DEF vars, Booting, NothingStarted, Unreported
<1>2. CASE StartThread
  <2>1. /\ ppc = "start" /\ ppc' = "start" /\ idx \in Worker /\ idx' = idx + 1
        /\ wpc' = [wpc EXCEPT ![idx] = "boot"]
        /\ UNCHANGED <<started, active, errors, avail, tq, cur, state, resp>>
    BY <1>2, InLoopFact DEF StartThread
  <2>2. wpc[idx] = "unborn" /\ \A w \in Worker : wpc[w] = "unborn" <=> w >= idx
    BY <2>1, SizesFact DEF Booting
  <2>3. \A w \in Worker : wpc'[w] = "unborn" <=> w >= idx'
    BY <2>1, <2>2, SizesFact DEF TypeOK
  <2>4. Unreported' = Unreported
    BY <2>1, <2>2 DEF Unreported, TypeOK
  <2>5. NothingStarted'
    BY <2>1 DEF Booting, NothingStarted, TypeOK
  <2> QED
    BY <2>1, <2>3, <2>4, <2>5 DEF Booting
<1>3. CASE AwaitBoot
  <2>1. /\ ppc = "boot" /\ ppc' = "boot" /\ idx' = idx + 1
        /\ UNCHANGED <<started, active, errors, avail, tq, cur, state, wpc>>
    BY <1>3, InLoopFact DEF AwaitBoot
  <2>2. Len(resp') = Len(resp) - 1 /\ Len(resp) \in Nat
    BY <1>3, TailFact DEF AwaitBoot, TypeOK
  <2>3. Unreported' = Unreported
    BY <2>1 DEF Unreported
  <2>4. NothingStarted'
    BY <2>1 DEF Booting, NothingStarted
  <2>5. idx \in Nat
    BY SizesFact DEF TypeOK
  <2> QED
    BY <1>0, <2>1, <2>2, <2>3, <2>4, <2>5 DEF Booting
<1>4. CASE Advance("start", "boot")
  <2>1. /\ ppc = "start" /\ ppc' = "boot" /\ idx = Concurrency /\ idx' = 0
        /\ UNCHANGED <<started, active, errors, avail, tq, cur, state, wpc, resp>>
    BY <1>4 DEF Advance
  <2>2. \A w \in Worker : wpc[w] # "unborn"
    BY <2>1, SizesFact DEF Booting, Worker
  <2>3. Unreported' = Unreported /\ NothingStarted'
    BY <2>1 DEF Unreported, Booting, NothingStarted
  <2>4. Len(resp) \in Nat
    BY DEF TypeOK
  <2> QED
    BY <1>0, <2>1, <2>2, <2>3, <2>4, SizesFact DEF Booting
<1>5. CASE Advance("boot", "enter")
  <2>1. /\ ppc = "boot" /\ ppc' = "enter" /\ idx = Concurrency
        /\ UNCHANGED <<started, active, errors, avail, tq, cur, state, wpc, resp>>
    BY <1>5 DEF Advance
  <2>2. Cardinality(Unreported) = 0 /\ Len(resp) = 0
    <3>1. Cardinality(Unreported) + Len(resp) + Concurrency = Concurrency
      BY <2>1 DEF Booting
    <3>2. Len(resp) \in Nat
      BY DEF TypeOK
    <3> QED
      BY <1>0, <3>1, <3>2, SizesFact
  <2>3. Unreported = {} /\ resp = << >>
    BY <1>0, <2>2, FS_EmptySet DEF TypeOK
  <2>4. Unreported' = Unreported /\ NothingStarted'
    BY <2>1 DEF Unreported, Booting, NothingStarted
  <2> QED
    BY <2>1, <2>3, <2>4 DEF Booting
<1>6. CASE Parent /\ ppc \in {"start", "boot"} /\ PutRelease
  BY <1>6 DEF PutRelease, Booting, NothingStarted, Unreported
<1>7. CASE Parent /\ ~(ppc \in {"start", "boot"})
  <2>1. wpc' = wpc
    BY <1>7, ParentLeaves DEF StartThread, InLoop
  <2>2. Unreported' = Unreported
    BY <2>1 DEF Unreported
  <2>3. CASE ppc = "enter" /\ ppc' = "enter"
    <3>1. UNCHANGED <<started, active, errors, avail, tq, cur, state, wpc, resp>>
      BY <1>7, <2>3 DEF Parent, PutRelease, StartThread, AwaitBoot, EnterTry,
           StartTask, AwaitAnyTask, LeaveLoop, SetAsyncExc, WakeWorker,
           StopWorker, JoinWorker, InLoop, Finish, Advance
    <3> QED
      BY <2>2, <2>3, <3>1 DEF Booting, NothingStarted
  <2>4. CASE ~(ppc = "enter" /\ ppc' = "enter")
    <3>1. ppc' \notin {"start", "boot", "enter"} /\ (ppc = "done" => ppc' = "done")
      BY <1>7, <2>4 DEF Parent, PutRelease, StartThread, AwaitBoot, EnterTry,
           StartTask, AwaitAnyTask, LeaveLoop, SetAsyncExc, WakeWorker,
           StopWorker, JoinWorker, InLoop, Finish, Advance
    <3> QED
      BY <1>7, <2>2, <3>1 DEF Booting
  <2> QED
    BY <2>3, <2>4
<1>8. CASE Interrupt
  <2>1. Unreported' = Unreported
    BY <1>8, ParentLeaves DEF Unreported
  <2>2. /\ ppc' \in {"done", "stop", "setexc"}
        /\ ppc' # "done" => ppc \notin {"start", "boot", "done"}
    BY <1>8 DEF Interrupt, InterruptEscapes, InterruptToExit,
         InterruptToHandler, InterruptTo
  <2> QED
    BY <2>1, <2>2 DEF Booting
<1>9. ASSUME NEW w \in Worker, WorkerStep(w) \/ Die(w) PROVE Booting'
  <2>1. ppc' = ppc /\ idx' = idx
    BY <1>9 DEF WorkerStep, Boot, GetMessage, Respond, AbsorbInterrupt, RunTask,
         Die, parent
  <2>2. CASE ppc \in {"start", "boot", "enter"}
    <3>1. CASE Boot(w)
      <4>1. ppc # "enter"
        BY <3>1, BootCounted DEF Booting
      <4>2. NothingStarted'
        BY <2>2, <3>1, BootCounted DEF Booting, NothingStarted, parent, TypeOK
      <4>3. \A v \in Worker : wpc'[v] = "unborn" <=> wpc[v] = "unborn"
        BY <3>1 DEF Boot, TypeOK
      <4>4. Len(resp) \in Nat /\ Len(resp') \in Nat /\ idx \in Nat
        BY <3>1, SizesFact DEF TypeOK, Boot, Booted
      <4>5. Cardinality(Unreported') + Len(resp') =
                Cardinality(Unreported) + Len(resp)
        BY <3>1, BootCounted
      <4> QED
        BY <2>1, <2>2, <4>1, <4>2, <4>3, <4>4, <4>5 DEF Booting
    <3>2. CASE UNCHANGED <<parent, tq, resp, wpc, cur, ki, state>>
      BY <2>2, <3>2 DEF parent, Booting, NothingStarted, Unreported
    <3> QED
      BY <1>9, <2>2, <3>1, <3>2, EarlyWorker DEF Booting
  <2>3. CASE ppc = "done"
    BY <2>1, <2>3 DEF Booting
  <2>4. CASE ppc \notin {"start", "boot", "enter", "done"}
    <3>1. wpc[w] \notin {"unborn", "boot"}
      BY <2>4 DEF Booting, Unreported
    <3>2. Unreported' = {}
      <4>1. \A v \in Worker : wpc[v] \notin {"unborn", "boot"}
        BY <2>4 DEF Booting, Unreported
      <4>2. \/ wpc' = wpc
            \/ \E p \in {"get", "run", "put", "spin", "dead"} :
                 wpc' = [wpc EXCEPT ![w] = p]
        BY <1>9, <3>1 DEF WorkerStep, Boot, GetMessage, Respond,
             AbsorbInterrupt, RunTask, Die
      <4> QED
        BY <4>1, <4>2 DEF Unreported, TypeOK
    <3> QED
      BY <2>1, <2>4, <3>2 DEF Booting
  <2> QED
    BY <2>2, <2>3, <2>4
<1>10. Parent /\ ppc \in {"start", "boot"} =>
         \/ StartThread \/ AwaitBoot \/ PutRelease
         \/ Advance("start", "boot") \/ Advance("boot", "enter")
  BY DEF Parent, EnterTry, StartTask, AwaitAnyTask, LeaveLoop, SetAsyncExc,
       WakeWorker, StopWorker, JoinWorker, InLoop, Finish, Advance
<1> QED
  BY <1>1, <1>2, <1>3, <1>4, <1>5, <1>6, <1>7, <1>8, <1>9, <1>10 DEF Next

-----------------------------------------------------------------------------
(***************************************************************************)
(* The loop.                                                               *)
(***************************************************************************)
InLoopInv == Held /\ Placed /\ Apart /\ Listed

\* When the `try` is entered, every worker is on the stack and no task is
\* anywhere.
LEMMA EnterLoop ==
    ASSUME TypeOK, Booting, EnterTry
    PROVE  InLoopInv'
<1>1. /\ NothingStarted /\ resp = << >> /\ Unreported = {}
      /\ UNCHANGED <<started, active, avail, errors, tq, resp, wpc, cur, state>>
  BY DEF EnterTry, Booting
<1>2. /\ started = 0 /\ active = 0 /\ errors = << >> /\ Len(errors) = 0
      /\ Len(resp) = 0
      /\ \A w \in Worker : tq[w] = << >> /\ cur[w] = NoTask /\ wpc[w] = "get"
      /\ \A t \in Task : state[t] = "new"
  BY <1>1 DEF NothingStarted, Unreported
<1>3. Len(avail) = Concurrency /\ \A i \in 1..Concurrency : avail[i] = i - 1
  BY <1>1, SizesFact DEF NothingStarted
<1>4. Held
  <2>1. ASSUME NEW w \in Worker PROVE OnStack(w)
    <3>1. w + 1 \in 1..Len(avail) /\ avail[w + 1] = w
      BY <1>3, SizesFact DEF Worker
    <3> QED
      BY <3>1 DEF OnStack
  <2>2. \A w \in Worker : ~Responded(w)
    BY <1>2 DEF Responded
  <2>3. \A w \in Worker : Len(tq[w]) <= 1
    BY <1>2
  <2>4. \A w \in Worker : OneThing(w)
    BY <1>2, <2>1, <2>2, <2>3 DEF OneThing
  <2>5. \A i, j \in 1..Len(avail) : avail[i] = avail[j] => i = j
    BY <1>3, SizesFact
  <2>6. \A i, j \in 1..Len(resp) : resp[i][1] = resp[j][1] => i = j
    BY <1>2
  <2>7. active + Len(avail) = Concurrency
    BY <1>2, <1>3, SizesFact
  <2> QED
    BY <2>4, <2>5, <2>6, <2>7, Zenon DEF Held
<1>5. Placed
  BY <1>2 DEF Placed, Task
<1>6. Apart
  BY <1>2 DEF Apart
<1>7. Listed
  BY <1>2 DEF Listed, Failed
<1> QED
  BY <1>1, <1>4, <1>5, <1>6, <1>7
     DEF InLoopInv, Held, OneThing, Placed, Apart, Listed, OnStack,
         Responded, OnTheWay, Failed

\* StartTask takes the worker on top of the stack, who has nothing to do.
LEMMA StartTaskLoop ==
    ASSUME TypeOK, InLoopInv, StartTask
    PROVE  InLoopInv'
<1> DEFINE w0 == avail[Len(avail)]
           t0 == started + 1
<1>1. /\ avail \in Seq(Worker) /\ avail # << >> /\ Len(avail) \in Nat /\ Len(avail) > 0
      /\ w0 \in Worker
      /\ Len(avail') = Len(avail) - 1
      /\ \A i \in 1..Len(avail) - 1 : avail'[i] = avail[i]
  <2>1. avail \in Seq(Worker) /\ avail # << >>
    BY DEF StartTask, TypeOK
  <2>2. avail' = SubSeq(avail, 1, Len(avail) - 1)
    BY DEF StartTask
  <2>3. w0 \in Worker
    BY <2>1
  <2> QED
    BY <2>1, <2>2, <2>3, FrontFact
<1>2. t0 \in Task /\ started \in Nat /\ active \in Nat
  BY SizesFact DEF StartTask, TypeOK, Task
<1>3. /\ OnStack(w0)
      /\ \A w \in Worker : OnStack(w)' <=> OnStack(w) /\ w # w0
  <2>1. OnStack(w0)
    BY <1>1 DEF OnStack
  <2>2. ASSUME NEW w \in Worker, OnStack(w)' PROVE OnStack(w) /\ w # w0
    BY <1>1, <2>2 DEF OnStack, InLoopInv, Held
  <2>3. ASSUME NEW w \in Worker, OnStack(w), w # w0 PROVE OnStack(w)'
    BY <1>1, <2>3 DEF OnStack
  <2> QED
    BY <2>1, <2>2, <2>3
<1>4. tq[w0] = << >> /\ wpc[w0] = "get" /\ ~Responded(w0)
  BY <1>1, <1>3 DEF InLoopInv, Held, OneThing
<1>5. /\ \A w \in Worker : w # w0 => tq'[w] = tq[w]
      /\ tq'[w0] # << >> /\ Len(tq'[w0]) <= 1 /\ tq'[w0][1] = t0
  BY <1>1, <1>4 DEF StartTask, PutAppend, TypeOK
<1>6. /\ state'[t0] = "queued" /\ \A t \in Task : t # t0 => state'[t] = state[t]
      /\ started' = t0 /\ active' = active + 1
  BY <1>2 DEF StartTask, TypeOK
<1>7. UNCHANGED <<wpc, cur, resp, errors>>
  BY DEF StartTask
<1>8. \A w \in Worker : Responded(w)' <=> Responded(w)
  BY <1>7 DEF Responded
<1>9. state[t0] = "new"
  BY <1>2 DEF InLoopInv, Placed
<1> HIDE DEF w0, t0
<1>10. Held'
  <2>1. ASSUME NEW w \in Worker PROVE OneThing(w)'
    <3>1. OneThing(w)
      BY DEF InLoopInv, Held
    <3>2. CASE w = w0
      <4>1. ~OnStack(w)' /\ ~Responded(w)'
        BY <1>3, <1>4, <1>8, <3>2
      <4>2. tq'[w] # << >> /\ Len(tq'[w]) <= 1
        BY <1>5, <3>2, Zenon
      <4>3. wpc'[w] = "get" /\ cur'[w] = NoTask
        BY <1>4, <1>7, <3>1, <3>2 DEF OneThing
      <4> QED
        BY <4>1, <4>2, <4>3 DEF OneThing
    <3>3. CASE w # w0
      BY <1>3, <1>5, <1>7, <1>8, <3>1, <3>3 DEF OneThing
    <3> QED
      BY <3>2, <3>3
  <2>2. \A i, j \in 1..Len(avail') : avail'[i] = avail'[j] => i = j
    BY <1>1 DEF InLoopInv, Held
  <2>3. active' + Len(avail') = Concurrency
    BY <1>1, <1>2, <1>6 DEF InLoopInv, Held
  <2> QED
    BY <1>7, <2>1, <2>2, <2>3 DEF InLoopInv, Held
<1>11. Placed'
  <2>1. \A t \in Task : state'[t] = "new" <=> t > started'
    BY <1>2, <1>6, <1>9 DEF InLoopInv, Placed, t0, Task
  <2>2. ASSUME NEW w \in Worker
        PROVE  (/\ tq[w] # << >> => /\ tq[w][1] \in Task
                                    /\ state[tq[w][1]] = "queued"
                /\ wpc[w] = "run" => state[cur[w]] = "running"
                /\ wpc[w] = "put" => state[cur[w]] \in {"ok", "failed"})'
    <3>1. wpc[w] \in {"run", "put"} => cur[w] \in Task
      BY DEF TypeOK, InLoopInv, Held, OneThing
    <3> QED
      BY <1>2, <1>5, <1>6, <1>7, <1>9, <3>1 DEF InLoopInv, Placed
  <2>3. \A i \in 1..Len(resp') : /\ resp'[i][2] \in Task
                                 /\ state'[resp'[i][2]] \in {"ok", "failed"}
    BY <1>6, <1>7, <1>9 DEF InLoopInv, Placed
  <2>4. ASSUME NEW t \in Task
        PROVE  (/\ state[t] = "queued" =>
                     \E w \in Worker : tq[w] # << >> /\ tq[w][1] = t
                /\ state[t] = "running" => \E w \in Worker : cur[w] = t)'
    BY <1>1, <1>4, <1>5, <1>6, <1>7 DEF InLoopInv, Placed
  <2>5. \A t \in Task : state'[t] \in {"new", "queued", "running", "ok", "failed"}
    BY <1>6 DEF InLoopInv, Placed
  <2> QED
    BY <2>1, <2>2, <2>3, <2>4, <2>5 DEF Placed
<1>12. Apart'
  <2>1. ASSUME NEW w \in Worker, w # w0, tq[w] # << >> PROVE tq[w][1] # t0
    BY <1>9, <2>1 DEF InLoopInv, Placed
  <2>2. \A v, w \in Worker :
          tq'[v] # << >> /\ tq'[w] # << >> /\ tq'[v][1] = tq'[w][1] => v = w
    BY <1>5, <2>1 DEF InLoopInv, Apart
  <2> QED
    BY <1>7, <2>2 DEF InLoopInv, Apart
<1>13. Listed'
  <2>1. Failed' = Failed
    BY <1>2, <1>6, <1>9 DEF Failed
  <2>2. \A t : OnTheWay(t)' <=> OnTheWay(t)
    BY <1>7 DEF OnTheWay
  <2> QED
    BY <1>7, <2>1, <2>2 DEF InLoopInv, Listed
<1> QED
  BY <1>10, <1>11, <1>12, <1>13 DEF InLoopInv

\* AwaitAnyTask puts the worker that responded back on the stack and its
\* task's failure on the list.
LEMMA AwaitLoop ==
    ASSUME TypeOK, InLoopInv, AwaitAnyTask
    PROVE  InLoopInv'
<1> DEFINE w0 == Head(resp)[1]
           t0 == Head(resp)[2]
<1>1. /\ Len(resp) \in Nat /\ Len(resp) > 0 /\ Len(resp') = Len(resp) - 1
      /\ \A i \in 1..Len(resp) - 1 : resp'[i] = resp[i + 1]
      /\ resp[1][1] = w0 /\ resp[1][2] = t0 /\ w0 \in Worker
  <2>1. /\ resp # << >> /\ resp' = Tail(resp)
        /\ resp \in Seq(Worker \X (Task \cup {NoTask}))
    BY DEF AwaitAnyTask, TypeOK
  <2>2. /\ Head(resp) \in Worker \X (Task \cup {NoTask}) /\ Head(resp) = resp[1]
        /\ Len(resp) > 0 /\ Len(resp') = Len(resp) - 1
        /\ \A i \in 1..Len(resp) - 1 : resp'[i] = resp[i + 1]
    BY <2>1, TailFact
  <2> QED
    BY <2>1, <2>2
<1>2. t0 \in Task /\ state[t0] \in {"ok", "failed"}
  BY <1>1 DEF InLoopInv, Placed
<1>3. /\ Len(avail) \in Nat /\ Len(avail') = Len(avail) + 1
      /\ \A i \in 1..Len(avail) : avail'[i] = avail[i]
      /\ avail'[Len(avail) + 1] = w0
  <2>1. avail' = Append(avail, w0) /\ avail \in Seq(Worker)
    BY DEF AwaitAnyTask, TypeOK
  <2> QED
    BY <1>1, <2>1, AppendFact
<1>4. UNCHANGED <<started, tq, wpc, cur, state>> /\ active' = active - 1 /\ active \in Nat
  BY SizesFact DEF AwaitAnyTask, TypeOK
<1> HIDE DEF w0, t0
<1>5. Responded(w0) /\ ~OnStack(w0)
  BY <1>1 DEF Responded, InLoopInv, Held, OneThing
<1>6. ASSUME NEW w \in Worker
      PROVE  /\ OnStack(w)' <=> OnStack(w) \/ w = w0
             /\ Responded(w)' <=> Responded(w) /\ w # w0
  <2>1. OnStack(w)' <=> OnStack(w) \/ w = w0
    BY <1>3 DEF OnStack
  <2>2. ASSUME Responded(w)' PROVE Responded(w) /\ w # w0
    <3>1. PICK i \in 1..Len(resp) - 1 : resp[i + 1][1] = w
      BY <1>1, <2>2 DEF Responded
    <3>2. i + 1 \in 1..Len(resp) /\ i + 1 # 1 /\ 1 \in 1..Len(resp)
      BY <1>1, <3>1
    <3> QED
      BY <1>1, <3>1, <3>2 DEF Responded, InLoopInv, Held
  <2>3. ASSUME Responded(w), w # w0 PROVE Responded(w)'
    <3>1. PICK i \in 1..Len(resp) : resp[i][1] = w
      BY <2>3 DEF Responded
    <3>2. i - 1 \in 1..Len(resp) - 1 /\ i = (i - 1) + 1
      BY <1>1, <2>3, <3>1
    <3> QED
      BY <1>1, <3>1, <3>2 DEF Responded
  <2> QED
    BY <2>1, <2>2, <2>3
<1>7. ASSUME NEW t \in Task
      PROVE  OnTheWay(t)' <=> OnTheWay(t) /\ t # t0
  <2>1. ASSUME OnTheWay(t)' PROVE OnTheWay(t) /\ t # t0
    <3>1. CASE \E w \in Worker : cur[w] = t
      BY <1>1, <1>4, <3>1 DEF OnTheWay, InLoopInv, Apart
    <3>2. CASE \E i \in 1..Len(resp') : resp'[i][2] = t
      <4>1. PICK i \in 1..Len(resp) - 1 : resp[i + 1][2] = t
        BY <1>1, <3>2
      <4>2. i + 1 \in 1..Len(resp) /\ i + 1 # 1 /\ 1 \in 1..Len(resp)
        BY <1>1, <4>1
      <4> QED
        BY <1>1, <4>1, <4>2 DEF OnTheWay, InLoopInv, Apart
    <3> QED
      BY <1>4, <2>1, <3>1, <3>2 DEF OnTheWay
  <2>2. ASSUME OnTheWay(t), t # t0 PROVE OnTheWay(t)'
    <3>1. CASE \E w \in Worker : cur[w] = t
      BY <1>4, <3>1 DEF OnTheWay
    <3>2. CASE \E i \in 1..Len(resp) : resp[i][2] = t
      <4>1. PICK i \in 1..Len(resp) : resp[i][2] = t
        BY <3>2
      <4>2. i - 1 \in 1..Len(resp) - 1 /\ i = (i - 1) + 1
        BY <1>1, <2>2, <4>1
      <4> QED
        BY <1>1, <4>1, <4>2 DEF OnTheWay
    <3> QED
      BY <2>2, <3>1, <3>2 DEF OnTheWay
  <2> QED
    BY <2>1, <2>2
<1>8. OnTheWay(t0)
  BY <1>1 DEF OnTheWay
<1>9. Held'
  <2>1. ASSUME NEW w \in Worker PROVE OneThing(w)'
    <3>1. OneThing(w)
      BY DEF InLoopInv, Held
    <3>2. CASE w = w0
      BY <1>4, <1>5, <1>6, <3>1, <3>2 DEF OneThing
    <3>3. CASE w # w0
      BY <1>4, <1>6, <3>1, <3>3 DEF OneThing
    <3> QED
      BY <3>2, <3>3
  <2>2. \A i, j \in 1..Len(avail') : avail'[i] = avail'[j] => i = j
    <3>1. \A i \in 1..Len(avail) : avail[i] # w0
      BY <1>5 DEF OnStack
    <3> QED
      BY <1>3, <3>1 DEF InLoopInv, Held
  <2>3. \A i, j \in 1..Len(resp') : resp'[i][1] = resp'[j][1] => i = j
    <3> SUFFICES ASSUME NEW i \in 1..Len(resp) - 1, NEW j \in 1..Len(resp) - 1,
                        resp[i + 1][1] = resp[j + 1][1]
                 PROVE  i = j
      BY <1>1
    <3>1. i + 1 \in 1..Len(resp) /\ j + 1 \in 1..Len(resp)
      BY <1>1
    <3>2. i + 1 = j + 1
      BY <3>1 DEF InLoopInv, Held
    <3> QED
      BY <1>1, <3>2
  <2>4. active' + Len(avail') = Concurrency
    BY <1>3, <1>4 DEF InLoopInv, Held
  <2> QED
    BY <2>1, <2>2, <2>3, <2>4 DEF Held
<1>10. \A i \in 1..Len(resp') : i + 1 \in 1..Len(resp) /\ resp'[i] = resp[i + 1]
  BY <1>1
<1>11. Placed'
  BY <1>4, <1>10 DEF InLoopInv, Placed
<1>12. Apart'
  <2>1. \A i, j \in 1..Len(resp') : resp'[i][2] = resp'[j][2] => i = j
    <3> SUFFICES ASSUME NEW i \in 1..Len(resp) - 1, NEW j \in 1..Len(resp) - 1,
                        resp[i + 1][2] = resp[j + 1][2]
                 PROVE  i = j
      BY <1>1
    <3>1. i + 1 \in 1..Len(resp) /\ j + 1 \in 1..Len(resp)
      BY <1>1
    <3>2. i + 1 = j + 1
      BY <3>1 DEF InLoopInv, Apart
    <3> QED
      BY <1>1, <3>2
  <2> QED
    BY <1>4, <1>10, <2>1 DEF InLoopInv, Apart
<1>13. Listed'
  <2>1. Failed' = Failed
    BY <1>4 DEF Failed
  <2>2. Failed \subseteq Task
    BY DEF Failed
  <2>3. CASE t0 \in Failed
    <3>1. errors' = Append(errors, t0)
      BY <2>3 DEF AwaitAnyTask, t0
    <3>2. /\ Len(errors) \in Nat /\ Len(errors') = Len(errors) + 1
          /\ \A i \in 1..Len(errors) : errors'[i] = errors[i]
          /\ errors'[Len(errors) + 1] = t0
      BY <1>2, <3>1, AppendFact DEF TypeOK
    <3>3. \A i \in 1..Len(errors) : errors[i] # t0
      BY <1>8 DEF InLoopInv, Listed
    <3>4. \A i, j \in 1..Len(errors') : errors'[i] = errors'[j] => i = j
      BY <3>2, <3>3 DEF InLoopInv, Listed
    <3>5. ASSUME NEW i \in 1..Len(errors')
          PROVE  (errors[i] \in Failed /\ ~OnTheWay(errors[i]))'
      <4>1. CASE i = Len(errors) + 1
        BY <1>2, <1>7, <2>1, <2>3, <3>2, <4>1 DEF OnTheWay
      <4>2. CASE i \in 1..Len(errors)
        <5>1. errors[i] \in Failed /\ ~OnTheWay(errors[i]) /\ errors'[i] = errors[i]
          BY <3>2, <4>2 DEF InLoopInv, Listed
        <5> QED
          BY <1>7, <2>1, <2>2, <5>1 DEF OnTheWay
      <4> QED
        BY <3>2, <4>1, <4>2
    <3>6. ASSUME NEW t \in Failed'
          PROVE  OnTheWay(t)' \/ \E i \in 1..Len(errors') : errors'[i] = t
      <4>1. CASE t = t0
        BY <3>2, <4>1
      <4>2. CASE t # t0
        BY <1>7, <2>1, <2>2, <3>2, <4>2 DEF InLoopInv, Listed
      <4> QED
        BY <4>1, <4>2
    <3> QED
      BY <3>4, <3>5, <3>6 DEF Listed
  <2>4. CASE t0 \notin Failed
    <3>1. errors' = errors
      BY <2>4 DEF AwaitAnyTask, t0
    <3>2. ASSUME NEW i \in 1..Len(errors')
          PROVE  (errors[i] \in Failed /\ ~OnTheWay(errors[i]))'
      <4>1. errors[i] \in Failed /\ ~OnTheWay(errors[i])
        BY <3>1 DEF InLoopInv, Listed
      <4> QED
        BY <1>7, <2>1, <2>2, <3>1, <4>1 DEF OnTheWay
    <3>3. ASSUME NEW t \in Failed'
          PROVE  OnTheWay(t)' \/ \E i \in 1..Len(errors') : errors'[i] = t
      BY <1>7, <2>1, <2>2, <2>4, <3>1 DEF InLoopInv, Listed
    <3> QED
      BY <3>1, <3>2, <3>3 DEF InLoopInv, Listed
  <2> QED
    BY <2>3, <2>4
<1> QED
  BY <1>9, <1>11, <1>12, <1>13 DEF InLoopInv

\* A worker takes the task in its queue ...
LEMMA GetLoop ==
    ASSUME TypeOK, InLoopInv, NEW w0 \in Worker, GetMessage(w0)
    PROVE  InLoopInv'
<1>1. UNCHANGED <<started, active, avail, resp, errors>>
  BY DEF GetMessage, parent
<1>2. CASE tq[w0] = << >>
  <2>1. UNCHANGED <<tq, wpc, cur, state>>
    BY <1>2 DEF GetMessage
  <2> QED
    BY <1>1, <2>1 DEF InLoopInv, Held, OneThing, Placed, Apart, Listed, OnStack,
         Responded, OnTheWay, Failed
<1>3. CASE tq[w0] # << >>
  <2> DEFINE t0 == tq[w0][1]
  <2>1. /\ OneThing(w0) /\ t0 \in Task /\ state[t0] = "queued" /\ Head(tq[w0]) = t0
        /\ Len(tq[w0]) = 1 /\ Tail(tq[w0]) = << >>
    <3>1. OneThing(w0) /\ t0 \in Task /\ state[t0] = "queued"
      BY <1>3 DEF InLoopInv, Held, Placed
    <3>2. tq[w0] \in Seq(Message) /\ Len(tq[w0]) <= 1
      BY <3>1 DEF TypeOK, OneThing
    <3> QED
      BY <1>3, <3>1, <3>2, SingleFact
  <2>2. /\ \A w \in Worker : w # w0 => /\ tq'[w] = tq[w] /\ wpc'[w] = wpc[w]
                                        /\ cur'[w] = cur[w]
        /\ tq'[w0] = << >> /\ Len(tq'[w0]) <= 1
    <3>1. tq' = [tq EXCEPT ![w0] = << >>]
      BY <1>3, <2>1 DEF GetMessage
    <3> QED
      BY <1>3, <3>1 DEF GetMessage, TypeOK
  <2>3. wpc'[w0] = "run"
    <3>1. t0 # StopProcessing /\ t0 # WaitForInterrupt
      BY <2>1, SizesFact
    <3> QED
      BY <1>3, <2>1, <3>1 DEF GetMessage, TypeOK
  <2>4. cur'[w0] = t0
    BY <1>3, <2>1 DEF GetMessage, TypeOK
  <2>5. state'[t0] = "running" /\ \A t \in Task : t # t0 => state'[t] = state[t]
    BY <1>3, <2>1 DEF GetMessage, TypeOK
  <2>6. t0 # NoTask
    BY <2>1, SizesFact
  <2> HIDE DEF t0
  <2>7. wpc[w0] = "get" /\ cur[w0] = NoTask /\ ~OnStack(w0) /\ ~Responded(w0)
    BY <1>3, <2>1 DEF OneThing
  <2>8. ASSUME NEW w \in Worker
        PROVE  (OnStack(w)' <=> OnStack(w)) /\ (Responded(w)' <=> Responded(w))
    <3>1. OnStack(w)' <=> OnStack(w)
      BY <1>1 DEF OnStack
    <3>2. Responded(w)' <=> Responded(w)
      BY <1>1 DEF Responded
    <3> QED
      BY <3>1, <3>2
  <2>9. Held'
    <3>1. ASSUME NEW w \in Worker PROVE OneThing(w)'
      <4>1. OneThing(w)
        BY DEF InLoopInv, Held
      <4>2. CASE w = w0
        <5>1. ~OnStack(w)' /\ ~Responded(w)'
          BY <2>7, <2>8, <4>2
        <5>2. tq'[w] = << >> /\ Len(tq'[w]) <= 1 /\ wpc'[w] = "run" /\ cur'[w] # NoTask
          BY <2>2, <2>3, <2>4, <2>6, <4>2, Zenon
        <5> QED
          BY <5>1, <5>2 DEF OneThing
      <4>3. CASE w # w0
        <5>1. (OnStack(w)' <=> OnStack(w)) /\ (Responded(w)' <=> Responded(w))
          BY <2>8
        <5>2. tq'[w] = tq[w] /\ wpc'[w] = wpc[w] /\ cur'[w] = cur[w]
          BY <2>2, <4>3
        <5> QED
          BY <4>1, <5>1, <5>2 DEF OneThing
      <4> QED
        BY <4>2, <4>3
    <3> QED
      BY <1>1, <3>1 DEF InLoopInv, Held
  <2>10. \A w \in Worker : wpc[w] \in {"run", "put"} => cur[w] \in Task
    BY DEF TypeOK, InLoopInv, Held, OneThing
  <2>11. \A w \in Worker : cur[w] # t0
    <3>1. \A w \in Worker : cur[w] \in Task => wpc[w] \in {"run", "put"}
      BY SizesFact DEF InLoopInv, Held, OneThing
    <3> QED
      BY <2>1, <3>1 DEF InLoopInv, Placed
  <2>12. \A i \in 1..Len(resp) : resp[i][2] # t0
    BY <2>1 DEF InLoopInv, Placed
  <2>13. Placed'
    <3>1. \A t \in Task : state'[t] = "new" <=> t > started'
      BY <1>1, <2>1, <2>5 DEF InLoopInv, Placed
    <3>2. \A t \in Task : state'[t] \in {"new", "queued", "running", "ok", "failed"}
      BY <2>5 DEF InLoopInv, Placed
    <3>3. ASSUME NEW w \in Worker
          PROVE  (/\ tq[w] # << >> => /\ tq[w][1] \in Task
                                      /\ state[tq[w][1]] = "queued"
                  /\ wpc[w] = "run" => state[cur[w]] = "running"
                  /\ wpc[w] = "put" => state[cur[w]] \in {"ok", "failed"})'
      <4>1. CASE w = w0
        BY <2>2, <2>3, <2>4, <2>5, <4>1
      <4>2. CASE w # w0
        <5>1. tq[w] # << >> => tq[w][1] # t0
          BY <1>3, <4>2 DEF InLoopInv, Apart, t0
        <5> QED
          BY <2>2, <2>5, <2>10, <2>11, <4>2, <5>1 DEF InLoopInv, Placed
      <4> QED
        BY <4>1, <4>2
    <3>4. \A i \in 1..Len(resp') : /\ resp'[i][2] \in Task
                                   /\ state'[resp'[i][2]] \in {"ok", "failed"}
      BY <1>1, <2>5, <2>12 DEF InLoopInv, Placed
    <3>5. ASSUME NEW t \in Task
          PROVE  (/\ state[t] = "queued" =>
                       \E w \in Worker : tq[w] # << >> /\ tq[w][1] = t
                  /\ state[t] = "running" => \E w \in Worker : cur[w] = t)'
      <4>1. CASE t = t0
        BY <2>4, <2>5, <4>1
      <4>2. CASE t # t0
        <5>1. state[t] = "queued" =>
                \E w \in Worker : w # w0 /\ tq[w] # << >> /\ tq[w][1] = t
          BY <4>2 DEF InLoopInv, Placed, t0
        <5>2. state[t] = "running" => \E w \in Worker : w # w0 /\ cur[w] = t
          BY <2>7, SizesFact DEF InLoopInv, Placed
        <5> QED
          BY <2>2, <2>5, <4>2, <5>1, <5>2
      <4> QED
        BY <4>1, <4>2
    <3> QED
      BY <3>1, <3>2, <3>3, <3>4, <3>5 DEF Placed
  <2>14. Apart'
    <3>1. \A v, w \in Worker : tq'[v] # << >> /\ tq'[w] # << >>
                                 /\ tq'[v][1] = tq'[w][1] => v = w
      BY <2>2 DEF InLoopInv, Apart
    <3>2. \A v, w \in Worker : cur'[v] # NoTask /\ cur'[v] = cur'[w] => v = w
      BY <2>2, <2>4, <2>11 DEF InLoopInv, Apart
    <3>3. \A i \in 1..Len(resp'), w \in Worker : resp'[i][2] # cur'[w]
      BY <1>1, <2>2, <2>4, <2>12 DEF InLoopInv, Apart
    <3> QED
      BY <1>1, <3>1, <3>2, <3>3 DEF InLoopInv, Apart
  <2>15. Listed'
    <3>1. Failed' = Failed
      BY <2>1, <2>5 DEF Failed
    <3>2. \A t \in Task : t # t0 => (OnTheWay(t)' <=> OnTheWay(t))
      <4> SUFFICES ASSUME NEW t \in Task, t # t0
                   PROVE  OnTheWay(t)' <=> OnTheWay(t)
        OBVIOUS
      <4>1. (\E w \in Worker : cur'[w] = t) <=> \E w \in Worker : cur[w] = t
        BY <2>2, <2>4, <2>7, SizesFact
      <4>2. (\E i \in 1..Len(resp') : resp'[i][2] = t)
              <=> \E i \in 1..Len(resp) : resp[i][2] = t
        BY <1>1
      <4> QED
        BY <4>1, <4>2 DEF OnTheWay
    <3>3. t0 \notin Failed /\ Failed \subseteq Task
      BY <2>1 DEF Failed
    <3>4. ASSUME NEW i \in 1..Len(errors')
          PROVE  (errors[i] \in Failed /\ ~OnTheWay(errors[i]))'
      <4>1. errors[i] \in Failed /\ ~OnTheWay(errors[i])
        BY <1>1 DEF InLoopInv, Listed
      <4> QED
        BY <1>1, <3>1, <3>2, <3>3, <4>1 DEF OnTheWay
    <3>5. ASSUME NEW t \in Failed'
          PROVE  OnTheWay(t)' \/ \E i \in 1..Len(errors') : errors'[i] = t
      BY <1>1, <3>1, <3>2, <3>3 DEF InLoopInv, Listed
    <3> QED
      BY <1>1, <3>4, <3>5 DEF InLoopInv, Listed
  <2> QED
    BY <2>9, <2>13, <2>14, <2>15 DEF InLoopInv
<1> QED
  BY <1>2, <1>3

\* ... runs it ...
LEMMA RunLoop ==
    ASSUME TypeOK, InLoopInv, NEW w0 \in Worker, NEW r \in {"ok", "failed"},
           RunTask(w0, r)
    PROVE  InLoopInv'
<1>1. UNCHANGED <<started, active, avail, resp, errors, tq, cur>>
  BY DEF RunTask, parent
<1>2. /\ wpc[w0] = "run" /\ wpc'[w0] = "put"
      /\ \A w \in Worker : w # w0 => wpc'[w] = wpc[w]
  BY DEF RunTask, TypeOK
<1> DEFINE t0 == cur[w0]
<1>3. OneThing(w0) /\ t0 # NoTask /\ t0 \in Task /\ state[t0] = "running"
  BY <1>2 DEF TypeOK, InLoopInv, Held, OneThing, Placed
<1>4. state'[t0] = r /\ \A t \in Task : t # t0 => state'[t] = state[t]
  BY <1>3 DEF RunTask, TypeOK
<1> HIDE DEF t0
<1>5. \A w \in Worker : w # w0 => cur[w] # t0
  BY <1>3 DEF InLoopInv, Apart, t0
<1>6. \A i \in 1..Len(resp) : resp[i][2] # t0
  BY <1>3 DEF InLoopInv, Apart, t0
<1>7. Held'
  <2>1. ASSUME NEW w \in Worker PROVE OneThing(w)'
    <3>1. (OnStack(w)' <=> OnStack(w)) /\ (Responded(w)' <=> Responded(w))
      <4>1. OnStack(w)' <=> OnStack(w)
        BY <1>1 DEF OnStack
      <4>2. Responded(w)' <=> Responded(w)
        BY <1>1 DEF Responded
      <4> QED
        BY <4>1, <4>2
    <3>2. OneThing(w) /\ tq' = tq /\ cur' = cur
      BY <1>1 DEF InLoopInv, Held
    <3>3. CASE w = w0
      BY <1>2, <3>1, <3>2, <3>3 DEF OneThing
    <3>4. CASE w # w0
      BY <1>2, <3>1, <3>2, <3>4 DEF OneThing
    <3> QED
      BY <3>3, <3>4
  <2> QED
    BY <1>1, <2>1 DEF InLoopInv, Held
<1>8. Placed'
  <2>1. \A t \in Task : state'[t] = "new" <=> t > started'
    BY <1>1, <1>3, <1>4 DEF InLoopInv, Placed
  <2>2. \A t \in Task : state'[t] \in {"new", "queued", "running", "ok", "failed"}
    BY <1>4 DEF InLoopInv, Placed
  <2>3. ASSUME NEW w \in Worker
        PROVE  (/\ tq[w] # << >> => /\ tq[w][1] \in Task
                                    /\ state[tq[w][1]] = "queued"
                /\ wpc[w] = "run" => state[cur[w]] = "running"
                /\ wpc[w] = "put" => state[cur[w]] \in {"ok", "failed"})'
    <3>1. tq[w] # << >> => /\ tq[w][1] \in Task /\ state[tq[w][1]] = "queued"
      BY DEF InLoopInv, Placed
    <3>2. tq'[w] # << >> => /\ tq'[w][1] \in Task /\ state'[tq'[w][1]] = "queued"
      BY <1>1, <1>3, <1>4, <3>1
    <3>3. CASE w = w0
      BY <1>1, <1>2, <1>4, <3>2, <3>3 DEF t0
    <3>4. CASE w # w0
      <4>1. wpc[w] \in {"run", "put"} => cur[w] \in Task
        BY DEF TypeOK, InLoopInv, Held, OneThing
      <4> QED
        BY <1>1, <1>2, <1>4, <1>5, <3>2, <3>4, <4>1 DEF InLoopInv, Placed
    <3> QED
      BY <3>3, <3>4
  <2>4. \A i \in 1..Len(resp') : /\ resp'[i][2] \in Task
                                 /\ state'[resp'[i][2]] \in {"ok", "failed"}
    BY <1>1, <1>4, <1>6 DEF InLoopInv, Placed
  <2>5. ASSUME NEW t \in Task
        PROVE  (/\ state[t] = "queued" =>
                     \E w \in Worker : tq[w] # << >> /\ tq[w][1] = t
                /\ state[t] = "running" => \E w \in Worker : cur[w] = t)'
    BY <1>1, <1>4 DEF InLoopInv, Placed
  <2> QED
    BY <2>1, <2>2, <2>3, <2>4, <2>5 DEF Placed
<1>9. Apart'
  BY <1>1 DEF InLoopInv, Apart
<1>10. Listed'
  <2>1. \A t \in Task : t # t0 => (t \in Failed' <=> t \in Failed)
    BY <1>4 DEF Failed
  <2>2. t0 \notin Failed /\ Failed \subseteq Task /\ Failed' \subseteq Task
    BY <1>3 DEF Failed
  <2>3. \A t : OnTheWay(t)' <=> OnTheWay(t)
    BY <1>1 DEF OnTheWay
  <2>4. OnTheWay(t0)
    BY DEF OnTheWay, t0
  <2>5. ASSUME NEW i \in 1..Len(errors')
        PROVE  (errors[i] \in Failed /\ ~OnTheWay(errors[i]))'
    <3>1. errors[i] \in Failed /\ ~OnTheWay(errors[i])
      BY <1>1 DEF InLoopInv, Listed
    <3> QED
      BY <1>1, <2>1, <2>2, <2>3, <3>1 DEF OnTheWay
  <2>6. ASSUME NEW t \in Failed'
        PROVE  OnTheWay(t)' \/ \E i \in 1..Len(errors') : errors'[i] = t
    <3>1. CASE t = t0
      BY <2>3, <2>4, <3>1
    <3>2. CASE t # t0
      BY <1>1, <2>1, <2>2, <2>3, <3>2 DEF InLoopInv, Listed
    <3> QED
      BY <3>1, <3>2
  <2> QED
    BY <1>1, <2>5, <2>6 DEF InLoopInv, Listed
<1> QED
  BY <1>7, <1>8, <1>9, <1>10 DEF InLoopInv

\* ... and responds.
LEMMA RespondLoop ==
    ASSUME TypeOK, InLoopInv, NEW w0 \in Worker, Respond(w0)
    PROVE  InLoopInv'
<1> DEFINE t0 == cur[w0]
<1>1. UNCHANGED <<started, active, avail, errors, tq, state>>
  BY DEF Respond, parent
<1>2. /\ wpc[w0] = "put" /\ wpc'[w0] = "get" /\ cur'[w0] = NoTask
      /\ \A w \in Worker : w # w0 => wpc'[w] = wpc[w] /\ cur'[w] = cur[w]
  BY DEF Respond, TypeOK
<1>3. /\ OneThing(w0) /\ t0 # NoTask /\ t0 \in Task /\ state[t0] \in {"ok", "failed"}
      /\ tq[w0] = << >> /\ ~OnStack(w0) /\ ~Responded(w0)
  BY <1>2 DEF TypeOK, InLoopInv, Held, OneThing, Placed
<1>4. /\ Len(resp) \in Nat /\ Len(resp') = Len(resp) + 1
      /\ \A i \in 1..Len(resp) : resp'[i] = resp[i]
      /\ resp'[Len(resp) + 1] = <<w0, t0>>
  <2>1. /\ resp' = Append(resp, <<w0, t0>>)
        /\ resp \in Seq(Worker \X (Task \cup {NoTask}))
        /\ <<w0, t0>> \in Worker \X (Task \cup {NoTask})
    BY DEF Respond, TypeOK
  <2> QED
    BY <2>1, AppendFact
<1> HIDE DEF t0
<1>5. \A w \in Worker : w # w0 => cur[w] # t0
  BY <1>3 DEF InLoopInv, Apart, t0
<1>6. \A i \in 1..Len(resp) : resp[i][2] # t0 /\ resp[i][1] # w0
  BY <1>3 DEF InLoopInv, Apart, t0, Responded
<1>7. \A i \in 1..Len(resp') : \/ i \in 1..Len(resp) /\ resp'[i] = resp[i]
                               \/ /\ i = Len(resp) + 1
                                  /\ resp'[i][1] = w0 /\ resp'[i][2] = t0
  BY <1>4
<1>8. ASSUME NEW w \in Worker
      PROVE  (OnStack(w)' <=> OnStack(w)) /\ (Responded(w)' <=> Responded(w) \/ w = w0)
  <2>1. OnStack(w)' <=> OnStack(w)
    BY <1>1 DEF OnStack
  <2>2. Responded(w)' <=> Responded(w) \/ w = w0
    BY <1>4, <1>7 DEF Responded
  <2> QED
    BY <2>1, <2>2
<1>9. Held'
  <2>1. ASSUME NEW w \in Worker PROVE OneThing(w)'
    <3>1. /\ OnStack(w)' <=> OnStack(w)
          /\ Responded(w)' <=> Responded(w) \/ w = w0
      BY <1>8
    <3>2. OneThing(w) /\ tq' = tq
      BY <1>1 DEF InLoopInv, Held
    <3>3. CASE w = w0
      BY <1>2, <1>3, <3>1, <3>2, <3>3 DEF OneThing
    <3>4. CASE w # w0
      BY <1>2, <3>1, <3>2, <3>4 DEF OneThing
    <3> QED
      BY <3>3, <3>4
  <2>2. \A i, j \in 1..Len(resp') : resp'[i][1] = resp'[j][1] => i = j
    BY <1>6, <1>7 DEF InLoopInv, Held
  <2> QED
    BY <1>1, <2>1, <2>2 DEF InLoopInv, Held
<1>10. Placed'
  <2>1. ASSUME NEW w \in Worker
        PROVE  (/\ tq[w] # << >> => /\ tq[w][1] \in Task
                                    /\ state[tq[w][1]] = "queued"
                /\ wpc[w] = "run" => state[cur[w]] = "running"
                /\ wpc[w] = "put" => state[cur[w]] \in {"ok", "failed"})'
    BY <1>1, <1>2, <1>3 DEF InLoopInv, Placed
  <2>2. \A i \in 1..Len(resp') : /\ resp'[i][2] \in Task
                                 /\ state'[resp'[i][2]] \in {"ok", "failed"}
    BY <1>1, <1>3, <1>7 DEF InLoopInv, Placed
  <2>3. ASSUME NEW t \in Task, state'[t] = "running"
        PROVE  \E w \in Worker : cur'[w] = t
    <3>1. PICK w \in Worker : cur[w] = t
      BY <1>1, <2>3 DEF InLoopInv, Placed
    <3>2. w # w0
      BY <1>1, <1>3, <2>3, <3>1 DEF t0
    <3> QED
      BY <1>2, <3>1, <3>2
  <2> QED
    BY <1>1, <2>1, <2>2, <2>3 DEF InLoopInv, Placed
<1>11. Apart'
  <2>1. \A v, w \in Worker : cur'[v] # NoTask /\ cur'[v] = cur'[w] => v = w
    BY <1>2 DEF InLoopInv, Apart
  <2>2. \A i, j \in 1..Len(resp') : resp'[i][2] = resp'[j][2] => i = j
    BY <1>6, <1>7 DEF InLoopInv, Apart
  <2>3. ASSUME NEW i \in 1..Len(resp'), NEW w \in Worker
        PROVE  resp'[i][2] # cur'[w]
    <3>1. resp'[i][2] # NoTask
      BY <1>3, <1>7, SizesFact DEF InLoopInv, Placed
    <3>2. CASE w = w0
      BY <1>2, <3>1, <3>2
    <3>3. CASE w # w0
      BY <1>2, <1>5, <1>7, <3>3 DEF InLoopInv, Apart
    <3> QED
      BY <3>2, <3>3
  <2> QED
    BY <1>1, <2>1, <2>2, <2>3 DEF InLoopInv, Apart
<1>12. Listed'
  <2>1. Failed' = Failed /\ Failed \subseteq Task
    BY <1>1 DEF Failed
  <2>2. ASSUME NEW t \in Task PROVE OnTheWay(t)' <=> OnTheWay(t)
    <3>1. OnTheWay(t)' => OnTheWay(t)
      <4>1. (\E w \in Worker : cur'[w] = t) => \E w \in Worker : cur[w] = t
        BY <1>2, SizesFact
      <4>2. (\E i \in 1..Len(resp') : resp'[i][2] = t) =>
              \/ \E w \in Worker : cur[w] = t
              \/ \E i \in 1..Len(resp) : resp[i][2] = t
        BY <1>7 DEF t0
      <4> QED
        BY <4>1, <4>2 DEF OnTheWay
    <3>2. OnTheWay(t) => OnTheWay(t)'
      <4>1. (\E i \in 1..Len(resp) : resp[i][2] = t) =>
              \E i \in 1..Len(resp') : resp'[i][2] = t
        BY <1>4
      <4>2. ASSUME NEW w \in Worker, cur[w] = t
            PROVE  \/ \E v \in Worker : cur'[v] = t
                   \/ \E i \in 1..Len(resp') : resp'[i][2] = t
        BY <1>2, <1>4, <4>2 DEF t0
      <4> QED
        BY <4>1, <4>2 DEF OnTheWay
    <3> QED
      BY <3>1, <3>2
  <2>3. ASSUME NEW i \in 1..Len(errors')
        PROVE  (errors[i] \in Failed /\ ~OnTheWay(errors[i]))'
    <3>1. errors[i] \in Failed /\ ~OnTheWay(errors[i])
      BY <1>1 DEF InLoopInv, Listed
    <3> QED
      BY <1>1, <2>1, <2>2, <3>1 DEF OnTheWay
  <2>4. ASSUME NEW t \in Failed'
        PROVE  OnTheWay(t)' \/ \E i \in 1..Len(errors') : errors'[i] = t
    BY <1>1, <2>1, <2>2 DEF InLoopInv, Listed
  <2> QED
    BY <1>1, <2>3, <2>4 DEF InLoopInv, Listed
<1> QED
  BY <1>9, <1>10, <1>11, <1>12 DEF InLoopInv

\* The other steps do not touch what the loop works on.
LEMMA LoopStutter ==
    ASSUME InLoopInv,
           UNCHANGED <<started, active, avail, errors, tq, resp, wpc, cur, state>>
    PROVE  InLoopInv'
<1>1. Held'
  BY DEF InLoopInv, Held, OneThing, OnStack, Responded
<1>2. Placed'
  BY DEF InLoopInv, Placed
<1>3. Apart'
  BY DEF InLoopInv, Apart
<1>4. Listed'
  BY DEF InLoopInv, Listed, OnTheWay, Failed
<1> QED
  BY <1>1, <1>2, <1>3, <1>4 DEF InLoopInv

\* Every step keeps the loop's account of workers and tasks.
LEMMA LoopingStep ==
    /\ TypeOK /\ Interrupted /\ NonePending /\ Booting /\ Looping
    /\ [Next]_vars
    => Looping'
<1> SUFFICES ASSUME TypeOK, Interrupted, NonePending, Booting, Looping, [Next]_vars,
                    ppc' = "loop"
             PROVE  InLoopInv'
  BY DEF Looping, InLoopInv
<1>1. CASE EnterTry
  BY <1>1, EnterLoop
<1>2. CASE ppc = "loop" /\ ~EnterTry
  <2>1. InLoopInv /\ \A w \in Worker : ~ki[w]
    BY <1>2 DEF Looping, InLoopInv, Interrupted, NonePending
  <2>2. CASE UNCHANGED <<started, active, avail, errors, tq, resp, wpc, cur, state>>
    BY <2>1, <2>2, LoopStutter
  <2>3. ASSUME NEW w \in Worker, WorkerStep(w) \/ Die(w) PROVE InLoopInv'
    <3>1. wpc[w] \in {"get", "run", "put"} /\ ~ki[w]
      BY <2>1 DEF InLoopInv, Held, OneThing
    <3>2. \/ GetMessage(w) \/ Respond(w)
          \/ \E r \in {"ok", "failed"} : RunTask(w, r)
      BY <2>3, <3>1 DEF WorkerStep, Boot, AbsorbInterrupt, Die
    <3> QED
      BY <2>1, <3>2, GetLoop, RespondLoop, RunLoop
  <2>4. CASE Parent
    <3>1. StartTask \/ AwaitAnyTask
            \/ UNCHANGED <<started, active, avail, errors, tq, resp, wpc, cur, state>>
      BY <1>2, <2>4 DEF Parent, PutRelease, StartThread, AwaitBoot, LeaveLoop,
           SetAsyncExc, WakeWorker, StopWorker, JoinWorker, InLoop, Finish,
           Advance
    <3> QED
      BY <2>1, <2>2, <3>1, StartTaskLoop, AwaitLoop
  <2>5. ~Interrupt
    BY DEF Interrupt, InterruptEscapes, InterruptToExit, InterruptToHandler,
         InterruptTo
  <2> QED
    BY <2>2, <2>3, <2>4, <2>5 DEF Next, vars
<1>3. ppc # "loop" => EnterTry
  <2>1. ASSUME NEW w \in Worker, WorkerStep(w) \/ Die(w) PROVE ppc' = ppc
    BY <2>1 DEF WorkerStep, Boot, GetMessage, Respond, AbsorbInterrupt, RunTask,
         Die, parent
  <2>2. Interrupt => ppc' # "loop"
    BY DEF Interrupt, InterruptEscapes, InterruptToExit, InterruptToHandler,
         InterruptTo
  <2>3. Parent /\ ppc # "loop" => EnterTry
    BY DEF Parent, PutRelease, StartThread, AwaitBoot, StartTask, AwaitAnyTask,
         LeaveLoop, SetAsyncExc, WakeWorker, StopWorker, JoinWorker, InLoop,
         Finish, Advance
  <2> QED
    BY <2>1, <2>2, <2>3 DEF Next, vars
<1> QED
  BY <1>1, <1>2, <1>3

-----------------------------------------------------------------------------
(***************************************************************************)
(* After the loop.                                                         *)
(***************************************************************************)
\* With no active task all workers are on the stack: it holds as many
\* different ones as there are.  So every task has been answered.
LEMMA LoopDone ==
    ASSUME TypeOK, InLoopInv, active = 0, started = NumTasks
    PROVE  AllFinished /\ \A w \in Worker : Quiet(w)
<1>1. \A w \in Worker : OnStack(w)
  <2>1. avail \in [1..Len(avail) -> Worker] /\ Len(avail) = Concurrency
    BY SizesFact DEF TypeOK, InLoopInv, Held
  <2>2. avail \in Injection(1..Concurrency, Worker)
    BY <2>1 DEF Injection, IsInjective, InLoopInv, Held
  <2>3. IsFiniteSet(1..Concurrency) /\ Cardinality(1..Concurrency) = Concurrency
    <3>1. 1 \in Int /\ Concurrency \in Int
      BY SizesFact
    <3>2. /\ IsFiniteSet(1..Concurrency)
          /\ Cardinality(1..Concurrency) =
               IF 1 > Concurrency THEN 0 ELSE Concurrency - 1 + 1
      BY <3>1, FS_Interval
    <3> QED
      BY <3>2, SizesFact
  <2>4. avail \in Surjection(1..Concurrency, Worker)
    BY <2>2, <2>3, SizesFact, FS_Injection
  <2> QED
    BY <2>1, <2>4 DEF Surjection, OnStack
<1>2. \A w \in Worker : /\ tq[w] = << >> /\ wpc[w] = "get" /\ cur[w] = NoTask
                         /\ ~Responded(w)
  BY <1>1 DEF InLoopInv, Held, OneThing
<1>3. \A i \in 1..Len(resp) : FALSE
  BY <1>2 DEF Responded, TypeOK
<1>4. \A t \in Task : ~OnTheWay(t)
  BY <1>2, <1>3, SizesFact DEF OnTheWay
<1>5. \A t \in Task : state[t] \in {"ok", "failed"}
  <2>1. \A t \in Task : state[t] # "new"
    BY SizesFact DEF InLoopInv, Placed, Task
  <2>2. \A t \in Task : state[t] # "queued" /\ state[t] # "running"
    BY <1>2, SizesFact DEF InLoopInv, Placed
  <2> QED
    BY <2>1, <2>2 DEF InLoopInv, Placed
<1>6. Failed \subseteq Task
  BY DEF Failed
<1>7. AllFinished
  BY <1>4, <1>5, <1>6 DEF AllFinished, InLoopInv, Listed
<1>8. \A w \in Worker : Quiet(w)
  <2>1. \A w \in Worker : \A i \in 1..Len(tq[w]) : FALSE
    BY <1>2
  <2> QED
    BY <1>2, <2>1 DEF Quiet
<1> QED
  BY <1>7, <1>8

\* A quiet worker stays quiet, and the task states stay unless an interrupt is
\* pending.
LEMMA QuietWorker ==
    ASSUME TypeOK, NEW w \in Worker, WorkerStep(w) \/ Die(w),
           NEW v \in Worker, Quiet(v)
    PROVE  /\ Quiet(v)'
           /\ wpc[v] = "dead" => wpc'[v] = "dead" /\ v # w
           /\ v = w /\ ~ki[w] => state' = state
<1>1. CASE v # w
  <2>1. wpc'[v] = wpc[v] /\ tq'[v] = tq[v]
    BY <1>1 DEF WorkerStep, Boot, GetMessage, Respond, AbsorbInterrupt, RunTask,
         Die, TypeOK
  <2> QED
    BY <1>1, <2>1 DEF Quiet
<1>2. CASE v = w
  <2>1. wpc[w] # "dead"
    BY DEF WorkerStep, Boot, GetMessage, Respond, AbsorbInterrupt, RunTask, Die
  <2>2. wpc[w] # "run" /\ \A i \in 1..Len(tq[w]) : tq[w][i] \notin Task
    BY <1>2, <2>1 DEF Quiet
  <2>3. CASE Boot(w) \/ Respond(w)
    <3>1. tq' = tq /\ state' = state /\ wpc' = [wpc EXCEPT ![w] = "get"]
      BY <2>3 DEF Boot, Respond
    <3> QED
      BY <1>2, <2>1, <2>2, <3>1 DEF Quiet, TypeOK
  <2>4. CASE Die(w)
    <3>1. wpc'[w] = "dead" /\ ki[w]
      BY <2>4 DEF Die, TypeOK
    <3> QED
      BY <1>2, <2>1, <3>1 DEF Quiet
  <2>5. CASE GetMessage(w)
    <3>1. CASE tq[w] = << >>
      BY <1>2, <2>1, <2>2, <2>5, <3>1 DEF GetMessage, Quiet
    <3>2. CASE tq[w] # << >>
      <4>1. /\ tq[w] \in Seq(Message) /\ Head(tq[w]) = tq[w][1] /\ Head(tq[w]) \in Message
            /\ Len(tq[w]) \in Nat /\ Len(tq[w]) > 0 /\ Len(Tail(tq[w])) = Len(tq[w]) - 1
            /\ \A i \in 1..Len(tq[w]) - 1 : Tail(tq[w])[i] = tq[w][i + 1]
        BY <3>2, TailFact DEF TypeOK
      <4>2. Head(tq[w]) \notin Task
        BY <2>2, <4>1
      <4>3. Head(tq[w]) \in {StopProcessing, WaitForInterrupt}
        BY <4>1, <4>2, SizesFact DEF Message, Task, StopProcessing,
           WaitForInterrupt
      <4>4. wpc'[w] \in {"dead", "spin"}
        BY <2>5, <3>2, <4>3 DEF GetMessage, TypeOK
      <4>5. state' = state
        BY <2>5, <3>2, <4>2 DEF GetMessage, TypeOK
      <4>6. tq'[w] = Tail(tq[w])
        BY <2>5, <3>2 DEF GetMessage, TypeOK
      <4>7. ASSUME NEW i \in 1..Len(tq'[w]) PROVE tq'[w][i] \notin Task
        <5>1. i \in 1..Len(tq[w]) - 1 /\ i + 1 \in 1..Len(tq[w])
          BY <4>1, <4>6
        <5> QED
          BY <2>2, <4>1, <4>6, <5>1
      <4> QED
        BY <1>2, <2>1, <4>4, <4>5, <4>7 DEF Quiet
    <3> QED
      BY <3>1, <3>2
  <2> QED
    BY <2>2, <2>3, <2>4, <2>5 DEF WorkerStep, AbsorbInterrupt, RunTask
<1> QED
  BY <1>1, <1>2

\* Before the loop workers are quiet.
LEMMA EarlyQuiet ==
    ASSUME NothingStarted
    PROVE  \A w \in Worker : Quiet(w)
<1>1. \A w \in Worker : \A i \in 1..Len(tq[w]) : FALSE
  BY DEF NothingStarted
<1> QED
  BY <1>1 DEF NothingStarted, Quiet

\* Steps that touch neither a worker's place nor its queue keep it quiet; so
\* does __exit__ when it tells it to stop.
LEMMA QuietParent ==
    ASSUME TypeOK, NEW w \in Worker, Quiet(w), wpc' = wpc,
           StopWorker \/ UNCHANGED tq
    PROVE  Quiet(w)'
<1>1. CASE UNCHANGED tq
  BY <1>1 DEF Quiet
<1>2. CASE StopWorker
  <2>1. idx \in Worker /\ tq' = [tq EXCEPT ![idx] = Append(@, StopProcessing)]
    BY <1>2, InLoopFact DEF StopWorker, PutAppend
  <2>2. CASE w # idx
    BY <2>1, <2>2 DEF Quiet, TypeOK
  <2>3. CASE w = idx
    <3>1. tq'[w] = Append(tq[w], StopProcessing) /\ tq[w] \in Seq(Message)
      BY <2>1, <2>3 DEF TypeOK
    <3>2. /\ Len(tq[w]) \in Nat /\ Len(tq'[w]) = Len(tq[w]) + 1
          /\ \A i \in 1..Len(tq[w]) : tq'[w][i] = tq[w][i]
          /\ tq'[w][Len(tq[w]) + 1] = StopProcessing
      BY <3>1, SizesFact, AppendFact
    <3>3. ASSUME \A i \in 1..Len(tq[w]) : tq[w][i] \notin Task,
                 NEW i \in 1..Len(tq'[w])
          PROVE  tq'[w][i] \notin Task
      <4>1. i \in 1..Len(tq[w]) \/ i = Len(tq[w]) + 1
        BY <3>2
      <4> QED
        BY <3>2, <3>3, <4>1, SizesFact
    <3> QED
      BY <3>3 DEF Quiet
  <2> QED
    BY <2>2, <2>3
<1> QED
  BY <1>1, <1>2

\* The steps of the parent by the phase they are taken in.
LEMMA ParentPhases ==
    ASSUME Parent
    PROVE  /\ ppc' \in {"stop", "xjoin"} =>
                \/ LeaveLoop \/ Advance("hjoin", "stop")
                \/ /\ ppc \in {"stop", "xjoin"} /\ wpc' = wpc
                   /\ StopWorker \/ UNCHANGED tq
                   /\ UNCHANGED <<state, errors, outcome>>
           /\ ppc' = "done" =>
                \/ Finish
                \/ /\ ppc = "done"
                   /\ UNCHANGED <<wpc, tq, state, errors, outcome>>
           /\ Finish \/ outcome' = outcome
           /\ ppc = "done" => ppc' = "done"
           /\ UNCHANGED <<raising, interrupts>>
<1>1. /\ ppc' \in {"stop", "xjoin"} =>
           \/ LeaveLoop \/ Advance("hjoin", "stop")
           \/ /\ ppc \in {"stop", "xjoin"} /\ wpc' = wpc
              /\ StopWorker \/ UNCHANGED tq
              /\ UNCHANGED <<state, errors, outcome>>
  BY DEF Parent, PutRelease, StartThread, AwaitBoot, EnterTry, StartTask,
       AwaitAnyTask, SetAsyncExc, WakeWorker, StopWorker, JoinWorker, InLoop,
       Finish, Advance
<1>2. /\ ppc' = "done" =>
           \/ Finish
           \/ /\ ppc = "done"
              /\ UNCHANGED <<wpc, tq, state, errors, outcome>>
  BY DEF Parent, PutRelease, StartThread, AwaitBoot, EnterTry, StartTask,
       AwaitAnyTask, LeaveLoop, SetAsyncExc, WakeWorker, StopWorker, JoinWorker,
       InLoop, Advance
<1>3. /\ Finish \/ outcome' = outcome
      /\ ppc = "done" => ppc' = "done"
      /\ UNCHANGED <<raising, interrupts>>
  BY DEF Parent, PutRelease, StartThread, AwaitBoot, EnterTry, StartTask,
       AwaitAnyTask, LeaveLoop, SetAsyncExc, WakeWorker, StopWorker, JoinWorker,
       InLoop, Finish, Advance
<1> QED
  BY <1>1, <1>2, <1>3

\* The loops that wait for the threads, and the end of the last one.
LEMMA JoinsStep ==
    ASSUME TypeOK, Interrupted, Leaving, [Next]_vars
    PROVE  /\ ppc' \in {"hjoin", "xjoin"} =>
                \A w \in Worker : w < idx' => wpc'[w] = "dead"
           /\ Finish => \A w \in Worker : wpc'[w] = "dead"
           /\ Advance("hjoin", "stop") => \A w \in Worker : wpc'[w] = "dead"
<1>1. ASSUME Finish \/ Advance("hjoin", "stop") PROVE \A w \in Worker : wpc'[w] = "dead"
  <2>1. idx = Concurrency /\ ppc \in {"hjoin", "xjoin"} /\ wpc' = wpc
    BY <1>1 DEF Finish, Advance
  <2> QED
    BY <2>1, SizesFact DEF Leaving, Worker
<1>2. ASSUME ppc' \in {"hjoin", "xjoin"}
      PROVE  \A w \in Worker : w < idx' => wpc'[w] = "dead"
  <2>1. CASE JoinWorker
    <3>1. /\ ppc \in {"hjoin", "xjoin"} /\ idx \in Worker /\ idx' = idx + 1
          /\ wpc[idx] = "dead" /\ wpc' = wpc
      BY <2>1, InLoopFact DEF JoinWorker
    <3> QED
      BY <3>1, SizesFact DEF Leaving
  <2>2. CASE Parent /\ ~JoinWorker
    <3>1. \/ idx' = 0
          \/ ppc \in {"hjoin", "xjoin"} /\ UNCHANGED <<idx, wpc>>
      BY <1>2, <2>2 DEF Parent, PutRelease, StartThread, AwaitBoot, EnterTry,
           StartTask, AwaitAnyTask, LeaveLoop, SetAsyncExc, WakeWorker,
           StopWorker, InLoop, Finish, Advance
    <3> QED
      BY <3>1, SizesFact DEF Leaving
  <2>3. CASE Interrupt
    BY <1>2, <2>3 DEF Interrupt, InterruptEscapes, InterruptToExit,
         InterruptToHandler, InterruptTo
  <2>4. ASSUME NEW v \in Worker, WorkerStep(v) \/ Die(v)
        PROVE  \A w \in Worker : w < idx' => wpc'[w] = "dead"
    <3>1. ppc' = ppc /\ idx' = idx
      BY <2>4 DEF WorkerStep, Boot, GetMessage, Respond, AbsorbInterrupt,
           RunTask, Die, parent
    <3>2. \A w \in Worker : wpc[w] = "dead" => wpc'[w] = "dead"
      BY <2>4, QuietWorker DEF Quiet
    <3> QED
      BY <1>2, <3>1, <3>2 DEF Leaving
  <2>5. CASE UNCHANGED vars
    BY <1>2, <2>5 DEF vars, Leaving
  <2> QED
    BY <2>1, <2>2, <2>3, <2>4, <2>5 DEF Next
<1> QED
  BY <1>1, <1>2

\* What makes an interrupt leave quiet workers behind.
LEMMA InterruptQuiet ==
    ASSUME TypeOK, Interrupted, Booting, Leaving, Interrupt,
           \/ ppc' \in {"stop", "xjoin"} /\ interrupts' < 2
           \/ ppc' = "done" /\ interrupts' < 3
    PROVE  \A w \in Worker : Quiet(w)'
<1>1. wpc' = wpc /\ tq' = tq
  BY ParentLeaves
<1>2. interrupts \in Nat /\ interrupts' = interrupts + 1
  BY SizesFact DEF TypeOK, Interrupt, InterruptEscapes, InterruptToExit,
       InterruptToHandler, InterruptTo
<1>3. \/ ppc \in {"start", "boot", "enter"}
      \/ ppc \in {"stop", "xjoin"} /\ interrupts < 2
  BY <1>2 DEF Interrupt, InterruptEscapes, InterruptToExit, InterruptToHandler,
       InterruptTo, Interrupted
<1>4. \A w \in Worker : Quiet(w)
  BY <1>3, EarlyQuiet DEF Booting, Leaving
<1> QED
  BY <1>1, <1>4 DEF Quiet

\* Every step keeps what is known once the loop is over.
LEMMA LeavingStep ==
    /\ TypeOK /\ Interrupted /\ NonePending /\ Booting /\ Looping /\ Leaving
    /\ [Next]_vars
    => Leaving'
<1> SUFFICES ASSUME TypeOK, Interrupted, NonePending, Booting, Looping, Leaving,
                    [Next]_vars
             PROVE  Leaving'
  OBVIOUS
<1>0. interrupts \in Nat
  BY SizesFact DEF TypeOK
<1>1. CASE UNCHANGED vars
  BY <1>1 DEF vars, Leaving, Quiet
<1>2. CASE Parent
  <2>1. ASSUME ppc' \in {"stop", "xjoin"}, interrupts' < 2, NEW w \in Worker
        PROVE  Quiet(w)'
    <3>1. CASE LeaveLoop
      <4>1. Quiet(w)
        BY <3>1, LoopDone DEF LeaveLoop, Looping, InLoopInv
      <4> QED
        BY <3>1, <4>1 DEF LeaveLoop, Quiet
    <3>2. CASE Advance("hjoin", "stop")
      BY <3>2, JoinsStep DEF Quiet
    <3>3. CASE /\ ppc \in {"stop", "xjoin"} /\ wpc' = wpc
               /\ StopWorker \/ UNCHANGED tq
      BY <1>2, <2>1, <3>3, ParentPhases, QuietParent DEF Leaving
    <3> QED
      BY <1>2, <2>1, <3>1, <3>2, <3>3, ParentPhases
  <2>2. ASSUME ppc' = "done", interrupts' < 3, NEW w \in Worker
        PROVE  Quiet(w)'
    <3>1. CASE Finish
      BY <3>1, JoinsStep DEF Quiet
    <3>2. CASE ppc = "done" /\ UNCHANGED <<wpc, tq>>
      BY <1>2, <2>2, <3>2, ParentPhases DEF Leaving, Quiet
    <3> QED
      BY <1>2, <2>2, <3>1, <3>2, ParentPhases
  <2>3. outcome' # "none" => ppc' = "done"
    BY <1>2, ParentPhases DEF Leaving, Finish
  <2>4. ASSUME outcome' \in {"returned", "raised"}
        PROVE  /\ \A w \in Worker : wpc'[w] = "dead"
               /\ outcome' = "returned" <=> errors' = << >>
    <3>1. CASE Finish
      BY <2>4, <3>1, JoinsStep DEF Finish
    <3>2. CASE ~Finish
      <4>1. outcome' = outcome /\ ppc' = "done"
        BY <1>2, <2>3, <2>4, <3>2, ParentPhases
      <4>2. UNCHANGED <<wpc, errors>>
        BY <1>2, <3>2, <4>1, ParentPhases
      <4> QED
        BY <2>4, <4>1, <4>2 DEF Leaving
    <3> QED
      BY <3>1, <3>2
  <2> QED
    BY <2>1, <2>2, <2>3, <2>4, JoinsStep DEF Leaving
<1>3. CASE Interrupt
  <2>1. outcome = "none"
    BY <1>3 DEF Leaving, Interrupt, InterruptEscapes, InterruptToExit,
         InterruptToHandler, InterruptTo
  <2>2. /\ outcome' # "none" => ppc' = "done"
        /\ outcome' \notin {"returned", "raised"}
    BY <1>3, <2>1 DEF Interrupt, InterruptEscapes, InterruptToExit,
         InterruptToHandler, InterruptTo
  <2> QED
    BY <1>3, <2>2, InterruptQuiet, JoinsStep DEF Leaving
<1>4. ASSUME NEW v \in Worker, WorkerStep(v) \/ Die(v) PROVE Leaving'
  <2>1. UNCHANGED <<ppc, idx, interrupts, outcome, errors>>
    BY <1>4 DEF WorkerStep, Boot, GetMessage, Respond, AbsorbInterrupt, RunTask,
         Die, parent
  <2>2. \A w \in Worker : Quiet(w) => Quiet(w)'
    BY <1>4, QuietWorker
  <2>3. \A w \in Worker : wpc[w] = "dead" => wpc'[w] = "dead"
    BY <1>4, QuietWorker DEF Quiet
  <2>4. /\ ppc' \in {"stop", "xjoin"} /\ interrupts' < 2 => \A w \in Worker : Quiet(w)'
        /\ ppc' = "done" /\ interrupts' < 3 => \A w \in Worker : Quiet(w)'
    BY <2>1, <2>2 DEF Leaving
  <2>5. outcome' \in {"returned", "raised"} =>
          /\ \A w \in Worker : wpc'[w] = "dead"
          /\ outcome' = "returned" <=> errors' = << >>
    BY <2>1, <2>3 DEF Leaving
  <2> QED
    BY <2>1, <2>4, <2>5, JoinsStep DEF Leaving
<1> QED
  BY <1>1, <1>2, <1>3, <1>4 DEF Next

\* Every step keeps what is known of a call that is over.
LEMMA EndedStep ==
    /\ TypeOK /\ Interrupted /\ NonePending /\ Looping /\ Leaving /\ Ended
    /\ [Next]_vars
    => Ended'
<1> SUFFICES ASSUME TypeOK, Interrupted, NonePending, Looping, Leaving, Ended,
                    [Next]_vars,
                    \/ ppc' \in {"stop", "xjoin"} /\ ~raising'
                    \/ outcome' \in {"returned", "raised"}
             PROVE  AllFinished'
  BY DEF Ended
<1>1. CASE LeaveLoop
  <2>1. AllFinished
    BY <1>1, LoopDone DEF LeaveLoop, Looping, InLoopInv
  <2> QED
    BY <1>1, <2>1 DEF LeaveLoop, AllFinished, Failed
<1>2. CASE Parent /\ ~LeaveLoop
  <2>1. raising' = raising /\ interrupts' = interrupts
    BY <1>2, ParentPhases
  <2>2. /\ \/ ppc \in {"stop", "xjoin"} /\ ~raising
           \/ outcome \in {"returned", "raised"}
        /\ UNCHANGED <<state, errors>>
    <3>1. CASE ppc' \in {"stop", "xjoin"} /\ ~raising'
      <4>1. ~Advance("hjoin", "stop")
        BY <2>1, <3>1 DEF Advance, Interrupted
      <4> QED
        BY <1>2, <2>1, <3>1, <4>1, ParentPhases
    <3>2. CASE outcome' \in {"returned", "raised"} /\ Finish
      BY <3>2 DEF Finish
    <3>3. CASE outcome' \in {"returned", "raised"} /\ ~Finish
      <4>1. outcome' = outcome
        BY <1>2, <3>3, ParentPhases
      <4>2. ppc = "done" /\ ppc' = "done"
        BY <1>2, <3>3, <4>1, ParentPhases DEF Leaving
      <4> QED
        BY <1>2, <3>3, <4>1, <4>2, ParentPhases
    <3> QED
      BY <3>1, <3>2, <3>3
  <2> QED
    BY <2>2 DEF Ended, AllFinished, Failed
<1>3. CASE Interrupt
  <2>1. outcome = "none"
    BY <1>3 DEF Leaving, Interrupt, InterruptEscapes, InterruptToExit,
         InterruptToHandler, InterruptTo
  <2> QED
    BY <1>3, <2>1 DEF Interrupt, InterruptEscapes, InterruptToExit,
         InterruptToHandler, InterruptTo
<1>4. ASSUME NEW w \in Worker, WorkerStep(w) \/ Die(w) PROVE AllFinished'
  <2>1. UNCHANGED <<ppc, raising, outcome, errors>>
    BY <1>4 DEF WorkerStep, Boot, GetMessage, Respond, AbsorbInterrupt, RunTask,
         Die, parent
  <2>2. Quiet(w) /\ (wpc[w] # "dead" => ~ki[w])
    <3>1. CASE ppc \in {"stop", "xjoin"} /\ ~raising
      BY <3>1 DEF Interrupted, Leaving, NonePending
    <3>2. CASE outcome \in {"returned", "raised"}
      BY <3>2 DEF Leaving, Quiet
    <3> QED
      BY <2>1, <3>1, <3>2
  <2>3. state' = state
    BY <1>4, <2>2, QuietWorker
  <2> QED
    BY <2>1, <2>3 DEF Ended, AllFinished, Failed
<1>5. CASE UNCHANGED vars
  BY <1>5 DEF vars, Ended, AllFinished, Failed
<1> QED
  BY <1>1, <1>2, <1>3, <1>4, <1>5 DEF Next

-----------------------------------------------------------------------------
(***************************************************************************)
(* The results.                                                            *)
(***************************************************************************)
\* The invariant holds before the call.
LEMMA PoolInit == Init => PoolInv
<1> SUFFICES ASSUME Init PROVE PoolInv
  OBVIOUS
<1>1. TypeOK /\ Interrupted /\ NonePending
  BY TypeInit DEF Init, Interrupted, NonePending
<1>2. NothingStarted
  BY DEF Init, NothingStarted
<1>3. Unreported = Worker /\ Len(resp) = 0
  BY DEF Init, Unreported
<1>4. Booting
  <2>1. Cardinality(Unreported) + Len(resp) = Concurrency
    BY <1>3, SizesFact
  <2>2. \A w \in Worker : wpc[w] = "unborn" <=> w >= idx
    BY SizesFact DEF Init, Worker
  <2> QED
    BY <1>2, <2>1, <2>2 DEF Init, Booting
<1>5. Looping /\ Ended /\ Leaving
  BY DEF Init, Looping, Ended, Leaving
<1> QED
  BY <1>1, <1>4, <1>5 DEF PoolInv

\* What the phases of the call promise each other.
LEMMA PoolInvariant == Spec => []PoolInv
<1>1. PoolInv /\ [Next]_vars => PoolInv'
  BY TypeStep, InterruptedStep, NonePendingStep, BootingStep, LoopingStep,
     LeavingStep, EndedStep DEF PoolInv
<1> QED
  BY <1>1, PoolInit, PTL DEF Spec

\* StartTask's assertion never fails, and a worker on the stack of available
\* ones owes the parent nothing while every other one owes it exactly one
\* task, whatever the order in which tasks end and responses are read.
THEOREM StackSound == Spec => []StackIsFreeWorkers
<1>1. PoolInv => StackIsFreeWorkers
  <2> SUFFICES ASSUME PoolInv, ppc = "loop", NEW w \in Worker
               PROVE  Load(w) = IF OnStack(w) THEN 0 ELSE 1
    BY DEF StackIsFreeWorkers, OnStack, PoolInv, Looping, Held
  <2> DEFINE Owes(t) == \/ \E i \in 1..Len(tq[w]) : tq[w][i] = t
                        \/ cur[w] = t
                        \/ \E i \in 1..Len(resp) : resp[i] = <<w, t>>
  <2>1. OneThing(w) /\ Placed /\ TypeOK
    BY DEF PoolInv, Looping, Held
  <2>2. Load(w) = Cardinality({t \in Task : Owes(t)})
    BY DEF Load
  <2>3. \A t \in Task : (\E i \in 1..Len(resp) : resp[i] = <<w, t>>) => Responded(w)
    BY DEF Responded
  <2>4. CASE OnStack(w)
    <3>1. tq[w] = << >> /\ cur[w] = NoTask /\ ~Responded(w)
      BY <2>1, <2>4 DEF OneThing
    <3>2. \A t \in Task : ~Owes(t)
      BY <2>3, <3>1, SizesFact
    <3>3. {t \in Task : Owes(t)} = {}
      BY <3>2
    <3> QED
      BY <2>2, <2>4, <3>3, FS_EmptySet
  <2>5. CASE ~OnStack(w)
    <3>1. \E t0 \in Task : \A t \in Task : Owes(t) <=> t = t0
      <4>1. CASE tq[w] # << >>
        <5>1. /\ Len(tq[w]) = 1 /\ tq[w][1] \in Task
              /\ cur[w] = NoTask /\ ~Responded(w)
          <6>1. tq[w] \in Seq(Message) /\ Len(tq[w]) <= 1
            BY <2>1 DEF TypeOK, OneThing
          <6> QED
            BY <2>1, <4>1, <6>1, SingleFact DEF OneThing, Placed
        <5>2. \A t \in Task : Owes(t) <=> t = tq[w][1]
          BY <2>3, <5>1, SizesFact
        <5> QED
          BY <5>1, <5>2
      <4>2. CASE tq[w] = << >> /\ wpc[w] # "get"
        <5>1. cur[w] \in Task /\ ~Responded(w)
          BY <2>1, <4>2 DEF TypeOK, OneThing
        <5>2. \A t \in Task : Owes(t) <=> t = cur[w]
          BY <2>3, <4>2, <5>1
        <5> QED
          BY <5>1, <5>2
      <4>3. CASE tq[w] = << >> /\ wpc[w] = "get"
        <5>1. cur[w] = NoTask /\ Responded(w)
          BY <2>1, <2>5, <4>3 DEF OneThing
        <5>2. PICK i \in 1..Len(resp) : resp[i][1] = w
          BY <5>1 DEF Responded
        <5>3. resp[i][2] \in Task /\ resp[i] = <<w, resp[i][2]>>
          BY <2>1, <5>2 DEF Placed, TypeOK
        <5>4. ASSUME NEW t \in Task, Owes(t) PROVE t = resp[i][2]
          <6>1. PICK j \in 1..Len(resp) : resp[j] = <<w, t>>
            BY <4>3, <5>1, <5>4, SizesFact
          <6>2. i = j
            BY <5>2, <6>1 DEF PoolInv, Looping, Held
          <6> QED
            BY <6>1, <6>2
        <5>5. Owes(resp[i][2])
          BY <5>3
        <5>6. \A t \in Task : Owes(t) <=> t = resp[i][2]
          <6> HIDE DEF Owes
          <6> QED
            BY <5>4, <5>5
        <5> HIDE DEF Owes
        <5> QED
          BY <5>3, <5>6
      <4> QED
        BY <4>1, <4>2, <4>3
    <3>2. \E t0 : {t \in Task : Owes(t)} = {t0}
      <4>1. PICK t0 \in Task : \A t \in Task : Owes(t) <=> t = t0
        BY <3>1
      <4> HIDE DEF Owes
      <4>2. {t \in Task : Owes(t)} = {t0}
        BY <4>1
      <4> QED
        BY <4>2
    <3>3. Cardinality({t \in Task : Owes(t)}) = 1
      BY <3>2, FS_Singleton
    <3> QED
      BY <2>2, <2>5, <3>3
  <2> QED
    BY <2>4, <2>5
<1> QED
  BY <1>1, PoolInvariant, PTL

\* When the call returns or raises, every target has run to its end, the
\* message lists exactly the failed ones, and every worker has ended.
THEOREM OutcomeSound == Spec => []OutcomeIsComplete
<1>1. PoolInv => OutcomeIsComplete
  <2> SUFFICES ASSUME PoolInv, outcome \in {"returned", "raised"}
               PROVE  /\ \A t \in Task : Finished(t)
                      /\ {errors[i] : i \in 1..Len(errors)} = Failed
                      /\ Len(errors) = Cardinality(Failed)
                      /\ outcome = "returned" <=> errors = << >>
                      /\ \A w \in Worker : wpc[w] = "dead"
    BY DEF OutcomeIsComplete
  <2>1. AllFinished /\ errors \in Seq(Task) /\ Len(errors) \in Nat
    BY DEF PoolInv, Ended, TypeOK
  <2>2. \A t \in Task : Finished(t)
    BY <2>1 DEF AllFinished, Finished, Failed
  <2>3. Failed \subseteq Task
    BY DEF Failed
  <2>4. \A i \in 1..Len(errors) : errors[i] \in Failed
    BY <2>1 DEF AllFinished
  <2>5. {errors[i] : i \in 1..Len(errors)} = Failed
    BY <2>1, <2>3, <2>4 DEF AllFinished
  <2>6. Len(errors) = Cardinality(Failed)
    <3>1. errors \in [1..Len(errors) -> Failed]
      BY <2>1, <2>4
    <3>2. errors \in Injection(1..Len(errors), Failed)
      BY <2>1, <3>1 DEF AllFinished, Injection, IsInjective
    <3>3. errors \in Surjection(1..Len(errors), Failed)
      BY <2>1, <2>3, <3>1 DEF AllFinished, Surjection
    <3>4. ExistsBijection(1..Len(errors), Failed)
      BY <3>2, <3>3 DEF Bijection, ExistsBijection
    <3> QED
      BY <2>1, <3>4, FS_CountingElements
  <2>7. /\ outcome = "returned" <=> errors = << >>
        /\ \A w \in Worker : wpc[w] = "dead"
    BY DEF PoolInv, Leaving
  <2> QED
    BY <2>2, <2>5, <2>6, <2>7
<1> QED
  BY <1>1, PoolInvariant, PTL

\* No target runs on after the call was left, unless it took three interrupts
\* to leave it.
THEOREM NoTaskOutlives == Spec => []NoTaskOutlivesCall
<1>1. PoolInv => NoTaskOutlivesCall
  <2> SUFFICES ASSUME PoolInv, ppc = "done", interrupts <= 2, NEW w \in Worker
               PROVE  wpc[w] # "run"
    BY DEF NoTaskOutlivesCall
  <2>1. interrupts < 3
    BY SizesFact DEF PoolInv, TypeOK
  <2> QED
    BY <2>1 DEF PoolInv, Leaving, Quiet
<1> QED
  BY <1>1, PoolInvariant, PTL
=============================================================================
