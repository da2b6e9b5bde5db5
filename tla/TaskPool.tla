------------------------------ MODULE TaskPool ------------------------------
(***************************************************************************)
(* One call of RunParallelThreads (background_tasks.py): the parent thread *)
(* in _RunParallelTasks with its _BackgroundThreadTaskManager, the worker  *)
(* threads in _ExecuteBackgroundThreadTasks, and KeyboardInterrupts.       *)
(*                                                                         *)
(* A KeyboardInterrupt may strike the parent between any two of its steps, *)
(* Put's append and its release included.  What happens next depends only  *)
(* on where the parent is: in the manager's __init__ it escapes; in the    *)
(* loop HandleKeyboardInterrupt runs and then __exit__; in the handler     *)
(* __exit__ runs; in __exit__ it escapes.  The handler passes the          *)
(* interrupt on with PyThreadState_SetAsyncExc, which a worker sees at its *)
(* next bytecode, so not while it is blocked in lock.acquire.              *)
(*                                                                         *)
(* A worker's queue is a _NonPollingSingleReaderQueue (NonPollingQueue);   *)
(* here its Get is one step, enabled when the lock is free, and the        *)
(* parent's Put is two.  The response queue is a _SingleReaderQueue.       *)
(***************************************************************************)
EXTENDS Naturals, Sequences, FiniteSets

CONSTANTS NumTasks,        \* len(target_arg_tuples)
          MaxConcurrency,  \* the max_concurrency argument
          MaxInterrupts,   \* bound: KeyboardInterrupts the parent receives
          Absorbing        \* tasks whose target swallows a KeyboardInterrupt
                           \* or turns it into another exception

ASSUME PoolAssumption ==
    /\ NumTasks \in Nat /\ MaxConcurrency \in Nat \ {0}
    /\ MaxInterrupts \in Nat
    /\ Absorbing \subseteq 1..NumTasks

VARIABLES ppc,       \* where the parent is
          idx,       \* counter of the parent's current `for` loop
          unsig,     \* worker whose Put is between append and release
          started, active, avail, errors,   \* locals of the loop and manager
          raising,   \* a KeyboardInterrupt is propagating
          interrupts,\* how many the parent has received
          outcome,   \* how the call ended
          tq, sig,   \* per worker: deque and "lock is free" of its queue
          resp,      \* the response queue
          wpc, cur, ki,  \* per worker: place, current task, pending interrupt
          state      \* per task: what became of it

parent == <<ppc, idx, unsig, started, active, avail, errors, raising,
            interrupts, outcome>>
vars == <<ppc, idx, unsig, started, active, avail, errors, raising,
          interrupts, outcome, tq, sig, resp, wpc, cur, ki, state>>

\* max_concurrency = min(max_concurrency, len(target_arg_tuples))
Concurrency == IF MaxConcurrency < NumTasks THEN MaxConcurrency ELSE NumTasks
Worker == 0..(Concurrency - 1)
Task == 1..NumTasks

NoWorker == Concurrency      \* no Put is under way
NoTask == 0
StopProcessing == NumTasks + 1            \* _THREAD_STOP_PROCESSING
WaitForInterrupt == NumTasks + 2  \* _THREAD_WAIT_FOR_KEYBOARD_INTERRUPT
Message == 1..(NumTasks + 2)

Booted(w) == <<w, NoTask>>   \* response: the worker's bootstrap is done

Init ==
    /\ ppc = "start" /\ idx = 0 /\ unsig = NoWorker
    /\ started = 0 /\ active = 0 /\ errors = << >>
    /\ avail = [i \in 1..Concurrency |-> i - 1]   \* list(range(...)), a stack
    /\ raising = FALSE /\ interrupts = 0 /\ outcome = "none"
    /\ tq = [w \in Worker |-> << >>] /\ sig = [w \in Worker |-> FALSE]
    /\ resp = << >>
    /\ wpc = [w \in Worker |-> "unborn"]
    /\ cur = [w \in Worker |-> NoTask]
    /\ ki = [w \in Worker |-> FALSE]
    /\ state = [t \in Task |-> "new"]

\* Tasks that ended with a traceback; an interrupt that the target turned
\* into another exception is one too.
Failed == {t \in Task : state[t] \in {"failed", "absorbed"}}

-----------------------------------------------------------------------------
(***************************************************************************)
(* The parent.                                                             *)
(***************************************************************************)
PutAppend(w, msg) ==
    /\ tq' = [tq EXCEPT ![w] = Append(@, msg)]
    /\ unsig' = w

\* The second half of every Put of the parent.
PutRelease ==
    /\ unsig # NoWorker
    /\ sig' = [sig EXCEPT ![unsig] = TRUE]
    /\ unsig' = NoWorker
    /\ UNCHANGED <<ppc, idx, started, active, avail, errors, raising,
                   interrupts, outcome, tq, resp, wpc, cur, ki, state>>

\* One round of a `for` over the workers in phase pc: body(w), and the next
\* phase when they are exhausted.
Advance(pc, next) ==
    /\ ppc = pc /\ unsig = NoWorker /\ idx = Concurrency
    /\ ppc' = next /\ idx' = 0
    /\ UNCHANGED <<unsig, started, active, avail, errors, raising, interrupts,
                   outcome, tq, sig, resp, wpc, cur, ki, state>>

InLoop(pc) == ppc = pc /\ unsig = NoWorker /\ idx < Concurrency /\ idx' = idx + 1

(***************************************************************************)
(* Faulty variants of the parent's steps, each a bug the code could have   *)
(* had; every property at the end of the module is broken by one of them.  *)
(***************************************************************************)
\* StartTask looks at the top of the stack and leaves it there.
StartTaskPeeks ==
    /\ ppc = "loop" /\ unsig = NoWorker
    /\ started < NumTasks /\ active < Concurrency
    /\ avail # << >>
    /\ PutAppend(avail[Len(avail)], started + 1)
    /\ state' = [state EXCEPT ![started + 1] = "queued"]
    /\ started' = started + 1
    /\ active' = active + 1
    /\ UNCHANGED <<ppc, idx, avail, errors, raising, interrupts, outcome, sig,
                   resp, wpc, cur, ki>>

\* The loop without `or active_task_count`.
LeaveLoopEarly ==
    /\ ppc = "loop" /\ unsig = NoWorker
    /\ started = NumTasks
    /\ ppc' = "stop"
    /\ UNCHANGED <<idx, unsig, started, active, avail, errors, raising,
                   interrupts, outcome, tq, sig, resp, wpc, cur, ki, state>>

\* Only the workers that run a task are interrupted.
SetAsyncExcIfBusy ==
    /\ InLoop("setexc")
    /\ ki' = [ki EXCEPT ![idx] = wpc[idx] = "run"]
    /\ UNCHANGED <<ppc, unsig, started, active, avail, errors, raising,
                   interrupts, outcome, tq, sig, resp, wpc, cur, state>>

\* Blocked workers are not woken.
WakeNobody ==
    /\ InLoop("wake")
    /\ UNCHANGED <<ppc, unsig, started, active, avail, errors, raising,
                   interrupts, outcome, tq, sig, resp, wpc, cur, ki, state>>

\* __exit__ and the handler do not wait for the threads.
JoinNobody ==
    /\ InLoop("hjoin") \/ InLoop("xjoin")
    /\ UNCHANGED <<ppc, unsig, started, active, avail, errors, raising,
                   interrupts, outcome, tq, sig, resp, wpc, cur, ki, state>>

\* The manager's __init__ starts a thread per worker ...
StartThread ==
    /\ InLoop("start")
    /\ wpc' = [wpc EXCEPT ![idx] = "boot"]
    /\ UNCHANGED <<ppc, unsig, started, active, avail, errors, raising,
                   interrupts, outcome, tq, sig, resp, cur, ki, state>>

\* ... and waits for each to report.
AwaitBoot ==
    /\ InLoop("boot")
    /\ resp # << >>
    /\ resp' = Tail(resp)
    /\ UNCHANGED <<ppc, unsig, started, active, avail, errors, raising,
                   interrupts, outcome, tq, sig, wpc, cur, ki, state>>

\* The `with` has been entered, the `try` begins.
EnterTry ==
    /\ ppc = "enter"
    /\ ppc' = "loop"
    /\ UNCHANGED <<idx, unsig, started, active, avail, errors, raising,
                   interrupts, outcome, tq, sig, resp, wpc, cur, ki, state>>

StartTask ==
    /\ ppc = "loop" /\ unsig = NoWorker
    /\ started < NumTasks /\ active < Concurrency
    /\ avail # << >>                             \* the assertion of StartTask
    /\ PutAppend(avail[Len(avail)], started + 1)
    /\ avail' = SubSeq(avail, 1, Len(avail) - 1)
    /\ state' = [state EXCEPT ![started + 1] = "queued"]
    /\ started' = started + 1
    /\ active' = active + 1
    /\ UNCHANGED <<ppc, idx, errors, raising, interrupts, outcome, sig, resp,
                   wpc, cur, ki>>

AwaitAnyTask ==
    /\ ppc = "loop" /\ unsig = NoWorker
    /\ started = NumTasks \/ active = Concurrency
    /\ active > 0
    /\ resp # << >>
    /\ LET worker == Head(resp)[1]
           task   == Head(resp)[2]
       IN  /\ avail' = Append(avail, worker)
           /\ errors' = IF task \in Failed THEN Append(errors, task)
                                                  ELSE errors
    /\ resp' = Tail(resp)
    /\ active' = active - 1
    /\ UNCHANGED <<ppc, idx, unsig, started, raising, interrupts, outcome, tq,
                   sig, wpc, cur, ki, state>>

LeaveLoop ==
    /\ ppc = "loop" /\ unsig = NoWorker
    /\ started = NumTasks /\ active = 0
    /\ ppc' = "stop"
    /\ UNCHANGED <<idx, unsig, started, active, avail, errors, raising,
                   interrupts, outcome, tq, sig, resp, wpc, cur, ki, state>>

\* HandleKeyboardInterrupt: PyThreadState_SetAsyncExc, a no-op on a thread
\* that has ended ...
SetAsyncExc ==
    /\ InLoop("setexc")
    /\ ki' = [ki EXCEPT ![idx] = wpc[idx] # "dead"]
    /\ UNCHANGED <<ppc, unsig, started, active, avail, errors, raising,
                   interrupts, outcome, tq, sig, resp, wpc, cur, state>>

\* ... wake the workers that are blocked in Get ...
WakeWorker ==
    /\ InLoop("wake")
    /\ PutAppend(idx, WaitForInterrupt)
    /\ UNCHANGED <<ppc, started, active, avail, errors, raising, interrupts,
                   outcome, sig, resp, wpc, cur, ki, state>>

\* __exit__: tell every worker to stop ...
StopWorker ==
    /\ InLoop("stop")
    /\ PutAppend(idx, StopProcessing)
    /\ UNCHANGED <<ppc, started, active, avail, errors, raising, interrupts,
                   outcome, sig, resp, wpc, cur, ki, state>>

\* ... and, in both, wait for each thread to end.
JoinWorker ==
    /\ InLoop("hjoin") \/ InLoop("xjoin")
    /\ wpc[idx] = "dead"
    /\ UNCHANGED <<ppc, unsig, started, active, avail, errors, raising,
                   interrupts, outcome, tq, sig, resp, wpc, cur, ki, state>>

\* After __exit__: the interrupt goes on, or the errors are raised, or the
\* list of return values is returned.
Finish ==
    /\ ppc = "xjoin" /\ idx = Concurrency
    /\ ppc' = "done"
    /\ outcome' = IF raising THEN "interrupted"
                  ELSE IF errors # << >> THEN "raised" ELSE "returned"
    /\ UNCHANGED <<idx, unsig, started, active, avail, errors, raising,
                   interrupts, tq, sig, resp, wpc, cur, ki, state>>

Parent ==
    \/ PutRelease \/ StartThread \/ AwaitBoot \/ EnterTry
    \/ StartTask \/ AwaitAnyTask \/ LeaveLoop
    \/ SetAsyncExc \/ WakeWorker \/ StopWorker \/ JoinWorker \/ Finish
    \/ Advance("start", "boot") \/ Advance("boot", "enter")
    \/ Advance("setexc", "wake") \/ Advance("wake", "hjoin")
    \/ Advance("hjoin", "stop") \/ Advance("stop", "xjoin")

-----------------------------------------------------------------------------
(***************************************************************************)
(* KeyboardInterrupt in the parent: the release of a Put under way is      *)
(* skipped, and control goes to the innermost handler.                     *)
(***************************************************************************)
InterruptTo(pc) ==
    /\ interrupts < MaxInterrupts
    /\ interrupts' = interrupts + 1
    /\ raising' = TRUE
    /\ unsig' = NoWorker
    /\ ppc' = pc /\ idx' = 0
    /\ outcome' = IF pc = "done" THEN "interrupted" ELSE outcome
    /\ UNCHANGED <<started, active, avail, errors, tq, sig, resp, wpc, cur,
                   ki, state>>

\* Faulty variant: an interrupt in __exit__ starts __exit__ again.
InterruptRestartsExit ==
    \/ ppc \in {"start", "boot"} /\ InterruptTo("done")
    \/ ppc \in {"stop", "xjoin"} /\ InterruptTo("stop")

\* In __init__ the `with` was never entered; in __exit__ nothing is left.
InterruptEscapes ==
    ppc \in {"start", "boot", "stop", "xjoin"} /\ InterruptTo("done")

\* Inside the `with` but outside the `try`, and inside the handler.
InterruptToExit ==
    /\ \/ ppc \in {"enter", "setexc", "wake", "hjoin"}
       \/ ppc = "stop" /\ idx = 0 /\ unsig = NoWorker /\ ~raising
    /\ InterruptTo("stop")

InterruptToHandler == ppc = "loop" /\ InterruptTo("setexc")

Interrupt == InterruptEscapes \/ InterruptToExit \/ InterruptToHandler

-----------------------------------------------------------------------------
(***************************************************************************)
(* The workers.                                                            *)
(***************************************************************************)
Boot(w) ==
    /\ wpc[w] = "boot"
    /\ resp' = Append(resp, Booted(w))
    /\ wpc' = [wpc EXCEPT ![w] = "get"]
    /\ UNCHANGED <<parent, tq, sig, cur, ki, state>>

\* task_queue.Get() and the dispatch on what it returned.  A signal that
\* outlived its item only takes the lock back.
GetMessage(w) ==
    /\ wpc[w] = "get" /\ sig[w]
    /\ IF tq[w] = << >>
       THEN /\ sig' = [sig EXCEPT ![w] = FALSE]
            /\ UNCHANGED <<tq, wpc, cur, state>>
       ELSE LET msg == Head(tq[w])
            IN  /\ tq' = [tq EXCEPT ![w] = Tail(@)]
                /\ sig' = [sig EXCEPT ![w] = Len(tq[w]) > 1]
                /\ wpc' = [wpc EXCEPT ![w] =
                             CASE msg = StopProcessing   -> "dead"
                               [] msg = WaitForInterrupt -> "spin"
                               [] OTHER                  -> "run"]
                /\ cur' = [cur EXCEPT ![w] = IF msg \in Task THEN msg ELSE @]
                /\ state' = [t \in Task |-> IF t = msg THEN "running"
                                                       ELSE state[t]]
    /\ UNCHANGED <<parent, resp, ki>>

\* _BackgroundTask.Run: the target returns, or raises an Exception that is
\* kept as the task's traceback.
RunTask(w, result) ==
    /\ wpc[w] = "run"
    /\ state' = [state EXCEPT ![cur[w]] = result]
    /\ wpc' = [wpc EXCEPT ![w] = "put"]
    /\ UNCHANGED <<parent, tq, sig, resp, cur, ki>>

\* The target catches the KeyboardInterrupt (a bare `except:`), or an error
\* raised while it unwinds replaces it: Run returns as for any other task.
AbsorbInterrupt(w) ==
    /\ wpc[w] = "run" /\ ki[w] /\ cur[w] \in Absorbing
    /\ ki' = [ki EXCEPT ![w] = FALSE]
    /\ state' = [state EXCEPT ![cur[w]] = "absorbed"]
    /\ wpc' = [wpc EXCEPT ![w] = "put"]
    /\ UNCHANGED <<parent, tq, sig, resp, cur>>

Respond(w) ==
    /\ wpc[w] = "put"
    /\ resp' = Append(resp, <<w, cur[w]>>)
    /\ cur' = [cur EXCEPT ![w] = NoTask]
    /\ wpc' = [wpc EXCEPT ![w] = "get"]
    /\ UNCHANGED <<parent, tq, sig, ki, state>>

\* The pending KeyboardInterrupt surfaces: the loop ends.  A task it catches
\* inside its target has no result.
Die(w) ==
    /\ ki[w] /\ wpc[w] \in {"get", "run", "put", "spin"}
    /\ wpc' = [wpc EXCEPT ![w] = "dead"]
    /\ ki' = [ki EXCEPT ![w] = FALSE]
    /\ state' = [t \in Task |-> IF wpc[w] = "run" /\ t = cur[w]
                                THEN "interrupted" ELSE state[t]]
    /\ UNCHANGED <<parent, tq, sig, resp, cur>>

WorkerStep(w) ==
    \/ Boot(w) \/ GetMessage(w) \/ Respond(w) \/ AbsorbInterrupt(w)
    \/ \E result \in {"ok", "failed"} : RunTask(w, result)

Next == Parent \/ Interrupt \/ \E w \in Worker : WorkerStep(w) \/ Die(w)

Spec == Init /\ [][Next]_vars

\* Blocked in lock.acquire: the interrupt stays pending.
Blocked(w) == wpc[w] = "get" /\ ~sig[w]

\* Threads keep running, and targets end: a task that never returns keeps its
\* caller waiting by design.  A pending interrupt surfaces in a worker that
\* executes bytecode, the spinning one included.
FairSpec ==
    /\ Spec
    /\ WF_vars(Parent)
    /\ \A w \in Worker : WF_vars(WorkerStep(w))
    /\ \A w \in Worker : WF_vars(~Blocked(w) /\ Die(w))

-----------------------------------------------------------------------------
(***************************************************************************)
(* Properties.                                                             *)
(***************************************************************************)
ParentPc == {"start", "boot", "enter", "loop", "setexc", "wake", "hjoin",
             "stop", "xjoin", "done"}
WorkerPc == {"unborn", "boot", "get", "run", "put", "spin", "dead"}
TaskState == {"new", "queued", "running", "ok", "failed", "absorbed",
              "interrupted"}

TypeOK ==
    /\ ppc \in ParentPc /\ idx \in 0..Concurrency
    /\ unsig \in Worker \cup {NoWorker}
    /\ started \in 0..NumTasks /\ active \in 0..Concurrency
    /\ avail \in Seq(Worker) /\ errors \in Seq(Task)
    /\ raising \in BOOLEAN /\ interrupts \in 0..MaxInterrupts
    /\ outcome \in {"none", "returned", "raised", "interrupted"}
    /\ tq \in [Worker -> Seq(Message)] /\ sig \in [Worker -> BOOLEAN]
    /\ resp \in Seq(Worker \X (Task \cup {NoTask}))
    /\ wpc \in [Worker -> WorkerPc]
    /\ cur \in [Worker -> Task \cup {NoTask}]
    /\ ki \in [Worker -> BOOLEAN]
    /\ state \in [Task -> TaskState]

Finished(t) == state[t] = "ok" \/ t \in Failed

\* Some target used an interrupt up.
Absorbed == \E t \in Task : state[t] = "absorbed"

\* What a worker has still to do for the parent: tasks in its queue, the one
\* it runs or has run, or a response of its own that was not read.
Load(w) ==
    Cardinality({t \in Task : \/ \E i \in 1..Len(tq[w]) : tq[w][i] = t
                              \/ cur[w] = t
                              \/ \E i \in 1..Len(resp) : resp[i] = <<w, t>>})

\* StartTask's assertion never fails and no worker is given a second task
\* while it has one: in the loop a worker is on the stack of available ones
\* exactly when it owes nothing, and active_task_count counts the others.
StackIsFreeWorkers ==
    ppc = "loop" =>
      /\ active + Len(avail) = Concurrency
      /\ \A w \in Worker :
           Load(w) = IF \E i \in 1..Len(avail) : avail[i] = w THEN 0 ELSE 1

\* The call returns the list only if every target returned, and raises only
\* with every task finished and exactly the failed ones in the message: one
\* failure does not keep the others from being run, waited for or reported.
OutcomeIsComplete ==
    outcome \in {"returned", "raised"} =>
      /\ \A t \in Task : Finished(t)
      /\ {errors[i] : i \in 1..Len(errors)} = Failed
      /\ Len(errors) = Cardinality(Failed)
      /\ outcome = "returned" <=> errors = << >>
      /\ \A w \in Worker : wpc[w] = "dead"

\* No target is still running when the call is left, unless the user
\* interrupted it three times: the first interrupt waits for the workers, the
\* second still waits in __exit__.
NoTaskOutlivesCall ==
    ppc = "done" /\ interrupts <= 2 => \A w \in Worker : wpc[w] # "run"

\* The third interrupt always gives control back to the caller, also when
\* workers hang because a target swallowed the first.
ThirdInterruptFrees == interrupts >= 3 => ppc = "done"

\* The call ends, however often the user interrupts it, unless a target used
\* an interrupt up: the worker then sleeps for one that does not come.
CallEnds == <>(ppc = "done" \/ Absorbed)

\* "Ensures that any child thread also receives a KeyboardInterrupt, and then
\* waits for each child thread to stop executing": an interrupt in the loop
\* ends every worker, also when a second one cuts the handler short.  It may
\* fail only where a target used its interrupt up or a third one escapes.
InterruptStopsWorkers ==
    (ppc = "setexc") ~>
        \/ \A w \in Worker : wpc[w] = "dead"
        \/ Absorbed \/ interrupts >= 3
=============================================================================
