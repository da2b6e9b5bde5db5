---------------------------- MODULE IssueCommand ----------------------------
(***************************************************************************)
(* One call of IssueCommand (vm_util.py): the calling thread, the          *)
(* threading.Timer that kills the process when the timeout is over, and    *)
(* the process itself.  With --time_commands the process is /usr/bin/time  *)
(* and the command is its child: a SIGKILL to the one does not reach the   *)
(* other.                                                                  *)
(*                                                                         *)
(* The timer may wake when the process has just ended, and the caller may  *)
(* go on while the timer is in _KillProcess; nothing but the order of the  *)
(* assignments keeps the two consistent.                                   *)
(***************************************************************************)
EXTENDS Naturals

VARIABLES opts,        \* the arguments of the call
          main,        \* where the calling thread is
          timer,       \* where the timer thread is
          finished,    \* timer.finished, the event that cancel() sets
          process,     \* how the process IssueCommand started ended
          command,     \* how the command itself ended
          returncode,  \* process.returncode as the caller reads it
          did_timeout, was_killed,    \* the boxed locals
          result,      \* how the call ended
          expired  \* history: the timer woke before it was cancelled

callVars == <<opts, main, timer, finished, process, command, returncode,
              did_timeout, was_killed, result, expired>>

\* suppress_failure is absent, or given and says yes or no.
Options == [timeout : BOOLEAN,           \* a number rather than None
            raise_on_timeout : BOOLEAN, raise_on_failure : BOOLEAN,
            suppress : {"absent", "yes", "no"},
            should_time : BOOLEAN]

Exits == {"zero", "nonzero"}

CallInit ==
    /\ opts \in Options
    /\ main = "popen" /\ timer = "none" /\ finished = FALSE
    /\ process = "none" /\ command = "none" /\ returncode = "none"
    /\ did_timeout = FALSE /\ was_killed = FALSE
    /\ result = "none" /\ expired = FALSE

-----------------------------------------------------------------------------
(***************************************************************************)
(* The calling thread.                                                     *)
(***************************************************************************)
\* subprocess.Popen, and a TypeError or OSError of it.
Popen ==
    /\ main = "popen"
    /\ \/ /\ process' = "running" /\ command' = "running"
          /\ main' = "start" /\ UNCHANGED result
       \/ /\ main' = "done" /\ result' = "not_started"
          /\ UNCHANGED <<process, command>>
    /\ UNCHANGED <<opts, timer, finished, returncode, did_timeout, was_killed,
                   expired>>

\* threading.Timer(timeout, _KillProcess).start(); with None it never wakes.
StartTimer ==
    /\ main = "start"
    /\ timer' = "waiting"
    /\ main' = "wait"
    /\ UNCHANGED <<opts, finished, process, command, returncode, did_timeout,
                   was_killed, result, expired>>

\* Faulty variant: the wait is given up as soon as the timer has woken.
WaitUntilTimeout ==
    /\ main = "wait" /\ (process # "running" \/ did_timeout)
    /\ returncode' = IF process = "running" THEN "nonzero" ELSE process
    /\ main' = "cancel"
    /\ UNCHANGED <<opts, timer, finished, process, command, did_timeout,
                   was_killed, result, expired>>

\* process.wait()
Wait ==
    /\ main = "wait" /\ process # "running"
    /\ returncode' = process
    /\ main' = "cancel"
    /\ UNCHANGED <<opts, timer, finished, process, command, did_timeout,
                   was_killed, result, expired>>

\* A KeyboardInterrupt in process.wait(): the finally block cancels the timer
\* and nobody kills the process.
Interrupt ==
    /\ main = "wait"
    /\ finished' = TRUE
    /\ main' = "done" /\ result' = "interrupted"
    /\ UNCHANGED <<opts, timer, process, command, returncode, did_timeout,
                   was_killed, expired>>

\* timer.cancel(), and the output is read.
Cancel ==
    /\ main = "cancel"
    /\ finished' = TRUE
    /\ main' = "raise"
    /\ UNCHANGED <<opts, timer, process, command, returncode, did_timeout,
                   was_killed, result, expired>>

\* The timeout counts before the return code; a suppressed failure returns 0.
Outcome ==
    IF did_timeout /\ opts.raise_on_timeout THEN "timeout"
    ELSE IF returncode = "zero" \/ opts.suppress = "yes" THEN "zero"
    ELSE IF opts.raise_on_failure THEN "error" ELSE "nonzero"

\* Raise or return.
Finish ==
    /\ main = "raise"
    /\ result' = Outcome
    /\ main' = "done"
    /\ UNCHANGED <<opts, timer, finished, process, command, returncode,
                   did_timeout, was_killed, expired>>

Main == Popen \/ StartTimer \/ Wait \/ Interrupt \/ Cancel \/ Finish

-----------------------------------------------------------------------------
(***************************************************************************)
(* The timer thread: Timer.run and _KillProcess.                           *)
(***************************************************************************)
\* finished.wait(interval) returns, because of the time or of cancel().
Wake ==
    /\ timer = "waiting"
    /\ finished \/ opts.timeout
    /\ timer' = "check"
    /\ expired' = ~finished
    /\ UNCHANGED <<opts, main, finished, process, command, returncode,
                   did_timeout, was_killed, result>>

\* Faulty variant: the function is called without a look at the event.
CheckNothing ==
    /\ timer = "check"
    /\ timer' = "mark"
    /\ UNCHANGED <<opts, main, finished, process, command, returncode,
                   did_timeout, was_killed, result, expired>>

\* if not self.finished.is_set()
CheckFinished ==
    /\ timer = "check"
    /\ timer' = IF finished THEN "over" ELSE "mark"
    /\ UNCHANGED <<opts, main, finished, process, command, returncode,
                   did_timeout, was_killed, result, expired>>

\* did_timeout.value = True
MarkTimeout ==
    /\ timer = "mark"
    /\ did_timeout' = TRUE
    /\ timer' = "kill"
    /\ UNCHANGED <<opts, main, finished, process, command, returncode,
                   was_killed, result, expired>>

\* Faulty variant: SIGTERM, which a process may ignore.
Terminate ==
    /\ timer = "kill"
    /\ timer' = "killed"
    /\ UNCHANGED <<opts, main, finished, process, command, returncode,
                   did_timeout, was_killed, result, expired>>

\* process.kill(): nothing if the process has ended.
Kill ==
    /\ timer = "kill"
    /\ timer' = "killed"
    /\ IF process = "running"
       THEN /\ process' = "sigkill"
            /\ command' = IF opts.should_time THEN command ELSE "sigkill"
       ELSE UNCHANGED <<process, command>>
    /\ UNCHANGED <<opts, main, finished, returncode, did_timeout, was_killed,
                   result, expired>>

\* was_killed.value = True
MarkKilled ==
    /\ timer = "killed"
    /\ was_killed' = TRUE
    /\ timer' = "over"
    /\ UNCHANGED <<opts, main, finished, process, command, returncode,
                   did_timeout, result, expired>>

\* Faulty variant: _KillProcess kills first and sets did_timeout after it.
TimerKillsFirst ==
    \/ Wake \/ CheckFinished \/ MarkKilled
    \/ /\ timer = "mark" /\ timer' = "kill"
       /\ process' = IF process = "running" THEN "sigkill" ELSE process
       /\ command' = IF process = "running" /\ ~opts.should_time
                     THEN "sigkill" ELSE command
       /\ UNCHANGED <<opts, main, finished, returncode, did_timeout,
                      was_killed, result, expired>>
    \/ /\ timer = "kill" /\ timer' = "killed" /\ did_timeout' = TRUE
       /\ UNCHANGED <<opts, main, finished, process, command, returncode,
                      was_killed, result, expired>>

Timer == Wake \/ CheckFinished \/ MarkTimeout \/ Kill \/ MarkKilled

-----------------------------------------------------------------------------
\* The command ends by itself; /usr/bin/time ends with it and its code.
EndCommand(code) ==
    /\ command = "running"
    /\ command' = code
    /\ process' = IF process = "running" THEN code ELSE process
    /\ UNCHANGED <<opts, main, timer, finished, returncode, did_timeout,
                   was_killed, result, expired>>

CallNext == Main \/ Timer \/ \E code \in Exits : EndCommand(code)

CallSpec == CallInit /\ [][CallNext]_callVars

\* Threads run; a command need not end, and a user need not interrupt.
FairCallSpec ==
    /\ CallSpec
    /\ WF_callVars(Popen \/ StartTimer \/ Wait \/ Cancel \/ Finish)
    /\ WF_callVars(Timer)

-----------------------------------------------------------------------------
(***************************************************************************)
(* Properties.                                                             *)
(***************************************************************************)
CallTypeOK ==
    /\ opts \in Options
    /\ main \in {"popen", "start", "wait", "cancel", "raise", "done"}
    /\ timer \in {"none", "waiting", "check", "mark", "kill", "killed", "over"}
    /\ finished \in BOOLEAN /\ did_timeout \in BOOLEAN
    /\ was_killed \in BOOLEAN /\ expired \in BOOLEAN
    /\ process \in Exits \cup {"none", "running", "sigkill"}
    /\ command \in Exits \cup {"none", "running", "sigkill"}
    /\ returncode \in Exits \cup {"none", "sigkill"}
    /\ result \in Exits \cup {"none", "not_started", "interrupted", "timeout",
                              "error"}

Ended == result \notin {"none", "interrupted"}

\* A process that IssueCommand killed is never taken for one that failed by
\* itself: the caller gets the timeout error if it wants one, and with
\* raise_on_timeout=False success only if suppress_failure said so.
KilledIsReported ==
    Ended /\ process = "sigkill" =>
      \/ result = "timeout"
      \/ ~opts.raise_on_timeout /\ (result = "zero" => opts.suppress = "yes")

\* The timeout error needs the timer to have woken before it was cancelled:
\* a command that was waited for in time cannot time out any more, however
\* late the timer thread runs.
TimeoutIsTimely == result = "timeout" => opts.timeout /\ expired

\* "If the command has not finished before the timeout is reached, it will be
\* killed": once the call has returned or raised, the command is over, unless
\* /usr/bin/time was killed in its place.
NothingLeftRunning == Ended /\ command = "running" => opts.should_time

\* A call with a timeout ends, whatever the command does.
IssueEnds == opts.timeout ~> (main = "done")
=============================================================================
