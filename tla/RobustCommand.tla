---------------------------- MODULE RobustCommand ----------------------------
(***************************************************************************)
(* RobustRemoteCommand (linux_virtual_machine.py) and the two scripts it   *)
(* runs on the VM.  scripts/execute_command.py runs the command in the     *)
(* background under an exclusive lock on a status file, into which it      *)
(* writes the return code; scripts/wait_for_command.py waits for a shared  *)
(* lock on that file and, when called for the last time, copies the output *)
(* and deletes the files.  Every script is started over ssh and the caller *)
(* starts it again when ssh returns 255, whether or not the first one is   *)
(* still running on the VM.                                                *)
(*                                                                         *)
(* A file is the i-node some execute_command created, so that a lock on a  *)
(* status file that was deleted protects nothing.  The locks are not       *)
(* variables: an execute_command holds the exclusive lock between Lock and *)
(* Close, a wait_for_command the shared one while it is at "read".  stdout *)
(* and stderr are one output file.                                         *)
(***************************************************************************)
EXTENDS Naturals, FiniteSets

CONSTANTS Retries,    \* FLAGS.ssh_retries
          MaxFaults   \* bound: ssh failures, crashes, late starts and refused
                      \* locks in all

ASSUME RobustAssumption == Retries \in Nat \ {0} /\ MaxFaults \in Nat

Execs == 1..Retries           \* execute_command processes, one per attempt
Slots == 1..(MaxFaults + 1)   \* wait_for_command processes alive at a time
None == 0

Codes == {"ok", "fail", "c255"}   \* return codes: 0, others, 255

VARIABLES client,     \* the call of RobustRemoteCommand
          exec,       \* per execute_command: where it is
          ino,        \* per execute_command: the status file it has open
          cmd,        \* per execute_command: its command
          status,     \* the file at the status path, or None
          content,    \* per status file: the code in it, or "empty"
          exclusive,  \* the exclusive file exists
          output,     \* the file at the stdout path
          waiter,     \* the wait_for_command processes
          faults      \* history: what has gone wrong so far

vars == <<client, exec, ino, cmd, status, content, exclusive, output, waiter,
          faults>>
remote == <<exec, ino, cmd>>
files == <<status, content, exclusive, output>>

NoOutput == [by |-> None, full |-> FALSE]
Idle == [pc |-> "idle", last |-> FALSE, ino |-> None, code |-> "empty",
         finished |-> FALSE, full |-> FALSE]
NoFault == [n |-> 0, start |-> FALSE, last |-> FALSE, hang |-> FALSE,
            slow |-> FALSE, crash |-> FALSE, refused |-> FALSE]

Init ==
    /\ client \in [pc : {"start"}, tries : {0}, att : {None}, code : {"none"},
                   full : {FALSE}, ignore_failure : BOOLEAN]
    /\ exec = [e \in Execs |-> "none"]
    /\ ino = [e \in Execs |-> None]
    /\ cmd = [e \in Execs |-> "none"]
    /\ status = None /\ content = [e \in Execs |-> "empty"]
    /\ exclusive = FALSE /\ output = NoOutput
    /\ waiter = [w \in Slots |-> Idle]
    /\ faults = NoFault

\* Something goes wrong, as f remembers.
Fault(f) == /\ faults.n < MaxFaults
            /\ faults' = [f EXCEPT !.n = faults.n + 1]

-----------------------------------------------------------------------------
(***************************************************************************)
(* The caller.                                                             *)
(***************************************************************************)
\* Each attempt to start has an execute_command of its own.
Spawn == exec' = [exec EXCEPT ![client.tries + 1] = "init"]

\* The loop of RemoteHostCommandWithReturnCode after a return code of 255:
\* another attempt, or the error after the last one.  Only the last wait
\* passes ignore_failure on, and an error of the start is not caught.
Retry(c) ==
    IF c.tries + 1 < Retries
    THEN [c EXCEPT !.tries = @ + 1, !.att = None]
    ELSE [c EXCEPT !.tries = 0, !.att = None,
            !.code = "c255",
            !.pc = IF @ = "start" THEN "raised"
                   ELSE IF @ = "last" /\ c.ignore_failure THEN "returned"
                   ELSE "log"]

\* The start command goes to the background at once.
Start ==
    /\ client.pc = "start"
    /\ Spawn
    /\ client' = [client EXCEPT !.pc = "wait", !.tries = 0]
    /\ UNCHANGED <<ino, cmd, files, waiter, faults>>

\* ssh returns 255, before or after the VM has started the script.
StartLost ==
    /\ client.pc = "start"
    /\ Fault([faults EXCEPT !.start = TRUE])
    /\ client' = Retry(client)
    /\ \/ Spawn
       \/ UNCHANGED exec
    /\ UNCHANGED <<ino, cmd, files, waiter>>

\* RemoteCommand of the wait script, with or without --delete.
IssueWait ==
    /\ client.pc \in {"wait", "last"} /\ client.att = None
    /\ \E w \in Slots :
         /\ waiter[w] = Idle /\ \A s \in 1..(w - 1) : waiter[s] # Idle
         /\ waiter' = [waiter EXCEPT ![w] =
                         [Idle EXCEPT !.pc = "poll",
                                      !.last = (client.pc = "last")]]
         /\ client' = [client EXCEPT !.att = w]
    /\ UNCHANGED <<remote, files, faults>>

\* ssh returns 255; the script may well go on without its caller.
SshFails ==
    /\ client.att # None
    /\ Fault([faults EXCEPT !.last = @ \/ client.pc = "last"])
    /\ client' = Retry(client)
    /\ UNCHANGED <<remote, files, waiter>>

\* ssh hangs for the 1800 seconds of the wait: IssueCommandTimeoutError,
\* which the except clause of RobustRemoteCommand does not catch.
SshTimesOut ==
    /\ client.pc = "wait" /\ client.att # None
    /\ Fault([faults EXCEPT !.hang = TRUE])
    /\ client' = [client EXCEPT !.pc = "raised", !.att = None]
    /\ UNCHANGED <<remote, files, waiter>>

\* A return code other than 0 and 255 is an error, unless it is the last
\* wait's and failures are ignored.
IsError(c, r) == r.code = "fail" /\ ~(c.pc = "last" /\ c.ignore_failure)

\* Faulty variant: the loop ends with the first wait that returns 0.
ReceivedOnce(c, r) ==
    IF r.code = "c255" THEN Retry(c)
    ELSE IF IsError(c, r) THEN [c EXCEPT !.pc = "log", !.att = None]
    ELSE IF c.pc = "wait"
    THEN [c EXCEPT !.pc = "last", !.tries = 0, !.att = None]
    ELSE [c EXCEPT !.pc = "returned", !.att = None, !.code = r.code,
                   !.full = r.full]

\* What the return of a wait script does to the call c: only the text of an
\* earlier wait tells whether the command has finished.
Received(c, r) ==
    IF r.code = "c255" THEN Retry(c)
    ELSE IF IsError(c, r) THEN [c EXCEPT !.pc = "log", !.att = None]
    ELSE IF c.pc = "wait"
    THEN [c EXCEPT !.pc = IF r.finished THEN "last" ELSE "wait",
                   !.tries = 0, !.att = None]
    ELSE [c EXCEPT !.pc = "returned", !.att = None, !.code = r.code,
                   !.full = r.full]

Receive ==
    /\ client.att # None /\ waiter[client.att].pc = "exit"
    /\ client' = Received(client, waiter[client.att])
    /\ waiter' = [waiter EXCEPT ![client.att] = Idle]
    /\ UNCHANGED <<remote, files, faults>>

\* The except clause prints the wrapper's log and raises again.
PrintLog ==
    /\ client.pc = "log"
    /\ client' = [client EXCEPT !.pc = "raised"]
    /\ UNCHANGED <<remote, files, waiter, faults>>

-----------------------------------------------------------------------------
(***************************************************************************)
(* scripts/execute_command.py                                              *)
(***************************************************************************)
Holds(e, i) == exec[e] \in {"locked", "started", "marked"} /\ ino[e] = i

\* Opening the files truncates them, before the lock is tried.
Open(e) ==
    /\ exec[e] = "init"
    /\ LET i == IF status = None THEN e ELSE status
       IN  /\ ino' = [ino EXCEPT ![e] = i]
           /\ status' = i
           /\ content' = [content EXCEPT ![i] = "empty"]
    /\ output' = [by |-> e, full |-> FALSE]
    /\ exec' = [exec EXCEPT ![e] = "opened"]
    /\ UNCHANGED <<client, cmd, exclusive, waiter, faults>>

\* Faulty variant: the script goes on when it does not get the lock.
LockOptional(e) ==
    /\ exec[e] = "opened"
    /\ exec' = [exec EXCEPT ![e] = "locked"]
    /\ UNCHANGED <<client, ino, cmd, files, waiter, faults>>

\* LOCK_EX | LOCK_NB: an IOError ends the script if anyone has a lock.
Lock(e) ==
    /\ exec[e] = "opened"
    /\ exec' = [exec EXCEPT ![e] =
                  IF \/ \E o \in Execs : Holds(o, ino[e])
                     \/ \E w \in Slots : /\ waiter[w].pc = "read"
                                         /\ waiter[w].ino = ino[e]
                  THEN "failed" ELSE "locked"]
    /\ UNCHANGED <<client, ino, cmd, files, waiter, faults>>

Launch(e) ==
    /\ exec[e] = "locked"
    /\ cmd' = [cmd EXCEPT ![e] = "running"]
    /\ exec' = [exec EXCEPT ![e] = "started"]
    /\ UNCHANGED <<client, ino, files, waiter, faults>>

\* "Create empty file to inform consumers of status that we've taken an
\* exclusive lock on it."
Mark(e) ==
    /\ exec[e] = "started"
    /\ exclusive' = TRUE
    /\ exec' = [exec EXCEPT ![e] = "marked"]
    /\ UNCHANGED <<client, ino, cmd, status, content, output, waiter, faults>>

\* The command ends with code; its output is complete unless another script
\* has truncated the file under it.
CommandEnds(e, code) ==
    /\ cmd[e] = "running"
    /\ cmd' = [cmd EXCEPT ![e] = code]
    /\ output' = [output EXCEPT !.full = @ \/ output.by = e]
    /\ UNCHANGED <<client, exec, ino, status, content, exclusive, waiter,
                   faults>>

\* _KillProcess, when --timeout is over; a timeout that was not given is a
\* hundred years.
KillProcess(e) ==
    exec[e] = "marked" /\ CommandEnds(e, "fail")

\* p.wait() has returned; the code is flushed and the lock released by the
\* same close.
Close(e) ==
    /\ exec[e] = "marked" /\ cmd[e] \in Codes
    /\ content' = [content EXCEPT ![ino[e]] = cmd[e]]
    /\ exec' = [exec EXCEPT ![e] = "closed"]
    /\ UNCHANGED <<client, ino, cmd, status, exclusive, output, waiter, faults>>

\* The script is killed; its lock goes, its command goes on.
Crash(e) ==
    /\ exec[e] \in {"init", "opened", "locked", "started", "marked"}
    /\ Fault([faults EXCEPT !.crash = TRUE])
    /\ exec' = [exec EXCEPT ![e] = "crashed"]
    /\ UNCHANGED <<client, ino, cmd, files, waiter>>

ExecStep(e) ==
    Open(e) \/ Lock(e) \/ Launch(e) \/ Mark(e) \/ Close(e)

-----------------------------------------------------------------------------
(***************************************************************************)
(* scripts/wait_for_command.py                                             *)
(***************************************************************************)
Go(w, pc) == waiter' = [waiter EXCEPT ![w].pc = pc]
Exit(w, code) == waiter' = [waiter EXCEPT ![w].pc = "exit", ![w].code = code]

Ready == exclusive /\ status # None

\* An execute_command is on its way to the exclusive file.
Starting == \E e \in Execs : exec[e] \in {"init", "opened", "locked", "started"}

\* The loop that waits for the files.
PollFound(w) ==
    /\ waiter[w].pc = "poll" /\ Ready
    /\ Go(w, "open")
    /\ UNCHANGED <<client, remote, files, faults>>

\* Faulty variant: the loop has no deadline.
PollForever(w) ==
    /\ waiter[w].pc = "poll" /\ Ready
    /\ Go(w, "open")
    /\ UNCHANGED <<client, remote, files, faults>>

\* The loop is given up after 120 seconds, without a further check.
PollTimesOut(w) ==
    /\ waiter[w].pc = "poll" /\ ~Ready
    /\ IF Starting THEN Fault([faults EXCEPT !.slow = TRUE])
                   ELSE UNCHANGED faults
    /\ Go(w, "open")
    /\ UNCHANGED <<client, remote, files>>

OpenStatus(w) ==
    /\ waiter[w].pc = "open"
    /\ IF status = None
       THEN Exit(w, "fail")
       ELSE waiter' = [waiter EXCEPT ![w].pc = "lock", ![w].ino = status]
    /\ UNCHANGED <<client, remote, files, faults>>

\* LOCK_SH, which waits for the exclusive lock.
LockStatus(w) ==
    /\ waiter[w].pc = "lock"
    /\ \A e \in Execs : ~Holds(e, waiter[w].ino)
    /\ Go(w, "read")
    /\ UNCHANGED <<client, remote, files, faults>>

\* SIGALRM after 120 seconds of waiting for the lock: InterruptedError.
Alarm(w) ==
    /\ waiter[w].pc = "lock"
    /\ \E e \in Execs : Holds(e, waiter[w].ino)
    /\ Exit(w, "ok")
    /\ UNCHANGED <<client, remote, files, faults>>

\* lockf fails with ECONNREFUSED, EAGAIN or EACCES, or the alarm goes off as
\* the lock is got, whoever holds it: "This will be retried with a subsequent
\* wait."  There is none after the last.
LockRefused(w) ==
    /\ waiter[w].pc = "lock"
    /\ Fault([faults EXCEPT !.refused = @ \/ waiter[w].last])
    /\ Exit(w, "ok")
    /\ UNCHANGED <<client, remote, files>>

ReadStatus(w) ==
    /\ waiter[w].pc = "read"
    /\ waiter' = [waiter EXCEPT ![w] =
         IF @.last
         THEN [@ EXCEPT !.pc = "fetch", !.code = content[waiter[w].ino]]
         ELSE [@ EXCEPT !.pc = "exit", !.code = "ok", !.finished = TRUE]]
    /\ UNCHANGED <<client, remote, files, faults>>

\* Faulty variant: a command's own 255 is passed on.
ReturnCodeAsIs(code) == IF code = "empty" THEN "fail" ELSE code

\* An empty file means that the wrapper was interrupted; 255 becomes 1.  So
\* would -1 have to, a death by SIGHUP, which sys.exit makes 255; but the
\* command inherits from nohup that this signal is ignored.
ReturnCode(code) == IF code = "ok" THEN "ok" ELSE "fail"

Fetch(w) ==
    /\ waiter[w].pc = "fetch"
    /\ IF output = NoOutput
       THEN Exit(w, "fail")
       ELSE waiter' = [waiter EXCEPT ![w] =
                         [@ EXCEPT !.pc = "delete", !.full = output.full,
                                   !.code = ReturnCode(waiter[w].code)]]
    /\ UNCHANGED <<client, remote, files, faults>>

\* os.unlink raises where the file has gone.
DeleteOutput(w) ==
    /\ waiter[w].pc = "delete"
    /\ output' = NoOutput
    /\ IF output = NoOutput THEN Exit(w, "fail") ELSE Go(w, "unlink")
    /\ UNCHANGED <<client, remote, status, content, exclusive, faults>>

DeleteStatus(w) ==
    /\ waiter[w].pc = "unlink"
    /\ status' = None
    /\ IF status = None THEN Exit(w, "fail") ELSE Go(w, "exit")
    /\ UNCHANGED <<client, remote, content, exclusive, output, faults>>

\* A script whose ssh has gone may be killed, or die of a broken pipe.
OrphanDies(w) ==
    /\ waiter[w].pc # "idle" /\ client.att # w
    /\ waiter' = [waiter EXCEPT ![w] = Idle]
    /\ UNCHANGED <<client, remote, files, faults>>

WaitStep(w) ==
    \/ PollFound(w) \/ OpenStatus(w) \/ LockStatus(w) \/ Alarm(w)
    \/ ReadStatus(w) \/ Fetch(w) \/ DeleteOutput(w) \/ DeleteStatus(w)

-----------------------------------------------------------------------------
Client == Start \/ IssueWait \/ Receive \/ PrintLog

Next ==
    \/ Client \/ StartLost \/ SshFails \/ SshTimesOut
    \/ \E e \in Execs :
         \/ ExecStep(e) \/ KillProcess(e) \/ Crash(e)
         \/ \E code \in Codes : CommandEnds(e, code)
    \/ \E w \in Slots : WaitStep(w) \/ PollTimesOut(w) \/ LockRefused(w)
                                \/ OrphanDies(w)

Spec == Init /\ [][Next]_vars

\* Processes run, time passes, and commands end; ssh need not fail.
FairSpec ==
    /\ Spec
    /\ WF_vars(Client)
    /\ \A e \in Execs : /\ WF_vars(ExecStep(e))
                        /\ WF_vars(\E code \in Codes : CommandEnds(e, code))
    /\ \A w \in Slots : /\ WF_vars(WaitStep(w))
                        /\ WF_vars(PollTimesOut(w))

-----------------------------------------------------------------------------
(***************************************************************************)
(* Properties.                                                             *)
(***************************************************************************)
TypeOK ==
    /\ client \in [pc : {"start", "wait", "last", "log", "returned", "raised"},
                   tries : 0..(Retries - 1), att : Slots \cup {None},
                   code : Codes \cup {"none"}, full : BOOLEAN,
                   ignore_failure : BOOLEAN]
    /\ exec \in [Execs -> {"none", "init", "opened", "locked", "started",
                           "marked", "closed", "failed", "crashed"}]
    /\ ino \in [Execs -> Execs \cup {None}]
    /\ cmd \in [Execs -> Codes \cup {"none", "running"}]
    /\ status \in Execs \cup {None}
    /\ content \in [Execs -> Codes \cup {"empty"}]
    /\ exclusive \in BOOLEAN
    /\ output \in [by : Execs \cup {None}, full : BOOLEAN]
    /\ waiter \in [Slots ->
         [pc : {"idle", "poll", "open", "lock", "read", "fetch", "delete",
                "unlink", "exit"},
          last : BOOLEAN, ino : Execs \cup {None},
          code : Codes \cup {"empty"}, finished : BOOLEAN, full : BOOLEAN]]
    /\ faults \in [n : 0..MaxFaults, start : BOOLEAN, last : BOOLEAN,
                   hang : BOOLEAN, slow : BOOLEAN, crash : BOOLEAN,
                   refused : BOOLEAN]

Over == client.pc \in {"returned", "raised"}

\* "Temporary SSH failures (where ssh returns a 255) while waiting for the
\* command to complete will be tolerated and safely retried": if nothing else
\* goes wrong but locks that are refused to a wait other than the last, and
\* not all attempts of a call fail, the caller gets what the command did, with
\* all of its output, and 255 as any other failure.
WaitIsRobust ==
    Over /\ ~(faults.start \/ faults.last \/ faults.hang \/ faults.slow
                \/ faults.crash \/ faults.refused) /\ client.code # "c255" =>
      /\ cmd[1] \in Codes
      /\ client.pc = "returned" <=> cmd[1] = "ok" \/ client.ignore_failure
      /\ client.pc = "returned" => client.full

\* Whatever fails once the command has been started, success is never made
\* up: a call that returns with code 0 ran the command to its end, and the
\* output it returns is complete.  The exception is a lock that is refused to
\* the last wait: its code is 0 and its text, the output.
SuccessIsTrue ==
    client.pc = "returned" /\ client.code = "ok"
      /\ ~faults.start /\ ~faults.slow /\ ~faults.refused
    => client.full /\ \E e \in Execs : cmd[e] = "ok"

\* The command may be started a second time after a 255, but never beside
\* itself as long as the status file is there: the lock is on the file that
\* the later script opens.
OneAtATime ==
    ~faults.crash =>
      Cardinality({e \in Execs : cmd[e] = "running" /\ ino[e] = status}) <= 1

\* The call ends, whatever fails, when the command does.
CallEnds == <>Over
=============================================================================
