--------------------------- MODULE CommandProofs ---------------------------
(***************************************************************************)
(* Commands on the VM and on the machine that runs the benchmarks.         *)
(*                                                                         *)
(* RobustCommand for any number of ssh attempts and of faults: however     *)
(* often the start is repeated, the command never runs beside itself on    *)
(* the status file that is at the path; success is reported only of a      *)
(* command that succeeded, with its whole output; and failures of ssh      *)
(* during the wait do no harm.                                             *)
(*                                                                         *)
(* IssueCommand, which runs each ssh, for every combination of its         *)
(* arguments and every interleaving of the caller, the timer and the       *)
(* process.  That model is finite and TLC decides it too; the proof says   *)
(* why it holds: which assignment has to come before which.                *)
(***************************************************************************)
EXTENDS RobustCommand, IssueCommand, FiniteSetTheorems, TLAPS

ClientPcs == {"start", "wait", "last", "log", "returned", "raised"}
Clients == [pc : ClientPcs, tries : 0..(Retries - 1), att : Slots \cup {None},
            code : Codes \cup {"none"}, full : BOOLEAN,
            ignore_failure : BOOLEAN]
Waiters == [pc : {"idle", "poll", "open", "lock", "read", "fetch", "delete",
                  "unlink", "exit"},
            last : BOOLEAN, ino : Execs \cup {None},
            code : Codes \cup {"empty"}, finished : BOOLEAN, full : BOOLEAN]

Faults == [n : 0..MaxFaults, start : BOOLEAN, last : BOOLEAN, hang : BOOLEAN,
           slow : BOOLEAN, crash : BOOLEAN, refused : BOOLEAN]

\* While the start is being tried no wait is, and the scripts of the attempts
\* to come are unused.
StartInv ==
    client.pc = "start" =>
      /\ client.att = None
      /\ \A e \in Execs : e > client.tries => exec[e] = "none"

\* A wait script that waits for the lock has a file open, only the last one
\* copies and deletes the output, and none returns 255 itself.
Fits(r) ==
    /\ r.pc \in {"lock", "read"} => r.ino # None
    /\ r.pc \in {"fetch", "delete", "unlink"} => r.last
    /\ r.pc \in {"delete", "unlink", "exit"} => r.code \in {"ok", "fail"}

WaiterInv == \A w \in Slots : Fits(waiter[w])

\* One execute_command has the lock of a status file, and a command runs only
\* as long as its execute_command has it.
LockInv ==
    /\ \A e, o \in Execs : Holds(e, ino[e]) /\ Holds(o, ino[e]) => e = o
    /\ ~faults.crash =>
         \A e \in Execs : cmd[e] = "running" => exec[e] \in {"started", "marked"}

IInv == TypeOK /\ StartInv /\ WaiterInv /\ LockInv

-----------------------------------------------------------------------------
\* Whatever a wait script does or meets with.
WaitEvent(w) ==
    WaitStep(w) \/ PollTimesOut(w) \/ LockRefused(w) \/ OrphanDies(w)

\* A fault is recorded and counted within its bound.
LEMMA FaultTyped ==
  ASSUME TypeOK, NEW f \in Faults, Fault(f)
  PROVE  faults' \in Faults /\ faults'.crash = f.crash
<1>1. faults.n + 1 \in 0..MaxFaults
  BY RobustAssumption DEF Fault, TypeOK
<1> QED
  BY <1>1 DEF Fault, Faults

\* What a return code of 255 makes of the call.
LEMMA RetryTyped ==
  ASSUME NEW c \in Clients
  PROVE  /\ Retry(c) \in Clients
         /\ Retry(c).pc = "start" =>
              c.pc = "start" /\ Retry(c).tries = c.tries + 1
<1>1. CASE c.tries + 1 < Retries
  <2>1. Retry(c) = [c EXCEPT !.tries = c.tries + 1, !.att = None]
    BY <1>1 DEF Retry
  <2>2. c.tries + 1 \in 0..(Retries - 1)
    BY <1>1, RobustAssumption DEF Clients
  <2> QED
    BY <2>1, <2>2 DEF Clients
<1>2. CASE ~(c.tries + 1 < Retries)
  <2> DEFINE pc == IF c.pc = "start" THEN "raised"
                   ELSE IF c.pc = "last" /\ c.ignore_failure THEN "returned"
                   ELSE "log"
  <2>1. Retry(c) = [c EXCEPT !.tries = 0, !.att = None, !.code = "c255",
                             !.pc = pc]
    BY <1>2 DEF Retry, Clients
  <2>2. pc \in ClientPcs \ {"start"} /\ 0 \in 0..(Retries - 1)
    BY RobustAssumption DEF ClientPcs
  <2> HIDE DEF pc
  <2> QED
    BY <2>1, <2>2 DEF Clients, Codes
<1> QED
  BY <1>1, <1>2

\* What the return of a wait script makes of the call.
LEMMA ReceivedTyped ==
  ASSUME NEW c \in Clients, NEW r \in Waiters, c.pc # "start", r.code # "empty"
  PROVE  Received(c, r) \in Clients /\ Received(c, r).pc # "start"
<1>1. CASE r.code = "c255"
  BY <1>1, RetryTyped DEF Received
<1>2. CASE r.code # "c255" /\ IsError(c, r)
  BY <1>2 DEF Received, Clients, ClientPcs
<1>3. CASE r.code # "c255" /\ ~IsError(c, r) /\ c.pc = "wait"
  <2>1. \E pc \in {"last", "wait"} :
          Received(c, r) = [c EXCEPT !.pc = pc, !.tries = 0, !.att = None]
    BY <1>3 DEF Received
  <2>2. 0 \in 0..(Retries - 1)
    BY RobustAssumption
  <2> QED
    BY <2>1, <2>2 DEF Clients, ClientPcs
<1>4. CASE r.code # "c255" /\ ~IsError(c, r) /\ c.pc # "wait"
  <2>1. r.code \in Codes /\ r.full \in BOOLEAN
    BY DEF Waiters
  <2> QED
    BY <1>4, <2>1 DEF Received, Clients, ClientPcs
<1> QED
  BY <1>1, <1>2, <1>3, <1>4
-----------------------------------------------------------------------------
\* The lock does not depend on the caller, the waiters or the files.
LEMMA LockStable ==
  ASSUME LockInv, UNCHANGED remote, faults'.crash = faults.crash
  PROVE  LockInv'
  BY DEF LockInv, remote, Holds

\* The caller and the failures of its ssh keep the invariant.
LEMMA ClientKeepsInv ==
  ASSUME IInv, Client \/ StartLost \/ SshFails \/ SshTimesOut
  PROVE  IInv'
<1> USE DEF IInv
<1>c. client \in Clients
  BY DEF TypeOK, Clients, ClientPcs
<1>1. CASE Start
  <2>1. client.tries + 1 \in Execs /\ exec[client.tries + 1] = "none"
    BY <1>1, RobustAssumption DEF Start, TypeOK, StartInv, Execs
  <2>2. 0 \in 0..(Retries - 1)
    BY RobustAssumption
  <2>3. client' \in Clients /\ client'.pc = "wait"
    BY <1>1, <1>c, <2>2 DEF Start, Clients, ClientPcs
  <2>4. TypeOK'
    BY <1>1, <2>1, <2>3
       DEF Start, Spawn, TypeOK, files, remote, Clients, ClientPcs
  <2>5. LockInv'
    BY <1>1, <2>1 DEF Start, Spawn, LockInv, Holds, TypeOK
  <2> QED
    BY <1>1, <2>3, <2>4, <2>5 DEF Start, StartInv, WaiterInv
<1>2. CASE StartLost
  <2>1. client.tries + 1 \in Execs /\ exec[client.tries + 1] = "none"
    BY <1>2, RobustAssumption DEF StartLost, TypeOK, StartInv, Execs
  <2>2. faults' \in Faults /\ faults'.crash = faults.crash
    <3> DEFINE f == [faults EXCEPT !.start = TRUE]
    <3>1. f \in Faults /\ f.crash = faults.crash
      BY DEF TypeOK, Faults
    <3>2. Fault(f)
      BY <1>2 DEF StartLost
    <3> QED
      BY <3>1, <3>2, FaultTyped
  <2>3. client' \in Clients /\ (client'.pc = "start" => client'.tries = client.tries + 1)
    BY <1>2, <1>c, RetryTyped DEF StartLost
  <2>4. client'.att = None
    BY <1>2, <1>c DEF StartLost, Retry, Clients
  <2>5. TypeOK'
    BY <1>2, <2>1, <2>2, <2>3
       DEF StartLost, Spawn, TypeOK, files, Clients, ClientPcs, Faults
  <2>6. LockInv'
    <3> DEFINE e1 == client.tries + 1
    <3>1. /\ UNCHANGED <<ino, cmd>>
          /\ \A e \in Execs : e # e1 => exec'[e] = exec[e]
          /\ exec'[e1] \in {"none", "init"}
      BY <1>2, <2>1 DEF StartLost, Spawn, TypeOK
    <3>2. \A e \in Execs : exec'[e] \in {"locked", "started", "marked"}
                            <=> exec[e] \in {"locked", "started", "marked"}
      BY <2>1, <3>1
    <3>3. \A e \in Execs : exec[e] \in {"started", "marked"}
                            => exec'[e] \in {"started", "marked"}
      BY <2>1, <3>1
    <3> QED
      BY <2>2, <3>1, <3>2, <3>3 DEF LockInv, Holds
  <2>7. StartInv'
    BY <1>2, <1>c, <2>1, <2>3, <2>4, RobustAssumption
       DEF StartLost, Spawn, StartInv, TypeOK, Execs, Clients
  <2> QED
    BY <1>2, <2>5, <2>6, <2>7 DEF StartLost, WaiterInv
<1>3. CASE IssueWait
  <2>1. PICK w \in Slots :
          /\ waiter' = [waiter EXCEPT ![w] =
                          [Idle EXCEPT !.pc = "poll", !.last = (client.pc = "last")]]
          /\ client' = [client EXCEPT !.att = w]
    BY <1>3 DEF IssueWait
  <2>2. [Idle EXCEPT !.pc = "poll", !.last = (client.pc = "last")] \in Waiters
    BY DEF Idle, Waiters, None
  <2>3. client' \in Clients /\ client'.pc # "start"
    BY <1>3, <1>c, <2>1 DEF IssueWait, Clients, Slots
  <2>4. TypeOK'
    BY <1>3, <2>1, <2>2, <2>3
       DEF IssueWait, TypeOK, files, remote, Clients, ClientPcs, Waiters
  <2>5. WaiterInv'
    BY <2>1 DEF WaiterInv, Fits, Idle, TypeOK
  <2>6. LockInv'
    BY <1>3, LockStable DEF IssueWait
  <2> QED
    BY <2>3, <2>4, <2>5, <2>6 DEF StartInv
<1>4. CASE SshFails
  <2>1. faults' \in Faults /\ faults'.crash = faults.crash
    <3> DEFINE f == [faults EXCEPT !.last = @ \/ client.pc = "last"]
    <3>1. f \in Faults /\ f.crash = faults.crash
      BY DEF TypeOK, Faults
    <3>2. Fault(f)
      BY <1>4 DEF SshFails
    <3> QED
      BY <3>1, <3>2, FaultTyped
  <2>2. client' \in Clients /\ client'.pc # "start"
    BY <1>4, <1>c, RetryTyped DEF SshFails, StartInv
  <2>3. TypeOK'
    BY <1>4, <2>1, <2>2
       DEF SshFails, TypeOK, files, remote, Clients, ClientPcs, Faults
  <2>4. LockInv'
    BY <1>4, <2>1, LockStable DEF SshFails
  <2> QED
    BY <1>4, <2>2, <2>3, <2>4 DEF SshFails, StartInv, WaiterInv
<1>5. CASE SshTimesOut
  <2>1. faults' \in Faults /\ faults'.crash = faults.crash
    <3> DEFINE f == [faults EXCEPT !.hang = TRUE]
    <3>1. f \in Faults /\ f.crash = faults.crash
      BY DEF TypeOK, Faults
    <3>2. Fault(f)
      BY <1>5 DEF SshTimesOut
    <3> QED
      BY <3>1, <3>2, FaultTyped
  <2>2. client' \in Clients /\ client'.pc # "start"
    BY <1>5, <1>c DEF SshTimesOut, Clients, ClientPcs
  <2>3. TypeOK'
    BY <1>5, <2>1, <2>2
       DEF SshTimesOut, TypeOK, files, remote, Clients, ClientPcs, Faults
  <2>4. LockInv'
    BY <1>5, <2>1, LockStable DEF SshTimesOut
  <2> QED
    BY <1>5, <2>2, <2>3, <2>4 DEF SshTimesOut, StartInv, WaiterInv
<1>6. CASE Receive
  <2>1. client.att \in Slots /\ client.pc # "start"
    BY <1>6, <1>c DEF Receive, StartInv, Clients
  <2>2. waiter[client.att] \in Waiters /\ waiter[client.att].code # "empty"
    BY <1>6, <2>1 DEF Receive, WaiterInv, Fits, TypeOK, Waiters
  <2>3. client' \in Clients /\ client'.pc # "start"
    BY <1>6, <1>c, <2>1, <2>2, ReceivedTyped DEF Receive
  <2>4. Idle \in Waiters
    BY DEF Idle, Waiters, None
  <2>5. TypeOK'
    BY <1>6, <2>1, <2>3, <2>4
       DEF Receive, TypeOK, files, remote, Clients, ClientPcs, Waiters
  <2>6. WaiterInv'
    BY <1>6, <2>1 DEF Receive, WaiterInv, Fits, Idle, TypeOK
  <2>7. LockInv'
    BY <1>6, LockStable DEF Receive
  <2> QED
    BY <2>3, <2>5, <2>6, <2>7 DEF StartInv
<1>7. CASE PrintLog
  <2>1. client' \in Clients /\ client'.pc # "start"
    BY <1>7, <1>c DEF PrintLog, Clients, ClientPcs
  <2>2. TypeOK'
    BY <1>7, <2>1 DEF PrintLog, TypeOK, files, remote, Clients, ClientPcs
  <2>3. LockInv'
    BY <1>7, LockStable DEF PrintLog
  <2> QED
    BY <1>7, <2>1, <2>2, <2>3 DEF PrintLog, StartInv, WaiterInv
<1> QED
  BY <1>1, <1>2, <1>3, <1>4, <1>5, <1>6, <1>7 DEF Client
-----------------------------------------------------------------------------
\* The steps of execute_command.py and of its command keep the invariant.
LEMMA ExecKeepsInv ==
  ASSUME IInv, NEW e \in Execs,
         ExecStep(e) \/ Crash(e) \/ \E code \in Codes : CommandEnds(e, code)
  PROVE  IInv'
<1> USE DEF IInv
<1>1. CASE Open(e)
  <2>1. PICK i \in Execs :
          /\ ino' = [ino EXCEPT ![e] = i] /\ status' = i
          /\ content' = [content EXCEPT ![i] = "empty"]
    BY <1>1 DEF Open, TypeOK
  <2>2. TypeOK'
    BY <1>1, <2>1 DEF Open, TypeOK
  <2>3. LockInv'
    BY <1>1, <2>1 DEF Open, LockInv, Holds, TypeOK
  <2> QED
    BY <1>1, <2>2, <2>3 DEF Open, StartInv, WaiterInv, TypeOK
<1>2. CASE Lock(e)
  <2>1. TypeOK'
    BY <1>2 DEF Lock, TypeOK, files
  <2>2. LockInv'
    BY <1>2 DEF Lock, LockInv, Holds, TypeOK
  <2> QED
    BY <1>2, <2>1, <2>2 DEF Lock, StartInv, WaiterInv, TypeOK
<1>3. CASE Launch(e)
  <2>1. TypeOK'
    BY <1>3 DEF Launch, TypeOK, files
  <2>2. LockInv'
    BY <1>3 DEF Launch, LockInv, Holds, TypeOK
  <2> QED
    BY <1>3, <2>1, <2>2 DEF Launch, StartInv, WaiterInv, TypeOK
<1>4. CASE Mark(e)
  <2>1. TypeOK'
    BY <1>4 DEF Mark, TypeOK
  <2>2. LockInv'
    BY <1>4 DEF Mark, LockInv, Holds, TypeOK
  <2> QED
    BY <1>4, <2>1, <2>2 DEF Mark, StartInv, WaiterInv, TypeOK
<1>5. CASE Close(e)
  <2>1. content' \in [Execs -> Codes \cup {"empty"}]
    BY <1>5 DEF Close, TypeOK
  <2>2. TypeOK'
    BY <1>5, <2>1 DEF Close, TypeOK
  <2>3. LockInv'
    BY <1>5 DEF Close, LockInv, Holds, TypeOK, Codes
  <2> QED
    BY <1>5, <2>2, <2>3 DEF Close, StartInv, WaiterInv, TypeOK
<1>6. CASE Crash(e)
  <2>1. faults' \in Faults /\ faults'.crash
    <3> DEFINE f == [faults EXCEPT !.crash = TRUE]
    <3>1. f \in Faults /\ f.crash = TRUE
      BY DEF TypeOK, Faults
    <3>2. Fault(f)
      BY <1>6 DEF Crash
    <3> QED
      BY <3>1, <3>2, FaultTyped
  <2>2. TypeOK'
    BY <1>6, <2>1 DEF Crash, TypeOK, files, Faults
  <2>3. LockInv'
    BY <1>6, <2>1 DEF Crash, LockInv, Holds, TypeOK
  <2> QED
    BY <1>6, <2>2, <2>3 DEF Crash, StartInv, WaiterInv, TypeOK
<1>7. ASSUME NEW code \in Codes, CommandEnds(e, code) PROVE IInv'
  <2> DEFINE full == output.full \/ output.by = e
  <2>0. full \in BOOLEAN /\ output' = [output EXCEPT !.full = full]
    BY <1>7 DEF CommandEnds, TypeOK
  <2> HIDE DEF full
  <2>1. TypeOK'
    BY <1>7, <2>0 DEF CommandEnds, TypeOK
  <2>2. LockInv'
    BY <1>7 DEF CommandEnds, LockInv, Holds, TypeOK, Codes
  <2> QED
    BY <1>7, <2>1, <2>2 DEF CommandEnds, StartInv, WaiterInv
<1> QED
  BY <1>1, <1>2, <1>3, <1>4, <1>5, <1>6, <1>7 DEF ExecStep
-----------------------------------------------------------------------------
\* A wait script gets a new state that is a possible one.
Moves(w, r) ==
    /\ r \in Waiters /\ Fits(r)
    /\ waiter' = [waiter EXCEPT ![w] = r]

\* The two ways in which the script's steps are written.
LEMMA GoMoves ==
  ASSUME TypeOK, NEW w \in Slots, NEW pc \in {"open", "read", "unlink", "exit"},
         pc = "read" => waiter[w].ino # None,
         pc = "unlink" => waiter[w].last,
         pc \in {"unlink", "exit"} => waiter[w].code \in {"ok", "fail"}, Go(w, pc)
  PROVE  \E r : Moves(w, r)
<1>1. waiter' = [waiter EXCEPT ![w] = [waiter[w] EXCEPT !.pc = pc]]
  BY DEF Go, TypeOK
<1>2. [waiter[w] EXCEPT !.pc = pc] \in Waiters
  BY DEF TypeOK, Waiters
<1>3. Fits([waiter[w] EXCEPT !.pc = pc])
  BY DEF TypeOK, Fits
<1> QED
  BY <1>1, <1>2, <1>3 DEF Moves

\* A wait script that exits has moved.
LEMMA ExitMoves ==
  ASSUME TypeOK, NEW w \in Slots, NEW code \in {"ok", "fail"}, Exit(w, code)
  PROVE  \E r : Moves(w, r)
<1> DEFINE r == [waiter[w] EXCEPT !.pc = "exit", !.code = code]
<1>1. waiter' = [waiter EXCEPT ![w] = r]
  BY DEF Exit, TypeOK
<1>2. waiter[w] \in Waiters
  BY DEF TypeOK, Waiters
<1>3. r \in Waiters /\ r.pc = "exit" /\ r.code = code
  BY <1>2 DEF Waiters, Codes
<1> HIDE DEF r
<1> QED
  BY <1>1, <1>3 DEF Moves, Fits

\* The steps of wait_for_command.py keep the invariant: they touch neither
\* the execute_commands nor the caller.
LEMMA WaitKeepsInv ==
  ASSUME IInv, NEW w \in Slots, WaitEvent(w)
  PROVE  IInv'
<1> USE DEF IInv
<1>0. waiter \in [Slots -> Waiters]
  BY DEF TypeOK, Waiters
<1>1. \E r : Moves(w, r)
  <2>1. CASE PollFound(w)
    BY <2>1, GoMoves DEF PollFound
  <2>2. CASE PollTimesOut(w)
    BY <2>2, GoMoves DEF PollTimesOut
  <2>3. CASE OpenStatus(w)
    <3>1. CASE status = None
      BY <2>3, <3>1, <1>0, ExitMoves DEF OpenStatus
    <3>2. CASE status # None
      <4> DEFINE r == [waiter[w] EXCEPT !.pc = "lock", !.ino = status]
      <4>1. waiter' = [waiter EXCEPT ![w] = r]
        BY <2>3, <3>2, <1>0 DEF OpenStatus, Waiters
      <4>0. status \in Execs \cup {None}
        BY DEF TypeOK
      <4>2. r \in Waiters /\ r.pc = "lock" /\ r.ino = status
        BY <1>0, <4>0 DEF Waiters
      <4> HIDE DEF r
      <4> QED
        BY <3>2, <4>1, <4>2 DEF Moves, Fits
    <3> QED
      BY <3>1, <3>2
  <2>4. CASE LockStatus(w)
    <3>1. waiter[w].ino # None
      BY <2>4 DEF LockStatus, WaiterInv, Fits
    <3> QED
      BY <2>4, <3>1, GoMoves DEF LockStatus
  <2>5. CASE Alarm(w) \/ LockRefused(w)
    BY <2>5, <1>0, ExitMoves DEF Alarm, LockRefused
  <2>6. CASE ReadStatus(w)
    <3> DEFINE c == content[waiter[w].ino]
               r == IF waiter[w].last
                    THEN [waiter[w] EXCEPT !.pc = "fetch", !.code = c]
                    ELSE [waiter[w] EXCEPT !.pc = "exit", !.code = "ok",
                                           !.finished = TRUE]
    <3>1. waiter' = [waiter EXCEPT ![w] = r]
      BY <2>6, <1>0 DEF ReadStatus
    <3>2. c \in Codes \cup {"empty"}
      BY <2>6, <1>0 DEF ReadStatus, WaiterInv, Fits, TypeOK, Waiters
    <3> HIDE DEF c
    <3>3. /\ r \in Waiters /\ r.pc \in {"fetch", "exit"}
          /\ r.pc = "exit" => r.code = "ok"
          /\ r.pc = "fetch" => r.last
      BY <1>0, <3>2 DEF Waiters, Codes
    <3> HIDE DEF r
    <3> QED
      BY <3>1, <3>3 DEF Moves, Fits
  <2>7. CASE Fetch(w)
    <3>1. CASE output = NoOutput
      BY <2>7, <3>1, <1>0, ExitMoves DEF Fetch
    <3>2. CASE output # NoOutput
      <4> DEFINE c == ReturnCode(waiter[w].code)
                 r == [waiter[w] EXCEPT !.pc = "delete", !.full = output.full,
                                        !.code = c]
      <4>0. output.full \in BOOLEAN
        BY DEF TypeOK
      <4>1. c \in {"ok", "fail"}
        BY DEF ReturnCode
      <4>2. waiter' = [waiter EXCEPT ![w] = r]
        BY <2>7, <3>2, <1>0 DEF Fetch
      <4> HIDE DEF c
      <4>3. r \in Waiters /\ r.pc = "delete" /\ r.code = c /\ r.last = waiter[w].last
        BY <1>0, <4>0, <4>1 DEF Waiters, Codes
      <4>4. waiter[w].last
        BY <2>7 DEF Fetch, WaiterInv, Fits
      <4> HIDE DEF r
      <4> QED
        BY <4>1, <4>2, <4>3, <4>4 DEF Moves, Fits
    <3> QED
      BY <3>1, <3>2
  <2>8. CASE DeleteOutput(w)
    BY <2>8, <1>0, GoMoves, ExitMoves DEF DeleteOutput, WaiterInv, Fits
  <2>9. CASE DeleteStatus(w)
    BY <2>9, <1>0, GoMoves, ExitMoves DEF DeleteStatus, WaiterInv, Fits
  <2>10. CASE OrphanDies(w)
    <3>1. Idle \in Waiters /\ Idle.pc = "idle"
      BY DEF Idle, Waiters, None
    <3> QED
      BY <2>10, <3>1 DEF OrphanDies, Moves, Fits
  <2> QED
    BY <2>1, <2>2, <2>3, <2>4, <2>5, <2>6, <2>7, <2>8, <2>9, <2>10
       DEF WaitEvent, WaitStep
<1>2. waiter' \in [Slots -> Waiters] /\ WaiterInv'
  BY <1>0, <1>1 DEF Moves, WaiterInv
<1>3. UNCHANGED <<client, remote>>
  BY DEF WaitEvent, WaitStep, PollFound, PollTimesOut, OpenStatus, LockStatus,
         Alarm, LockRefused, ReadStatus, Fetch, DeleteOutput, DeleteStatus, OrphanDies
<1>4. faults' \in Faults /\ faults'.crash = faults.crash
  <2>1. faults \in Faults
    BY DEF TypeOK, Faults
  <2>2. CASE UNCHANGED faults
    BY <2>1, <2>2
  <2>3. CASE Fault([faults EXCEPT !.slow = TRUE])
    <3>1. /\ [faults EXCEPT !.slow = TRUE] \in Faults
          /\ [faults EXCEPT !.slow = TRUE].crash = faults.crash
      BY <2>1 DEF Faults
    <3> QED
      BY <2>3, <3>1, FaultTyped
  <2>4. CASE Fault([faults EXCEPT !.refused = @ \/ waiter[w].last])
    <3> DEFINE f == [faults EXCEPT !.refused = @ \/ waiter[w].last]
    <3>1. f \in Faults /\ f.crash = faults.crash
      BY <2>1 DEF Faults
    <3> HIDE DEF f
    <3> QED
      BY <2>4, <3>1, FaultTyped DEF f
  <2> QED
    BY <2>2, <2>3, <2>4
       DEF WaitEvent, WaitStep, PollFound, PollTimesOut, OpenStatus, LockStatus,
           Alarm, LockRefused, ReadStatus, Fetch, DeleteOutput, DeleteStatus, OrphanDies
<1>5. UNCHANGED <<content, exclusive>>
      /\ status' \in {status, None} /\ output' \in {output, NoOutput}
  BY DEF WaitEvent, WaitStep, PollFound, PollTimesOut, OpenStatus, LockStatus,
         Alarm, LockRefused, ReadStatus, Fetch, DeleteOutput, DeleteStatus, OrphanDies, files
<1>6. TypeOK'
  <2>1. NoOutput \in [by : Execs \cup {None}, full : BOOLEAN]
    BY DEF NoOutput
  <2>2. /\ status' \in Execs \cup {None}
        /\ output' \in [by : Execs \cup {None}, full : BOOLEAN]
    BY <1>5, <2>1 DEF TypeOK
  <2> QED
    BY <1>2, <1>3, <1>4, <1>5, <2>2 DEF TypeOK, remote, Faults, Waiters
<1>7. LockInv' /\ StartInv'
  BY <1>3, <1>4, LockStable DEF StartInv, remote
<1> QED
  BY <1>2, <1>6, <1>7

-----------------------------------------------------------------------------
\* The inductive invariant holds throughout.
LEMMA Invariance == Spec => []IInv
<1>1. Init => IInv
  <2> SUFFICES ASSUME Init PROVE IInv
    OBVIOUS
  <2>1. 0 \in 0..(Retries - 1) /\ 0 \in 0..MaxFaults
    BY RobustAssumption
  <2>2. TypeOK
    BY <2>1 DEF Init, TypeOK, Idle, NoOutput, NoFault, None
  <2> QED
    BY <2>2 DEF Init, IInv, StartInv, WaiterInv, Fits, LockInv, Holds, Idle
<1>2. IInv /\ UNCHANGED vars => IInv'
  BY DEF IInv, TypeOK, StartInv, WaiterInv, Fits, LockInv, Holds, vars
<1>3. IInv /\ [Next]_vars => IInv'
  <2> SUFFICES ASSUME IInv, Next PROVE IInv'
    BY <1>2
  <2>1. CASE Client \/ StartLost \/ SshFails \/ SshTimesOut
    BY <2>1, ClientKeepsInv
  <2>2. ASSUME NEW e \in Execs,
               \/ ExecStep(e) \/ KillProcess(e) \/ Crash(e)
               \/ \E code \in Codes : CommandEnds(e, code)
        PROVE  IInv'
    BY <2>2, ExecKeepsInv DEF KillProcess, Codes
  <2>3. ASSUME NEW w \in Slots, WaitEvent(w)
        PROVE  IInv'
    BY <2>3, WaitKeepsInv
  <2> QED
    BY <2>1, <2>2, <2>3 DEF Next, WaitEvent
<1> QED
  BY <1>1, <1>3, PTL DEF Spec

\* The caller, the scripts and the files of a robust command keep their types.
THEOREM TypeCorrect == Spec => []TypeOK
<1>1. IInv => TypeOK
  BY DEF IInv
<1> QED
  BY <1>1, Invariance, PTL

\* Unless execute_command.py is killed, at most one command runs on the status
\* file that RobustRemoteCommand's scripts find at the path, however often the
\* start was repeated after a 255.
THEOREM OneCommandAtATime == Spec => []OneAtATime
<1>1. IInv => OneAtATime
  <2> SUFFICES ASSUME IInv, ~faults.crash PROVE OneAtATime
    BY DEF OneAtATime
  <2> DEFINE R == {e \in Execs : cmd[e] = "running" /\ ino[e] = status}
  <2>1. \A e, o \in R : e = o
    BY DEF IInv, LockInv, Holds
  <2>2. R = {} \/ \E e : R = {e}
    BY <2>1
  <2> HIDE DEF R
  <2>3. Cardinality(R) \in {0, 1}
    BY <2>2, FS_EmptySet, FS_Singleton, Zenon
  <2> QED
    BY <2>3 DEF OneAtATime, R
<1> QED
  BY <1>1, Invariance, PTL

-----------------------------------------------------------------------------
(***************************************************************************)
(* What is true while every start went through at the first attempt, no    *)
(* wait script gave up on a start that was under way and none that was to  *)
(* be the last was refused its lock: there is one execute_command.         *)
(***************************************************************************)
Prompt == ~faults.start /\ ~faults.slow /\ ~faults.refused

Done == {"closed", "crashed"}       \* the lock is gone for good
Past == Done \cup {"marked"}        \* the exclusive file was written

\* The one execute_command, its command and its files.
Alone ==
    /\ \A e \in Execs \ {1} : exec[e] = "none" /\ cmd[e] = "none"
    /\ exec[1] # "failed"
    /\ ino[1] \in {None, 1} /\ status \in {None, 1}
    /\ exec[1] \in {"opened", "locked", "started", "marked"} => ino[1] = 1
    /\ exec[1] \in {"none", "init"} => status = None /\ output = NoOutput
    /\ exec[1] \in {"none", "init", "opened", "locked"} => cmd[1] = "none"
    /\ exec[1] = "closed" => cmd[1] \in Codes /\ content[1] = cmd[1]
    /\ content[1] \in {"empty", cmd[1]}
    /\ exclusive => exec[1] \in Past

\* Once its command has ended the output file, if it is there, is complete.
Complete ==
    output # NoOutput => /\ output.by = 1
                         /\ cmd[1] \in Codes => output.full

\* How far the execute_command is where a wait script is, and what the return
\* code of the last one says.
Follows(r) ==
    /\ r.ino \in {None, 1}
    /\ r.pc # "idle" => exec[1] # "none"
    /\ r.pc \notin {"idle", "poll"} => exec[1] \in Past
    /\ (r.last \/ r.finished \/ r.pc \in {"read", "fetch", "delete", "unlink"}) =>
         exec[1] \in Done
    /\ r.pc = "fetch" /\ r.code = "ok" => cmd[1] = "ok"
    /\ r.last /\ r.pc \in {"delete", "unlink", "exit"} /\ r.code = "ok" =>
         r.full /\ cmd[1] = "ok"

ClientFollows ==
    /\ client.pc = "start" => client.tries = 0
    /\ client.pc # "start" => exec[1] # "none"
    /\ client.pc = "last" => exec[1] \in Done
    /\ client.code = "ok" => client.full /\ cmd[1] = "ok"

\* The wait script whose ssh the caller has open is the one it asked for.
Linked ==
    client.att # None =>
      /\ client.pc \in {"wait", "last"}
      /\ waiter[client.att].pc # "idle"
      /\ waiter[client.att].last = (client.pc = "last")

Truth == Prompt => /\ Alone /\ Complete /\ ClientFollows
                   /\ \A w \in Slots : Follows(waiter[w])

\* Nothing but the ssh of an earlier wait has failed.
Smooth == ~(faults.start \/ faults.last \/ faults.hang \/ faults.slow
              \/ faults.crash \/ faults.refused)

\* The last wait is the caller's own, and only it makes the files go.
Kept ==
    /\ exec[1] # "crashed"
    /\ \A w \in Slots : waiter[w].last => client.pc = "last" /\ client.att = w
    /\ client.pc \in {"wait", "last"} /\ exec[1] \notin {"none", "init"} =>
         /\ output = NoOutput =>
              /\ client.att # None /\ waiter[client.att].last
              /\ waiter[client.att].pc \in {"unlink", "exit"}
         /\ status = None =>
              /\ client.att # None /\ waiter[client.att].last
              /\ waiter[client.att].pc = "exit"

\* What a wait script that has ended tells the caller.
Tells(r) ==
    /\ r.pc = "exit" /\ ~r.last /\ client.pc = "wait" => r.code = "ok"
    /\ r.pc = "fetch" => r.code = cmd[1]
    /\ r.last /\ r.pc \in {"delete", "unlink", "exit"} =>
         r.full /\ r.code = ReturnCode(cmd[1])

Answered ==
    /\ client.pc = "returned" /\ client.code # "c255" =>
         /\ client.full /\ cmd[1] \in Codes
         /\ cmd[1] = "ok" \/ client.ignore_failure
    /\ client.pc \in {"log", "raised"} /\ client.code # "c255" =>
         cmd[1] \in Codes \ {"ok"} /\ ~client.ignore_failure

Robust == Smooth => Kept /\ Answered /\ \A w \in Slots : Tells(waiter[w])

RobustInv == IInv /\ Linked /\ Truth /\ Robust

-----------------------------------------------------------------------------
\* What a return code of 255 leaves of the call.
LEMMA RetryEffect ==
  ASSUME NEW c \in Clients
  PROVE  /\ Retry(c).att = None /\ Retry(c).full = c.full
         /\ Retry(c).ignore_failure = c.ignore_failure
         /\ \/ Retry(c).pc = c.pc /\ Retry(c).code = c.code
            \/ /\ Retry(c).pc \in {"log", "returned", "raised"}
               /\ Retry(c).code = "c255"
<1>1. CASE c.tries + 1 < Retries
  <2>1. Retry(c) = [c EXCEPT !.tries = c.tries + 1, !.att = None]
    BY <1>1 DEF Retry
  <2> QED
    BY <2>1 DEF Clients
<1>2. CASE ~(c.tries + 1 < Retries)
  <2> DEFINE pc == IF c.pc = "start" THEN "raised"
                   ELSE IF c.pc = "last" /\ c.ignore_failure THEN "returned"
                   ELSE "log"
  <2>1. Retry(c) = [c EXCEPT !.tries = 0, !.att = None, !.code = "c255",
                             !.pc = pc]
    BY <1>2 DEF Retry, Clients
  <2>2. pc \in {"log", "returned", "raised"}
    OBVIOUS
  <2> HIDE DEF pc
  <2> QED
    BY <2>1, <2>2 DEF Clients
<1> QED
  BY <1>1, <1>2

\* What a wait script that has ended with r makes of the call c: an error, a
\* further wait, or the end.
ToError(c, r, d) == /\ r.code = "fail" /\ ~(c.pc = "last" /\ c.ignore_failure)
                    /\ d.pc = "log" /\ d.code = c.code /\ d.full = c.full
ToWait(c, r, d) == /\ c.pc = "wait" /\ r.code = "ok" /\ d.pc \in {"wait", "last"}
                   /\ d.pc = "last" => r.finished
                   /\ d.code = c.code /\ d.full = c.full
ToEnd(c, r, d) == /\ c.pc = "last" /\ (r.code = "ok" \/ c.ignore_failure)
                  /\ d.pc = "returned" /\ d.code = r.code /\ d.full = r.full

\* What the caller makes of the code a wait script brought back.
LEMMA ReceivedEffect ==
  ASSUME NEW c \in Clients, NEW r \in Waiters, c.pc \in {"wait", "last"},
         r.code \in {"ok", "fail"}
  PROVE  /\ Received(c, r).att = None
         /\ Received(c, r).ignore_failure = c.ignore_failure
         /\ \/ ToError(c, r, Received(c, r))
            \/ ToWait(c, r, Received(c, r))
            \/ ToEnd(c, r, Received(c, r))
<1>1. CASE IsError(c, r)
  <2>1. Received(c, r) = [c EXCEPT !.pc = "log", !.att = None]
    BY <1>1 DEF Received
  <2> QED
    BY <1>1, <2>1 DEF IsError, ToError, Clients
<1>2. CASE ~IsError(c, r) /\ c.pc = "wait"
  <2>1. PICK pc \in {"last", "wait"} :
          /\ Received(c, r) = [c EXCEPT !.pc = pc, !.tries = 0, !.att = None]
          /\ pc = "last" => r.finished
    BY <1>2 DEF Received
  <2> QED
    BY <1>2, <2>1 DEF IsError, ToWait, Clients
<1>3. CASE ~IsError(c, r) /\ c.pc = "last"
  <2>1. Received(c, r) = [c EXCEPT !.pc = "returned", !.att = None,
                                   !.code = r.code, !.full = r.full]
    BY <1>3 DEF Received
  <2> QED
    BY <1>3, <2>1 DEF IsError, ToEnd, Clients
<1> QED
  BY <1>1, <1>2, <1>3

\* A fault is remembered for good, and which it was.
LEMMA FaultKept ==
  ASSUME TypeOK, NEW f \in Faults, Fault(f)
  PROVE  /\ faults'.start = f.start /\ faults'.last = f.last
         /\ faults'.hang = f.hang /\ faults'.slow = f.slow
         /\ faults'.crash = f.crash /\ faults'.refused = f.refused
  BY DEF Fault, Faults

\* No step takes a fault back.
LEMMA FaultsStay ==
  ASSUME IInv, [Next]_vars
  PROVE  (Prompt' => Prompt) /\ (Smooth' => Smooth)
<1>1. faults \in Faults /\ TypeOK
  BY DEF IInv, TypeOK, Faults
<1>2. CASE UNCHANGED faults
  BY <1>2 DEF Prompt, Smooth
<1>3. CASE Fault([faults EXCEPT !.start = TRUE])
  <2>1. [faults EXCEPT !.start = TRUE] \in Faults
    BY <1>1 DEF Faults
  <2> QED
    BY <1>1, <1>3, <2>1, FaultKept DEF Prompt, Smooth, Faults
<1>4. CASE Fault([faults EXCEPT !.last = @ \/ client.pc = "last"])
  <2> DEFINE f == [faults EXCEPT !.last = @ \/ client.pc = "last"]
  <2>1. /\ f \in Faults /\ f.start = faults.start /\ f.slow = faults.slow
        /\ f.hang = faults.hang /\ f.crash = faults.crash
        /\ f.refused = faults.refused /\ (faults.last => f.last)
    BY <1>1 DEF Faults
  <2>2. Fault(f)
    BY <1>4
  <2> HIDE DEF f
  <2> QED
    BY <1>1, <2>1, <2>2, FaultKept DEF Prompt, Smooth
<1>5. CASE Fault([faults EXCEPT !.hang = TRUE])
  <2>1. [faults EXCEPT !.hang = TRUE] \in Faults
    BY <1>1 DEF Faults
  <2> QED
    BY <1>1, <1>5, <2>1, FaultKept DEF Prompt, Smooth, Faults
<1>6. CASE Fault([faults EXCEPT !.slow = TRUE])
  <2>1. [faults EXCEPT !.slow = TRUE] \in Faults
    BY <1>1 DEF Faults
  <2> QED
    BY <1>1, <1>6, <2>1, FaultKept DEF Prompt, Smooth, Faults
<1>7. CASE Fault([faults EXCEPT !.crash = TRUE])
  <2>1. [faults EXCEPT !.crash = TRUE] \in Faults
    BY <1>1 DEF Faults
  <2> QED
    BY <1>1, <1>7, <2>1, FaultKept DEF Prompt, Smooth, Faults
<1>8. ASSUME NEW b, Fault([faults EXCEPT !.refused = @ \/ b])
      PROVE  (Prompt' => Prompt) /\ (Smooth' => Smooth)
  <2> DEFINE f == [faults EXCEPT !.refused = @ \/ b]
  <2>1. /\ f \in Faults /\ f.start = faults.start /\ f.slow = faults.slow
        /\ f.hang = faults.hang /\ f.crash = faults.crash
        /\ f.last = faults.last /\ (faults.refused => f.refused)
    BY <1>1 DEF Faults
  <2>2. Fault(f)
    BY <1>8
  <2> HIDE DEF f
  <2> QED
    BY <1>1, <2>1, <2>2, FaultKept DEF Prompt, Smooth
<1>9. \/ UNCHANGED faults
      \/ \E b : Fault([faults EXCEPT !.refused = @ \/ b])
      \/ Fault([faults EXCEPT !.start = TRUE])
      \/ Fault([faults EXCEPT !.last = @ \/ client.pc = "last"])
      \/ Fault([faults EXCEPT !.hang = TRUE])
      \/ Fault([faults EXCEPT !.slow = TRUE])
      \/ Fault([faults EXCEPT !.crash = TRUE])
  BY Zenon
     DEF Next, vars, Client, Start, IssueWait, Receive, PrintLog, StartLost,
         SshFails, SshTimesOut, ExecStep, Open, Lock, Launch, Mark, Close,
         KillProcess, CommandEnds, Crash, WaitStep, PollFound, PollTimesOut,
         OpenStatus, LockStatus, Alarm, LockRefused, ReadStatus, Fetch,
         DeleteOutput, DeleteStatus, OrphanDies
<1> QED
  BY <1>2, <1>3, <1>4, <1>5, <1>6, <1>7, <1>8, <1>9

-----------------------------------------------------------------------------
\* The execute_command and its command go forward.
Forward ==
    /\ exec[1] # "none" => exec'[1] # "none"
    /\ exec[1] \in Past => exec'[1] \in Past
    /\ exec[1] \in Done => exec'[1] \in Done
    /\ cmd[1] \in Codes => cmd'[1] = cmd[1]

\* What the wait scripts and the caller have seen stays true.
LEMMA FollowsStays ==
  ASSUME Forward, NEW r, Follows(r), NEW w, waiter'[w] = r
  PROVE  Follows(waiter[w])'
  BY DEF Forward, Follows, Codes

\* What the caller was told stays true as the first script goes on ...
LEMMA ClientFollowsStays ==
  ASSUME Forward, UNCHANGED client, ClientFollows,
         client.pc = "start" => client.tries = 0
  PROVE  ClientFollows'
  BY DEF Forward, ClientFollows, Codes

\* While the start is prompt only the first execute_command does anything,
\* and its steps keep its story.
LEMMA ExecAlone ==
  ASSUME IInv, Alone, Complete, NEW e \in Execs,
         \A w \in Slots : Follows(waiter[w]),
         ExecStep(e) \/ Crash(e) \/ \E code \in Codes : CommandEnds(e, code)
  PROVE  Alone' /\ Complete' /\ Forward
<1>0. 1 \in Execs /\ 1 # None
  BY RobustAssumption DEF Execs, None
<1>e. e = 1
  BY DEF Alone, ExecStep, Open, Lock, Launch, Mark, Close, Crash, CommandEnds
<1>t. DOMAIN exec = Execs /\ exec = [o \in Execs |-> exec[o]]
      /\ ino \in [Execs -> Execs \cup {None}]
      /\ cmd \in [Execs -> Codes \cup {"none", "running"}]
      /\ content \in [Execs -> Codes \cup {"empty"}]
      /\ output \in [by : Execs \cup {None}, full : BOOLEAN]
  BY DEF IInv, TypeOK
<1>1. CASE Open(1)
  BY <1>0, <1>1, <1>t
     DEF Open, Alone, Complete, Forward, NoOutput, Done, Past, Codes
<1>2. CASE Lock(1)
  <2>1. ~\E o \in Execs : Holds(o, ino[1])
    BY <1>2, <1>0 DEF Lock, Alone, Holds
  <2>2. ~\E w \in Slots : waiter[w].pc = "read" /\ waiter[w].ino = ino[1]
    BY <1>2 DEF Lock, Follows, Done
  <2>3. exec' = [exec EXCEPT ![1] = "locked"] /\ exec[1] = "opened"
    BY <1>2, <2>1, <2>2 DEF Lock
  <2>4. UNCHANGED <<ino, cmd, files>>
    BY <1>2 DEF Lock
  <2> QED
    BY <1>0, <1>t, <2>3, <2>4 DEF Alone, Complete, Forward, Done, Past, files
<1>3. CASE Launch(1)
  BY <1>0, <1>3, <1>t DEF Launch, Alone, Complete, Forward, Done, Past, Codes,
     files
<1>4. CASE Mark(1)
  BY <1>0, <1>4, <1>t DEF Mark, Alone, Complete, Forward, Done, Past
<1>5. CASE Close(1)
  BY <1>0, <1>5, <1>t DEF Close, Alone, Complete, Forward, Done, Past
<1>6. CASE Crash(1)
  BY <1>0, <1>6, <1>t DEF Crash, Alone, Complete, Forward, Done, Past, files
<1>7. ASSUME NEW code \in Codes, CommandEnds(1, code)
      PROVE  Alone' /\ Complete' /\ Forward
  <2> DEFINE full == output.full \/ output.by = 1
  <2>1. /\ output' = [output EXCEPT !.full = full] /\ full \in BOOLEAN
        /\ output'.by = output.by /\ output'.full = full
    BY <1>7, <1>t DEF CommandEnds
  <2>2. cmd[1] = "running" /\ cmd' = [cmd EXCEPT ![1] = code]
        /\ UNCHANGED <<exec, ino, status, content, exclusive>>
    BY <1>7 DEF CommandEnds
  <2>3. output # NoOutput => output'.by = 1 /\ output'.full
    BY <2>1 DEF Complete
  <2>4. output = NoOutput => output' = NoOutput
    <3> SUFFICES ASSUME output = NoOutput PROVE output' = NoOutput
      OBVIOUS
    <3>1. full = FALSE
      BY <1>0 DEF NoOutput
    <3> QED
      BY <2>1, <3>1 DEF NoOutput
  <2> HIDE DEF full
  <2>5. Complete'
    BY <2>3, <2>4 DEF Complete
  <2>6. content[1] = "empty"
    BY <1>0, <1>t, <2>2 DEF Alone, Codes
  <2> QED
    BY <1>0, <1>7, <1>t, <2>2, <2>4, <2>5, <2>6 DEF Alone, Forward, Codes
<1> QED
  BY <1>e, <1>1, <1>2, <1>3, <1>4, <1>5, <1>6, <1>7 DEF ExecStep

\* ... and so does what a wait script is about to tell.
LEMMA TellsStays ==
  ASSUME Forward, NEW r, Tells(r), Follows(r), NEW w, waiter'[w] = r,
         client'.pc = client.pc, exec[1] \in Done => cmd[1] \in Codes
  PROVE  Tells(waiter[w])'
  BY DEF Forward, Tells, Follows

\* With no crash the execute_command that is done has its command's code.
LEMMA DoneIsClosed ==
  ASSUME Alone, exec[1] # "crashed"
  PROVE  exec[1] \in Done => cmd[1] \in Codes /\ content[1] = cmd[1]
  BY DEF Alone, Done

\* The steps of execute_command.py and of its command keep the invariant.
LEMMA ExecKeepsRobust ==
  ASSUME RobustInv, NEW e \in Execs, IInv', (Prompt' => Prompt) /\ (Smooth' => Smooth),
         ExecStep(e) \/ Crash(e) \/ \E code \in Codes : CommandEnds(e, code)
  PROVE  Linked' /\ Truth' /\ Robust'
<1> USE DEF RobustInv
<1>1. UNCHANGED <<client, waiter>>
  BY DEF ExecStep, Open, Lock, Launch, Mark, Close, Crash, CommandEnds
<1>2. Linked'
  BY <1>1 DEF Linked
<1>3. Prompt' => /\ Alone' /\ Complete' /\ Forward /\ ClientFollows'
                 /\ \A w \in Slots : Follows(waiter[w])'
  <2> SUFFICES ASSUME Prompt' PROVE /\ Alone' /\ Complete' /\ Forward /\ ClientFollows'
                                    /\ \A w \in Slots : Follows(waiter[w])'
    OBVIOUS
  <2>1. Alone /\ Complete /\ ClientFollows /\ \A w \in Slots : Follows(waiter[w])
    BY DEF Truth
  <2>2. Alone' /\ Complete' /\ Forward
    BY <2>1, ExecAlone
  <2>3. ClientFollows'
    BY <1>1, <2>1, <2>2, ClientFollowsStays DEF ClientFollows
  <2>4. \A w \in Slots : Follows(waiter[w])'
    BY <1>1, <2>1, <2>2, FollowsStays
  <2> QED
    BY <2>2, <2>3, <2>4
<1>4. Truth'
  BY <1>3 DEF Truth
<1>5. Robust'
  <2> SUFFICES ASSUME Smooth' PROVE Kept' /\ Answered' /\ \A w \in Slots : Tells(waiter[w])'
    BY DEF Robust
  <2>0. Prompt' /\ Prompt /\ Smooth
    BY DEF Prompt, Smooth
  <2>1. Kept /\ Answered /\ Alone /\ Forward /\ ClientFollows
        /\ \A w \in Slots : Tells(waiter[w]) /\ Follows(waiter[w])
    BY <1>3, <2>0 DEF Robust, Truth
  <2>2. exec[1] \in Done => cmd[1] \in Codes
    BY <2>1, DoneIsClosed DEF Kept
  <2>3. \A w \in Slots : Tells(waiter[w])'
    BY <1>1, <2>1, <2>2, TellsStays
  <2>4. Answered'
    BY <1>1, <2>1 DEF Answered, Forward
  <2>5. Kept'
    <3>1. faults.crash = FALSE /\ ~faults'.crash
      BY <2>0 DEF Smooth, IInv, TypeOK
    <3>2. ~Crash(e)
      <4> SUFFICES ASSUME Crash(e) PROVE faults'.crash
        BY <3>1
      <4>1. TypeOK /\ [faults EXCEPT !.crash = TRUE] \in Faults
        BY DEF IInv, TypeOK, Faults
      <4>2. faults \in Faults
        BY <4>1 DEF TypeOK, Faults
      <4> QED
        BY <4>1, <4>2, FaultKept DEF Crash, Faults
    <3>e. e = 1 /\ 1 \in Execs /\ 1 # None
      BY <2>1, RobustAssumption
         DEF Alone, ExecStep, Open, Lock, Launch, Mark, Close, Crash,
             CommandEnds, Execs, None
    <3>3. CASE Open(1)
      BY <1>1, <2>1, <3>3, <3>e DEF Open, Kept, NoOutput, Alone, IInv, TypeOK
    <3>4. CASE ~Open(1)
      <4>1. exec'[1] # "crashed"
        BY <2>1, <3>2, <3>4, <3>e DEF Kept, ExecStep, Lock, Launch, Mark, Close,
           CommandEnds, IInv, TypeOK
      <4>2. exec'[1] \in {"none", "init"} <=> exec[1] \in {"none", "init"}
        BY <2>1, <3>2, <3>4, <3>e DEF Kept, ExecStep, Lock, Launch, Mark, Close,
           CommandEnds, IInv, TypeOK
      <4>3. UNCHANGED status
        BY <3>2, <3>4, <3>e
           DEF ExecStep, Lock, Launch, Mark, Close, CommandEnds, files
      <4>4. output' = NoOutput => output = NoOutput
        <5>1. CASE UNCHANGED output
          BY <5>1
        <5>2. ASSUME NEW code \in Codes, CommandEnds(1, code), output # NoOutput
              PROVE  output' # NoOutput
          <6>1. output.by = 1
            BY <2>0, <5>2 DEF Truth, Complete
          <6>2. output'.by = output.by
            BY <5>2 DEF CommandEnds, IInv, TypeOK
          <6> QED
            BY <3>e, <6>1, <6>2 DEF NoOutput
        <5> QED
          BY <3>2, <3>4, <3>e, <5>1, <5>2
             DEF ExecStep, Lock, Launch, Mark, Close, files
      <4> QED
        BY <1>1, <2>1, <4>1, <4>2, <4>3, <4>4 DEF Kept
    <3> QED
      BY <3>3, <3>4
  <2> QED
    BY <2>3, <2>4, <2>5
<1> QED
  BY <1>2, <1>4, <1>5

-----------------------------------------------------------------------------
(***************************************************************************)
(* A step of a wait script, from its state o to r: what it leaves alone,   *)
(* what it finds, and what it does to the files.                           *)
(***************************************************************************)
Looks(o, r) ==          \* PollFound and PollTimesOut
    /\ o.pc = "poll" /\ r.pc = "open"
    /\ Ready \/ ~Starting \/ faults'.slow
    /\ r.ino = o.ino /\ UNCHANGED <<status, output>>
Opens(o, r) ==          \* OpenStatus
    /\ o.pc = "open" /\ UNCHANGED <<status, output>>
    /\ \/ status = None /\ r.pc = "exit" /\ r.code = "fail" /\ r.ino = o.ino
       \/ status # None /\ r.pc = "lock" /\ r.ino = status
Locks(o, r) ==          \* LockStatus, Alarm and LockRefused
    /\ o.pc = "lock" /\ r.ino = o.ino /\ UNCHANGED <<status, output>>
    /\ \/ (\A e \in Execs : ~Holds(e, o.ino)) /\ r.pc = "read"
       \/ /\ (\E e \in Execs : Holds(e, o.ino)) \/ (o.last => faults'.refused)
          /\ r.pc = "exit" /\ r.code = "ok"
Reads(o, r) ==          \* ReadStatus
    /\ o.pc = "read" /\ r.ino = o.ino /\ UNCHANGED <<status, output>>
    /\ \/ o.last /\ r.pc = "fetch" /\ r.code = content[o.ino]
       \/ ~o.last /\ r.pc = "exit" /\ r.code = "ok"
Copies(o, r) ==         \* Fetch
    /\ o.pc = "fetch" /\ r.ino = o.ino /\ UNCHANGED <<status, output>>
    /\ \/ output = NoOutput /\ r.pc = "exit" /\ r.code = "fail"
       \/ /\ output # NoOutput /\ r.pc = "delete" /\ r.full = output.full
          /\ r.code = ReturnCode(o.code)
Deletes(o, r) ==        \* DeleteOutput and DeleteStatus
    /\ r.ino = o.ino
    /\ \/ /\ o.pc = "delete" /\ output' = NoOutput /\ UNCHANGED status
          /\ \/ output = NoOutput /\ r.pc = "exit" /\ r.code = "fail"
             \/ /\ output # NoOutput /\ r.pc = "unlink"
                /\ r.code = o.code /\ r.full = o.full
       \/ /\ o.pc = "unlink" /\ status' = None /\ UNCHANGED output
          /\ \/ status = None /\ r.pc = "exit" /\ r.code = "fail"
             \/ /\ status # None /\ r.pc = "exit"
                /\ r.code = o.code /\ r.full = o.full

Turn(o, r) ==
    /\ r.last = o.last
    /\ r.finished => o.finished \/ o.pc = "read"
    /\ \/ Looks(o, r) \/ Opens(o, r) \/ Locks(o, r) \/ Reads(o, r)
       \/ Copies(o, r) \/ Deletes(o, r)

\* A step of a wait script changes that script's record only, by a Turn.
LEMMA WaitEffect ==
  ASSUME IInv, NEW w \in Slots, WaitStep(w) \/ PollTimesOut(w) \/ LockRefused(w)
  PROVE  \E r : /\ waiter' = [waiter EXCEPT ![w] = r] /\ Turn(waiter[w], r)
<1>0. waiter \in [Slots -> Waiters] /\ waiter[w] \in Waiters /\ TypeOK
  BY DEF IInv, TypeOK, Waiters
<1>1. CASE PollFound(w) \/ PollTimesOut(w)
  <2> DEFINE r == [waiter[w] EXCEPT !.pc = "open"]
  <2>1. waiter' = [waiter EXCEPT ![w] = r]
    BY <1>0, <1>1 DEF PollFound, PollTimesOut, Go
  <2>2. /\ r.pc = "open" /\ r.last = waiter[w].last /\ r.ino = waiter[w].ino
        /\ r.finished = waiter[w].finished
    BY <1>0 DEF Waiters
  <2>3. Ready \/ ~Starting \/ faults'.slow
    <3>1. CASE Fault([faults EXCEPT !.slow = TRUE])
      <4>1. [faults EXCEPT !.slow = TRUE] \in Faults /\ faults \in Faults
        BY <1>0 DEF TypeOK, Faults
      <4> QED
        BY <1>0, <3>1, <4>1, FaultKept DEF Faults
    <3> QED
      BY <1>1, <3>1 DEF PollFound, PollTimesOut
  <2>4. waiter[w].pc = "poll" /\ UNCHANGED <<status, output>>
    BY <1>1 DEF PollFound, PollTimesOut, files
  <2> HIDE DEF r
  <2> QED
    BY <2>1, <2>2, <2>3, <2>4 DEF Turn, Looks
<1>2. CASE OpenStatus(w) /\ status = None
  <2> DEFINE r == [waiter[w] EXCEPT !.pc = "exit", !.code = "fail"]
  <2>1. waiter' = [waiter EXCEPT ![w] = r]
    BY <1>0, <1>2 DEF OpenStatus, Exit
  <2>2. /\ r.pc = "exit" /\ r.code = "fail" /\ r.last = waiter[w].last
        /\ r.ino = waiter[w].ino /\ r.finished = waiter[w].finished
    BY <1>0 DEF Waiters
  <2>3. waiter[w].pc = "open" /\ UNCHANGED <<status, output>>
    BY <1>2 DEF OpenStatus, files
  <2> HIDE DEF r
  <2> QED
    BY <1>2, <2>1, <2>2, <2>3 DEF Turn, Opens
<1>3. CASE OpenStatus(w) /\ status # None
  <2> DEFINE r == [waiter[w] EXCEPT !.pc = "lock", !.ino = status]
  <2>1. waiter' = [waiter EXCEPT ![w] = r]
    BY <1>0, <1>3 DEF OpenStatus, Waiters
  <2>2. /\ r.pc = "lock" /\ r.ino = status /\ r.last = waiter[w].last
        /\ r.finished = waiter[w].finished
    BY <1>0 DEF Waiters
  <2>3. waiter[w].pc = "open" /\ UNCHANGED <<status, output>>
    BY <1>3 DEF OpenStatus, files
  <2> HIDE DEF r
  <2> QED
    BY <1>3, <2>1, <2>2, <2>3 DEF Turn, Opens
<1>4. CASE LockStatus(w)
  <2> DEFINE r == [waiter[w] EXCEPT !.pc = "read"]
  <2>1. waiter' = [waiter EXCEPT ![w] = r]
    BY <1>0, <1>4 DEF LockStatus, Go
  <2>2. /\ r.pc = "read" /\ r.last = waiter[w].last /\ r.ino = waiter[w].ino
        /\ r.finished = waiter[w].finished
    BY <1>0 DEF Waiters
  <2>3. waiter[w].pc = "lock" /\ UNCHANGED <<status, output>>
        /\ \A e \in Execs : ~Holds(e, waiter[w].ino)
    BY <1>4 DEF LockStatus, files
  <2> HIDE DEF r
  <2> QED
    BY <2>1, <2>2, <2>3 DEF Turn, Locks
<1>5. CASE Alarm(w) \/ LockRefused(w)
  <2> DEFINE r == [waiter[w] EXCEPT !.pc = "exit", !.code = "ok"]
  <2>1. waiter' = [waiter EXCEPT ![w] = r]
    BY <1>0, <1>5 DEF Alarm, LockRefused, Exit
  <2>2. /\ r.pc = "exit" /\ r.code = "ok" /\ r.last = waiter[w].last
        /\ r.ino = waiter[w].ino /\ r.finished = waiter[w].finished
    BY <1>0 DEF Waiters
  <2>3. waiter[w].pc = "lock" /\ UNCHANGED <<status, output>>
    BY <1>5 DEF Alarm, LockRefused, files
  <2>4. (\E e \in Execs : Holds(e, waiter[w].ino)) \/ (waiter[w].last => faults'.refused)
    <3>1. CASE Alarm(w)
      BY <3>1 DEF Alarm
    <3>2. CASE LockRefused(w)
      <4> DEFINE f == [faults EXCEPT !.refused = @ \/ waiter[w].last]
      <4>1. f \in Faults /\ (waiter[w].last => f.refused)
        BY <1>0 DEF TypeOK, Faults
      <4>2. Fault(f)
        BY <3>2 DEF LockRefused
      <4> HIDE DEF f
      <4> QED
        BY <1>0, <4>1, <4>2, FaultKept
    <3> QED
      BY <1>5, <3>1, <3>2
  <2> HIDE DEF r
  <2> QED
    BY <2>1, <2>2, <2>3, <2>4 DEF Turn, Locks
<1>6. CASE ReadStatus(w) /\ waiter[w].last
  <2> DEFINE c == content[waiter[w].ino]
             r == [waiter[w] EXCEPT !.pc = "fetch", !.code = c]
  <2>1. waiter' = [waiter EXCEPT ![w] = r]
    BY <1>0, <1>6 DEF ReadStatus
  <2>2. /\ r.pc = "fetch" /\ r.code = c /\ r.last = waiter[w].last
        /\ r.ino = waiter[w].ino /\ r.finished = waiter[w].finished
    BY <1>0 DEF Waiters
  <2>3. waiter[w].pc = "read" /\ UNCHANGED <<status, output>>
    BY <1>6 DEF ReadStatus, files
  <2> HIDE DEF r
  <2> QED
    BY <1>6, <2>1, <2>2, <2>3 DEF Turn, Reads
<1>7. CASE ReadStatus(w) /\ ~waiter[w].last
  <2> DEFINE r == [waiter[w] EXCEPT !.pc = "exit", !.code = "ok", !.finished = TRUE]
  <2>1. waiter' = [waiter EXCEPT ![w] = r]
    BY <1>0, <1>7 DEF ReadStatus
  <2>2. /\ r.pc = "exit" /\ r.code = "ok" /\ r.last = waiter[w].last
        /\ r.ino = waiter[w].ino
    BY <1>0 DEF Waiters
  <2>3. waiter[w].pc = "read" /\ UNCHANGED <<status, output>>
    BY <1>7 DEF ReadStatus, files
  <2> HIDE DEF r
  <2> QED
    BY <1>7, <2>1, <2>2, <2>3 DEF Turn, Reads
<1>8. CASE Fetch(w) /\ output = NoOutput
  <2> DEFINE r == [waiter[w] EXCEPT !.pc = "exit", !.code = "fail"]
  <2>1. waiter' = [waiter EXCEPT ![w] = r]
    BY <1>0, <1>8 DEF Fetch, Exit
  <2>2. /\ r.pc = "exit" /\ r.code = "fail" /\ r.last = waiter[w].last
        /\ r.ino = waiter[w].ino /\ r.finished = waiter[w].finished
    BY <1>0 DEF Waiters
  <2>3. waiter[w].pc = "fetch" /\ UNCHANGED <<status, output>>
    BY <1>8 DEF Fetch, files
  <2> HIDE DEF r
  <2> QED
    BY <1>8, <2>1, <2>2, <2>3 DEF Turn, Copies
<1>9. CASE Fetch(w) /\ output # NoOutput
  <2> DEFINE c == ReturnCode(waiter[w].code)
             f == output.full
             r == [waiter[w] EXCEPT !.pc = "delete", !.full = f, !.code = c]
  <2>1. waiter' = [waiter EXCEPT ![w] = r]
    BY <1>0, <1>9 DEF Fetch
  <2>2. /\ r.pc = "delete" /\ r.code = c /\ r.full = f
        /\ r.last = waiter[w].last
        /\ r.ino = waiter[w].ino /\ r.finished = waiter[w].finished
    BY <1>0 DEF Waiters
  <2>3. waiter[w].pc = "fetch" /\ UNCHANGED <<status, output>>
    BY <1>9 DEF Fetch, files
  <2> HIDE DEF r
  <2> QED
    BY <1>9, <2>1, <2>2, <2>3 DEF Turn, Copies
<1>10. CASE \/ DeleteOutput(w) /\ output = NoOutput
            \/ DeleteStatus(w) /\ status = None
  <2> DEFINE r == [waiter[w] EXCEPT !.pc = "exit", !.code = "fail"]
  <2>1. waiter' = [waiter EXCEPT ![w] = r]
    BY <1>0, <1>10 DEF DeleteOutput, DeleteStatus, Exit
  <2>2. /\ r.pc = "exit" /\ r.code = "fail" /\ r.last = waiter[w].last
        /\ r.ino = waiter[w].ino /\ r.finished = waiter[w].finished
    BY <1>0 DEF Waiters
  <2> HIDE DEF r
  <2> QED
    BY <1>10, <2>1, <2>2 DEF Turn, Deletes, DeleteOutput, DeleteStatus
<1>11. CASE DeleteOutput(w) /\ output # NoOutput
  <2> DEFINE r == [waiter[w] EXCEPT !.pc = "unlink"]
  <2>1. waiter' = [waiter EXCEPT ![w] = r]
    BY <1>0, <1>11 DEF DeleteOutput, Go
  <2>2. /\ r.pc = "unlink" /\ r.code = waiter[w].code /\ r.full = waiter[w].full
        /\ r.last = waiter[w].last /\ r.ino = waiter[w].ino
        /\ r.finished = waiter[w].finished
    BY <1>0 DEF Waiters
  <2> HIDE DEF r
  <2> QED
    BY <1>11, <2>1, <2>2 DEF Turn, Deletes, DeleteOutput
<1>12. CASE DeleteStatus(w) /\ status # None
  <2> DEFINE r == [waiter[w] EXCEPT !.pc = "exit"]
  <2>1. waiter' = [waiter EXCEPT ![w] = r]
    BY <1>0, <1>12 DEF DeleteStatus, Go
  <2>2. /\ r.pc = "exit" /\ r.code = waiter[w].code /\ r.full = waiter[w].full
        /\ r.last = waiter[w].last /\ r.ino = waiter[w].ino
        /\ r.finished = waiter[w].finished
    BY <1>0 DEF Waiters
  <2> HIDE DEF r
  <2> QED
    BY <1>12, <2>1, <2>2 DEF Turn, Deletes, DeleteStatus
<1> QED
  BY <1>1, <1>2, <1>3, <1>4, <1>5, <1>6, <1>7, <1>8, <1>9, <1>10, <1>11, <1>12
     DEF WaitStep

\* A prompt start: a wait script gets past its poll only when the exclusive
\* file was written, past the lock only when the execute_command is done.
LEMMA TurnFollows ==
  ASSUME IInv, Alone, Complete, NEW w \in Slots, Follows(waiter[w]),
         NEW r, Turn(waiter[w], r), ~faults'.slow, ~faults'.refused
  PROVE  Follows(r)
<1> DEFINE o == waiter[w]
<1>0. /\ 1 \in Execs /\ 1 # None
      /\ exec[1] \in {"none", "init", "opened", "locked", "started", "marked",
                      "closed", "failed", "crashed"}
  BY RobustAssumption DEF Execs, None, IInv, TypeOK
<1>1. Follows(o) /\ Fits(o) /\ Turn(o, r)
  BY DEF IInv, WaiterInv
<1>h. \A i : (\E e \in Execs : Holds(e, i))
             <=> exec[1] \in {"locked", "started", "marked"} /\ ino[1] = i
  BY <1>0 DEF Alone, Holds
<1>i. r.last = o.last /\ (r.finished => o.finished \/ o.pc = "read")
  BY <1>1 DEF Turn
<1> HIDE DEF o
<1>2. CASE Looks(o, r)
  <2>1. exec[1] \in Past
    BY <1>0, <1>1, <1>2 DEF Looks, Follows, Alone, Past, Done, Ready, Starting
  <2> QED
    BY <1>1, <1>2, <1>i, <2>1 DEF Looks, Follows, Past
<1>3. CASE Opens(o, r)
  BY <1>0, <1>1, <1>3, <1>i DEF Opens, Follows, Alone
<1>4. CASE Locks(o, r)
  <2>1. o.ino = 1
    BY <1>1, <1>4 DEF Locks, Follows, Fits
  <2>2. CASE exec[1] \in Done
    BY <1>1, <1>4, <1>h, <1>i, <2>2 DEF Locks, Follows, Done, Past
  <2>3. CASE exec[1] = "marked"
    <3>1. \E e \in Execs : Holds(e, o.ino)
      BY <1>h, <2>1, <2>3 DEF Alone
    <3> QED
      BY <1>1, <1>4, <1>i, <2>3, <3>1 DEF Locks, Follows, Done
  <2> QED
    BY <1>1, <1>4, <2>2, <2>3 DEF Locks, Follows, Past
<1>5. CASE Reads(o, r)
  <2>1. o.ino = 1
    BY <1>1, <1>5 DEF Reads, Follows, Fits
  <2> QED
    BY <1>1, <1>5, <1>i, <2>1 DEF Reads, Follows, Alone
<1>6. CASE Copies(o, r)
  <2>1. r.pc = "delete" /\ r.code = "ok" => r.full /\ cmd[1] = "ok"
    BY <1>1, <1>6 DEF Copies, Follows, Complete, ReturnCode, Codes
  <2> QED
    BY <1>1, <1>6, <1>i, <2>1 DEF Copies, Follows
<1>7. CASE Deletes(o, r)
  <2>1. o.last
    BY <1>1, <1>7 DEF Deletes, Fits
  <2> QED
    BY <1>1, <1>7, <1>i, <2>1 DEF Deletes, Follows
<1> QED
  BY <1>1, <1>2, <1>3, <1>4, <1>5, <1>6, <1>7 DEF Turn

\* Nothing but the ssh of an earlier wait has failed: a wait script finds the
\* files that it needs.
LEMMA TurnTells ==
  ASSUME IInv, Alone, Complete, Kept, NEW w \in Slots, Follows(waiter[w]),
         Tells(waiter[w]), NEW r, Turn(waiter[w], r), ~faults'.refused
  PROVE  Tells(r)
<1> DEFINE o == waiter[w]
<1>0. 1 \in Execs /\ 1 # None
  BY RobustAssumption DEF Execs, None
<1>1. Follows(o) /\ Fits(o) /\ Tells(o) /\ Turn(o, r)
  BY DEF IInv, WaiterInv
<1>i. r.last = o.last
  BY <1>1 DEF Turn
<1>k. o.last => client.pc = "last" /\ client.att = w
  BY DEF Kept
<1>c. exec[1] \in Done => cmd[1] \in Codes /\ content[1] = cmd[1]
  BY DoneIsClosed DEF Kept
<1>p. o.pc \notin {"idle", "poll"} => exec[1] \notin {"none", "init"}
  BY <1>1 DEF Follows, Past, Done
<1>o. o.pc \in {"fetch", "delete"} => output # NoOutput
  <2> SUFFICES ASSUME o.pc \in {"fetch", "delete"}, output = NoOutput PROVE FALSE
    OBVIOUS
  <2>1. o.last
    BY <1>1 DEF Fits
  <2> QED
    BY <1>k, <1>p, <2>1 DEF Kept
<1>s. (o.last \/ client.pc = "wait") /\ o.pc \in {"open", "unlink"} => status # None
  <2> SUFFICES ASSUME o.last \/ client.pc = "wait", o.pc \in {"open", "unlink"},
                      status = None
               PROVE  FALSE
    OBVIOUS
  <2>1. /\ client.att # None /\ waiter[client.att].last
        /\ waiter[client.att].pc = "exit"
    BY <1>k, <1>p DEF Kept
  <2>2. client.att \in Slots
    BY <2>1 DEF IInv, TypeOK
  <2> QED
    BY <1>k, <2>1, <2>2 DEF Kept
<1> HIDE DEF o
<1>2. CASE Looks(o, r)
  BY <1>2 DEF Looks, Tells
<1>3. CASE Opens(o, r)
  BY <1>3, <1>i, <1>s DEF Opens, Tells
<1>4. CASE Locks(o, r)
  <2>1. o.last => r.pc # "exit"
    BY <1>0, <1>1, <1>4 DEF Locks, Follows, Holds, Alone, Done
  <2> QED
    BY <1>4, <1>i, <2>1 DEF Locks, Tells
<1>5. CASE Reads(o, r)
  <2>1. o.ino = 1 /\ exec[1] \in Done
    BY <1>1, <1>5 DEF Reads, Follows, Fits
  <2> QED
    BY <1>5, <1>i, <1>c, <2>1 DEF Reads, Tells
<1>6. CASE Copies(o, r)
  <2>1. exec[1] \in Done /\ output # NoOutput
    BY <1>1, <1>6, <1>o DEF Copies, Follows
  <2>2. output.full
    BY <1>c, <2>1 DEF Complete
  <2> QED
    BY <1>1, <1>6, <2>1, <2>2 DEF Copies, Tells
<1>7. CASE Deletes(o, r)
  <2>1. o.last
    BY <1>1, <1>7 DEF Deletes, Fits
  <2> QED
    BY <1>1, <1>7, <1>i, <1>o, <1>s, <2>1 DEF Deletes, Tells
<1> QED
  BY <1>1, <1>2, <1>3, <1>4, <1>5, <1>6, <1>7 DEF Turn

\* Such a step keeps the files while they are needed.
LEMMA TurnKept ==
  ASSUME IInv, Kept, NEW w \in Slots, NEW r, Turn(waiter[w], r),
         waiter' = [waiter EXCEPT ![w] = r], UNCHANGED <<client, exec>>
  PROVE  Kept'
<1> DEFINE o == waiter[w]
<1>0. waiter'[w] = r /\ \A v \in Slots \ {w} : waiter'[v] = waiter[v]
  BY DEF IInv, TypeOK
<1>1. Turn(o, r) /\ r.last = o.last /\ (o.last => client.pc = "last" /\ client.att = w)
      /\ Fits(o) /\ client.att \in Slots \cup {None} /\ w # None
  BY DEF Turn, Kept, IInv, WaiterInv, TypeOK, Slots, None
<1>2. \A v \in Slots : waiter'[v].last => client'.pc = "last" /\ client'.att = v
  BY <1>0, <1>1 DEF Kept
<1>3. ASSUME client.pc \in {"wait", "last"}, exec[1] \notin {"none", "init"},
             output' = NoOutput
      PROVE  /\ client.att # None /\ waiter'[client.att].last
             /\ waiter'[client.att].pc \in {"unlink", "exit"}
  <2>1. CASE output = NoOutput
    <3>1. /\ client.att # None /\ waiter[client.att].last
          /\ waiter[client.att].pc \in {"unlink", "exit"}
      BY <1>3, <2>1 DEF Kept
    <3>2. CASE client.att = w
      <4>1. o.pc \in {"unlink", "exit"}
        BY <3>1, <3>2
      <4> HIDE DEF o
      <4>2. r.pc = "exit"
        BY <1>1, <4>1 DEF Turn, Looks, Opens, Locks, Reads, Copies, Deletes
      <4> QED
        BY <1>0, <1>1, <3>1, <3>2, <4>2 DEF o
    <3>3. CASE client.att # w
      BY <1>0, <1>1, <3>1, <3>3
    <3> QED
      BY <3>2, <3>3
  <2>2. CASE output # NoOutput
    <3> HIDE DEF o
    <3>1. o.pc = "delete" /\ r.pc = "unlink"
      BY <1>1, <1>3, <2>2 DEF Turn, Looks, Opens, Locks, Reads, Copies, Deletes
    <3> QED
      BY <1>0, <1>1, <3>1 DEF Fits
  <2> QED
    BY <2>1, <2>2
<1>4. ASSUME client.pc \in {"wait", "last"}, exec[1] \notin {"none", "init"},
             status' = None
      PROVE  /\ client.att # None /\ waiter'[client.att].last
             /\ waiter'[client.att].pc = "exit"
  <2>1. CASE status = None
    <3>1. /\ client.att # None /\ waiter[client.att].last
          /\ waiter[client.att].pc = "exit"
      BY <1>4, <2>1 DEF Kept
    <3>2. client.att # w
      <4> SUFFICES ASSUME client.att = w PROVE FALSE
        OBVIOUS
      <4>1. o.pc = "exit"
        BY <3>1
      <4> HIDE DEF o
      <4> QED
        BY <1>1, <4>1 DEF Turn, Looks, Opens, Locks, Reads, Copies, Deletes
    <3> QED
      BY <1>0, <1>1, <3>1, <3>2
  <2>2. CASE status # None
    <3> HIDE DEF o
    <3>1. o.pc = "unlink" /\ r.pc = "exit"
      BY <1>1, <1>4, <2>2 DEF Turn, Looks, Opens, Locks, Reads, Copies, Deletes
    <3> QED
      BY <1>0, <1>1, <3>1 DEF Fits
  <2> QED
    BY <2>1, <2>2
<1> QED
  BY <1>2, <1>3, <1>4 DEF Kept

\* The steps of wait_for_command.py, orphaned or not, keep the invariant.
LEMMA WaitKeepsRobust ==
  ASSUME RobustInv, NEW w \in Slots, (Prompt' => Prompt) /\ (Smooth' => Smooth),
         WaitEvent(w)
  PROVE  Linked' /\ Truth' /\ Robust'
<1> USE DEF RobustInv
<1>1. /\ UNCHANGED <<client, exec, ino, cmd, content, exclusive>>
      /\ status' \in {status, None} /\ output' \in {output, NoOutput}
  BY DEF WaitEvent, WaitStep, PollFound, PollTimesOut, OpenStatus, LockStatus,
         Alarm, LockRefused, ReadStatus, Fetch, DeleteOutput, DeleteStatus, OrphanDies, files, remote
<1>2. Forward
  BY <1>1 DEF Forward
<1>3. PICK r : /\ waiter' = [waiter EXCEPT ![w] = r]
               /\ \/ Turn(waiter[w], r)
                  \/ /\ r = Idle /\ client.att # w /\ UNCHANGED <<status, output>>
  BY WaitEffect DEF WaitEvent, OrphanDies, files
<1>4. waiter'[w] = r /\ \A v \in Slots \ {w} : waiter'[v] = waiter[v]
  BY <1>3 DEF IInv, TypeOK
<1>5. Linked'
  <2>1. CASE r = Idle /\ client.att # w
    BY <1>1, <1>4, <2>1 DEF Linked, IInv, TypeOK
  <2>2. CASE Turn(waiter[w], r)
    <3>1. r.last = waiter[w].last /\ r.pc # "idle"
      BY <2>2 DEF Turn, Looks, Opens, Locks, Reads, Copies, Deletes
    <3> QED
      BY <1>1, <1>4, <3>1 DEF Linked, IInv, TypeOK
  <2> QED
    BY <1>3, <2>1, <2>2
<1>6. ASSUME Prompt'
      PROVE  /\ Alone' /\ Complete' /\ ClientFollows'
             /\ \A v \in Slots : Follows(waiter[v])'
  <2>1. /\ Alone /\ Complete /\ ClientFollows
        /\ \A v \in Slots : Follows(waiter[v])
    BY <1>6 DEF Truth
  <2>2. Alone' /\ Complete'
    BY <1>1, <2>1 DEF Alone, Complete
  <2>3. ClientFollows'
    BY <1>1, <2>1 DEF ClientFollows
  <2>4. Follows(r)
    <3>1. CASE r = Idle
      BY <3>1 DEF Follows, Idle, None
    <3> QED
      BY <1>3, <1>6, <2>1, <3>1, TurnFollows DEF Prompt
  <2>5. ASSUME NEW v \in Slots PROVE Follows(waiter[v])'
    BY <1>2, <1>4, <2>1, <2>4, FollowsStays
  <2> QED
    BY <2>2, <2>3, <2>5
<1>7. ASSUME Smooth'
      PROVE  Kept' /\ Answered' /\ \A v \in Slots : Tells(waiter[v])'
  <2>0. Prompt /\ Prompt'
    BY <1>7 DEF Prompt, Smooth
  <2>1. /\ Alone /\ Complete /\ Kept /\ Answered
        /\ \A v \in Slots : Follows(waiter[v]) /\ Tells(waiter[v])
    BY <1>7, <2>0 DEF Truth, Robust
  <2>2. Follows(r) /\ Tells(r)
    <3>1. CASE r = Idle
      BY <3>1 DEF Follows, Tells, Idle, None
    <3> QED
      BY <1>3, <2>0, <2>1, <3>1, TurnFollows, TurnTells DEF Prompt
  <2>3. exec[1] \in Done => cmd[1] \in Codes
    BY <2>1, DoneIsClosed DEF Kept
  <2>4. ASSUME NEW v \in Slots PROVE Tells(waiter[v])'
    BY <1>1, <1>2, <1>4, <2>1, <2>2, <2>3, TellsStays
  <2>5. Answered'
    BY <1>1, <2>1 DEF Answered
  <2>6. Kept'
    <3>1. CASE Turn(waiter[w], r)
      BY <1>1, <1>3, <2>1, <3>1, TurnKept
    <3>2. CASE r = Idle /\ client.att # w /\ UNCHANGED <<status, output>>
      <4>1. Idle.last = FALSE /\ client.att \in Slots \cup {None}
        BY DEF Idle, IInv, TypeOK
      <4> QED
        BY <1>1, <1>4, <2>1, <3>2, <4>1 DEF Kept
    <3> QED
      BY <1>3, <3>1, <3>2
  <2> QED
    BY <2>4, <2>5, <2>6
<1> QED
  BY <1>5, <1>6, <1>7 DEF Truth, Robust

-----------------------------------------------------------------------------
\* So does the ssh call that starts execute_command.py ...
LEMMA StartKeepsRobust ==
  ASSUME RobustInv, Start
  PROVE  Linked' /\ Truth' /\ Robust'
<1> USE DEF RobustInv
<1>0. client \in Clients /\ 1 \in Execs /\ 1 # None /\ 0 + 1 = 1
  BY RobustAssumption DEF IInv, TypeOK, Clients, ClientPcs, Execs, None
<1>1. /\ client.pc = "start" /\ client.att = None /\ exec[client.tries + 1] = "none"
      /\ exec' = [exec EXCEPT ![client.tries + 1] = "init"]
      /\ UNCHANGED <<ino, cmd, status, content, exclusive, output, waiter, faults>>
  BY RobustAssumption DEF Start, Spawn, IInv, StartInv, TypeOK, Execs, files
<1>2. /\ client'.pc = "wait" /\ client'.att = None /\ client'.code = client.code
      /\ client'.full = client.full
  BY <1>0, <1>1 DEF Start, Clients
<1>3. Linked'
  BY <1>2 DEF Linked
<1>4. ASSUME Prompt'
      PROVE  /\ Alone' /\ Complete' /\ ClientFollows' /\ exec'[1] = "init"
             /\ \A w \in Slots : Follows(waiter[w])' /\ waiter[w].pc = "idle"
  <2>1. /\ Alone /\ Complete /\ ClientFollows
        /\ \A w \in Slots : Follows(waiter[w])
    BY <1>1, <1>4 DEF Truth, Prompt
  <2>2. exec[1] = "none" /\ exec' = [exec EXCEPT ![1] = "init"] /\ exec'[1] = "init"
    BY <1>0, <1>1, <2>1 DEF ClientFollows, IInv, TypeOK
  <2>3. Alone' /\ Complete'
    BY <1>0, <1>1, <2>1, <2>2 DEF Alone, Complete, Past, Done, IInv, TypeOK
  <2>4. ClientFollows'
    BY <1>1, <1>2, <2>1, <2>2 DEF ClientFollows
  <2>5. Forward
    BY <1>1, <2>2 DEF Forward, Past, Done
  <2>6. ASSUME NEW w \in Slots
        PROVE  Follows(waiter[w])' /\ waiter[w].pc = "idle"
    <3>1. Follows(waiter[w])'
      BY <1>1, <2>1, <2>5, FollowsStays
    <3>2. waiter[w].pc = "idle"
      BY <2>1, <2>2 DEF Follows
    <3> QED
      BY <3>1, <3>2
  <2> QED
    BY <2>2, <2>3, <2>4, <2>6
<1>5. ASSUME Smooth'
      PROVE  Kept' /\ Answered' /\ \A w \in Slots : Tells(waiter[w])'
  <2>1. Smooth /\ Prompt'
    BY <1>1, <1>5 DEF Prompt, Smooth
  <2>2. Kept
    BY <2>1 DEF Robust
  <2>3. Kept'
    BY <1>1, <1>4, <2>1, <2>2 DEF Kept
  <2>4. Answered'
    BY <1>2 DEF Answered
  <2>5. ASSUME NEW w \in Slots PROVE Tells(waiter[w])'
    BY <1>1, <1>4, <2>1 DEF Tells
  <2> QED
    BY <2>3, <2>4, <2>5
<1> QED
  BY <1>3, <1>4, <1>5 DEF Truth, Robust

\* ... the one that starts a wait script ...
LEMMA IssueKeepsRobust ==
  ASSUME RobustInv, IssueWait
  PROVE  Linked' /\ Truth' /\ Robust'
<1> USE DEF RobustInv
<1>1. PICK w \in Slots :
        /\ waiter' = [waiter EXCEPT ![w] =
                        [Idle EXCEPT !.pc = "poll", !.last = (client.pc = "last")]]
        /\ client' = [client EXCEPT !.att = w]
  BY DEF IssueWait
<1>2. /\ client.pc \in {"wait", "last"} /\ client.att = None
      /\ UNCHANGED <<exec, ino, cmd, status, content, exclusive, output, faults>>
  BY DEF IssueWait, remote, files
<1> DEFINE r == [Idle EXCEPT !.pc = "poll", !.last = (client.pc = "last")]
<1>3. /\ r.pc = "poll" /\ r.last = (client.pc = "last") /\ r.ino = None
      /\ r.finished = FALSE
  BY DEF Idle
<1>4. waiter'[w] = r /\ \A v \in Slots \ {w} : waiter'[v] = waiter[v]
  BY <1>1 DEF IInv, TypeOK
<1> HIDE DEF r
<1>5. /\ client'.pc = client.pc /\ client'.att = w /\ client'.tries = client.tries
      /\ client'.code = client.code /\ client'.full = client.full
      /\ client'.ignore_failure = client.ignore_failure
  BY <1>1 DEF IInv, TypeOK
<1>6. Linked'
  BY <1>2, <1>3, <1>4, <1>5 DEF Linked
<1>7. ASSUME Prompt'
      PROVE  /\ Alone' /\ Complete' /\ ClientFollows'
             /\ \A v \in Slots : Follows(waiter[v])'
  <2>1. /\ Alone /\ Complete /\ ClientFollows
        /\ \A v \in Slots : Follows(waiter[v])
    BY <1>2, <1>7 DEF Truth, Prompt
  <2>2. Alone' /\ Complete'
    BY <1>2, <2>1 DEF Alone, Complete
  <2>3. ClientFollows' /\ Forward
    BY <1>2, <1>5, <2>1 DEF ClientFollows, Forward
  <2>4. Follows(r)
    BY <1>2, <1>3, <2>1 DEF Follows, ClientFollows
  <2>5. ASSUME NEW v \in Slots PROVE Follows(waiter[v])'
    BY <1>4, <2>1, <2>3, <2>4, FollowsStays
  <2> QED
    BY <2>2, <2>3, <2>5
<1>8. ASSUME Smooth'
      PROVE  Kept' /\ Answered' /\ \A v \in Slots : Tells(waiter[v])'
  <2>1. Smooth
    BY <1>2, <1>8 DEF Smooth
  <2>2. Kept /\ Answered /\ \A v \in Slots : Tells(waiter[v])
    BY <2>1 DEF Robust
  <2>3. \A v \in Slots : v # None
    BY DEF Slots, None
  <2>4. Kept'
    BY <1>2, <1>3, <1>4, <1>5, <2>2, <2>3 DEF Kept
  <2>5. Answered'
    BY <1>2, <1>5 DEF Answered
  <2>6. Tells(r)
    BY <1>3 DEF Tells
  <2>7. ASSUME NEW v \in Slots PROVE Tells(waiter[v])'
    BY <1>2, <1>4, <1>5, <2>2, <2>6 DEF Tells
  <2> QED
    BY <2>4, <2>5, <2>7
<1> QED
  BY <1>6, <1>7, <1>8 DEF Truth, Robust

\* Where only the caller does something, at most ending a wait script's ssh,
\* all that matters is what becomes of the call.
LEMMA CallerKeepsTruth ==
  ASSUME Truth, UNCHANGED <<remote, files>>, Prompt' => Prompt,
         \A v \in Slots : waiter'[v] \in {waiter[v], Idle},
         Prompt' => ClientFollows'
  PROVE  Truth'
<1> SUFFICES ASSUME Prompt'
             PROVE  Alone' /\ Complete' /\ \A v \in Slots : Follows(waiter[v])'
  BY DEF Truth
<1>1. Alone /\ Complete /\ \A v \in Slots : Follows(waiter[v])
  BY DEF Truth
<1>2. Alone' /\ Complete' /\ Forward
  BY <1>1 DEF Alone, Complete, Forward, remote, files
<1>3. Follows(Idle)
  BY DEF Follows, Idle, None
<1>4. ASSUME NEW v \in Slots PROVE Follows(waiter[v])'
  BY <1>1, <1>2, <1>3, FollowsStays
<1> QED
  BY <1>2, <1>4

\* ... a failure of either, repeated or final ...
LEMMA FailureKeepsRobust ==
  ASSUME RobustInv, (Prompt' => Prompt) /\ (Smooth' => Smooth),
         StartLost \/ SshFails \/ SshTimesOut
  PROVE  Linked' /\ Truth' /\ Robust'
<1> USE DEF RobustInv
<1>0. client \in Clients /\ faults \in Faults /\ TypeOK
  BY DEF IInv, TypeOK, Clients, ClientPcs, Faults
<1>1. CASE StartLost
  <2>1. ~Prompt' /\ ~Smooth'
    <3>1. [faults EXCEPT !.start = TRUE] \in Faults
      BY <1>0 DEF Faults
    <3> QED
      BY <1>0, <1>1, <3>1, FaultKept DEF StartLost, Prompt, Smooth, Faults
  <2>2. client'.att = None
    BY <1>0, <1>1, RetryEffect DEF StartLost
  <2> QED
    BY <2>1, <2>2 DEF Linked, Truth, Robust
<1>2. CASE SshTimesOut
  <2>1. ~Smooth'
    <3>1. [faults EXCEPT !.hang = TRUE] \in Faults
      BY <1>0 DEF Faults
    <3> QED
      BY <1>0, <1>2, <3>1, FaultKept DEF SshTimesOut, Smooth, Faults
  <2>2. /\ client'.att = None /\ client'.pc = "raised" /\ client.pc = "wait"
        /\ client'.code = client.code /\ client'.full = client.full
        /\ UNCHANGED <<remote, files, waiter>>
    BY <1>0, <1>2 DEF SshTimesOut, Clients
  <2>3. ASSUME Prompt' PROVE ClientFollows'
    BY <2>2, <2>3 DEF Truth, ClientFollows, remote
  <2>4. Truth'
    BY <2>2, <2>3, CallerKeepsTruth
  <2> QED
    BY <2>1, <2>2, <2>4 DEF Linked, Robust
<1>3. CASE SshFails
  <2>1. client.pc \in {"wait", "last"} /\ UNCHANGED <<remote, files, waiter>>
        /\ client' = Retry(client)
    BY <1>3 DEF SshFails, Linked
  <2>2. /\ client'.att = None /\ client'.full = client.full
        /\ client'.ignore_failure = client.ignore_failure
        /\ \/ client'.pc = client.pc /\ client'.code = client.code
           \/ /\ client'.pc \in {"log", "returned", "raised"}
              /\ client'.code = "c255"
    BY <1>0, <2>1, RetryEffect
  <2>3. ASSUME Prompt' PROVE ClientFollows'
    BY <2>1, <2>2, <2>3 DEF Truth, ClientFollows, remote
  <2>4. Truth'
    BY <2>1, <2>3, CallerKeepsTruth
  <2>5. ASSUME Smooth'
        PROVE  Kept' /\ Answered' /\ \A v \in Slots : Tells(waiter[v])'
    <3>1. client.pc = "wait"
      <4> DEFINE f == [faults EXCEPT !.last = @ \/ client.pc = "last"]
      <4>1. f \in Faults /\ (client.pc = "last" => f.last)
        BY <1>0 DEF Faults
      <4>2. Fault(f)
        BY <1>3 DEF SshFails
      <4> HIDE DEF f
      <4>3. faults'.last = f.last
        BY <1>0, <4>1, <4>2, FaultKept
      <4> QED
        BY <2>1, <2>5, <4>1, <4>3 DEF Smooth
    <3>2. Kept /\ Answered /\ \A v \in Slots : Tells(waiter[v])
      BY <2>5 DEF Robust
    <3>3. \A v \in Slots : ~waiter[v].last
      BY <3>1, <3>2 DEF Kept
    <3>4. client.att \in Slots \cup {None}
      BY <1>0 DEF Clients
    <3>5. Kept'
      BY <2>1, <2>2, <3>1, <3>2, <3>3, <3>4 DEF Kept, remote, files
    <3>6. Answered'
      BY <2>1, <2>2, <3>1, <3>2 DEF Answered, remote
    <3>7. ASSUME NEW v \in Slots PROVE Tells(waiter[v])'
      BY <2>1, <2>2, <3>1, <3>2, <3>3 DEF Tells, remote
    <3> QED
      BY <3>5, <3>6, <3>7
  <2> QED
    BY <2>2, <2>4, <2>5 DEF Linked, Robust
<1> QED
  BY <1>1, <1>2, <1>3

\* ... the result that comes back ...
LEMMA ReceiveKeepsRobust ==
  ASSUME RobustInv, Receive
  PROVE  Linked' /\ Truth' /\ Robust'
<1> USE DEF RobustInv
<1> DEFINE w == client.att
           r == waiter[client.att]
<1>0. client \in Clients /\ w \in Slots /\ r \in Waiters
  BY DEF Receive, IInv, TypeOK, Clients, ClientPcs, Waiters
<1>1. /\ UNCHANGED <<remote, files, faults>> /\ client' = Received(client, r)
      /\ waiter' = [waiter EXCEPT ![w] = Idle] /\ r.pc = "exit"
  BY DEF Receive
<1>2. /\ client.pc \in {"wait", "last"} /\ r.last = (client.pc = "last")
      /\ r.code \in {"ok", "fail"}
  BY <1>0, <1>1 DEF Linked, IInv, WaiterInv, Fits, Slots, None
<1>3. waiter'[w] = Idle /\ \A v \in Slots \ {w} : waiter'[v] = waiter[v]
  BY <1>0, <1>1 DEF IInv, TypeOK
<1>4. /\ client'.att = None /\ client'.ignore_failure = client.ignore_failure
      /\ \/ ToError(client, r, client') \/ ToWait(client, r, client')
         \/ ToEnd(client, r, client')
  BY <1>0, <1>1, <1>2, ReceivedEffect
<1>5. (Prompt' => Prompt) /\ (Smooth' => Smooth)
  BY <1>1 DEF Prompt, Smooth
<1>6. ASSUME Prompt' PROVE ClientFollows'
  <2>1. ClientFollows /\ Follows(r)
    BY <1>0, <1>5, <1>6 DEF Truth
  <2> HIDE DEF r
  <2> QED
    BY <1>1, <1>2, <1>4, <2>1
       DEF ClientFollows, Follows, ToError, ToWait, ToEnd, remote
<1>7. Truth'
  BY <1>1, <1>3, <1>5, <1>6, CallerKeepsTruth
<1>8. ASSUME Smooth'
      PROVE  Kept' /\ Answered' /\ \A v \in Slots : Tells(waiter[v])'
  <2>1. Smooth /\ Prompt
    BY <1>5, <1>8 DEF Smooth, Prompt
  <2>2. /\ Kept /\ Answered /\ Alone /\ \A v \in Slots : Tells(waiter[v])
        /\ Tells(r) /\ Follows(r)
    BY <1>0, <2>1 DEF Robust, Truth
  <2>3. \A v \in Slots \ {w} : ~waiter[v].last
    BY <2>2 DEF Kept
  <2>4. Idle.last = FALSE /\ Idle.pc = "idle"
    BY DEF Idle
  <2>5. r.last => cmd[1] \in Codes
    BY <2>2, DoneIsClosed DEF Kept, Follows
  <2>6. client'.pc \in {"wait", "last"} => client.pc = "wait" /\ ~r.last
    BY <1>2, <1>4 DEF ToError, ToWait, ToEnd
  <2>7. Kept'
    <3>1. \A v \in Slots : ~waiter'[v].last
      BY <1>3, <2>3, <2>4
    <3>2. client'.pc \in {"wait", "last"} /\ exec[1] \notin {"none", "init"} =>
            output # NoOutput /\ status # None
      BY <1>2, <2>2, <2>6 DEF Kept
    <3> QED
      BY <1>1, <2>2, <3>1, <3>2 DEF Kept, remote, files
  <2>8. Answered'
    <3> HIDE DEF r
    <3>1. CASE ToError(client, r, client')
      <4>1. r.last
        BY <1>1, <1>2, <2>2, <3>1 DEF ToError, Tells
      <4> QED
        BY <1>1, <1>2, <1>4, <2>2, <2>5, <3>1, <4>1
           DEF ToError, Tells, Answered, ReturnCode, remote
    <3>2. CASE ToWait(client, r, client')
      BY <3>2 DEF ToWait, Answered
    <3>3. CASE ToEnd(client, r, client')
      BY <1>1, <1>2, <1>4, <2>2, <2>5, <3>3
         DEF ToEnd, Tells, Answered, ReturnCode, remote
    <3> QED
      BY <1>4, <3>1, <3>2, <3>3
  <2>9. ASSUME NEW v \in Slots PROVE Tells(waiter[v])'
    <3>1. CASE v = w
      BY <1>3, <2>4, <3>1 DEF Tells
    <3>2. CASE v # w
      BY <1>1, <1>3, <2>2, <2>6, <3>2 DEF Tells, remote
    <3> QED
      BY <3>1, <3>2
  <2> QED
    BY <2>7, <2>8, <2>9
<1> QED
  BY <1>4, <1>7, <1>8 DEF Linked, Robust

\* ... and the log that is printed after an error.
LEMMA LogKeepsRobust ==
  ASSUME RobustInv, PrintLog
  PROVE  Linked' /\ Truth' /\ Robust'
<1> USE DEF RobustInv
<1>1. /\ client.pc = "log" /\ client'.pc = "raised" /\ client'.att = client.att
      /\ client'.code = client.code /\ client'.full = client.full
      /\ client'.ignore_failure = client.ignore_failure
      /\ UNCHANGED <<remote, files, waiter, faults>>
  BY DEF PrintLog, IInv, TypeOK
<1>2. Linked'
  BY <1>1 DEF Linked
<1>3. (Prompt' => Prompt) /\ (Smooth' => Smooth)
  BY <1>1 DEF Prompt, Smooth
<1>4. ASSUME Prompt' PROVE ClientFollows'
  BY <1>1, <1>3, <1>4 DEF Truth, ClientFollows, remote
<1>5. Truth'
  BY <1>1, <1>3, <1>4, CallerKeepsTruth
<1>6. ASSUME Smooth'
      PROVE  Kept' /\ Answered' /\ \A v \in Slots : Tells(waiter[v])'
  <2>1. Kept /\ Answered /\ \A v \in Slots : Tells(waiter[v])
    BY <1>3, <1>6 DEF Robust
  <2>2. Kept' /\ Answered'
    BY <1>1, <2>1 DEF Kept, Answered, remote
  <2>3. ASSUME NEW v \in Slots PROVE Tells(waiter[v])'
    BY <1>1, <2>1 DEF Tells, remote
  <2> QED
    BY <2>2, <2>3
<1> QED
  BY <1>2, <1>5, <1>6 DEF Robust

\* The inductive invariant of the two theorems below.
LEMMA RobustInvariance == Spec => []RobustInv
<1>1. Init => Linked /\ Truth /\ Robust
  <2> SUFFICES ASSUME Init PROVE Linked /\ Truth /\ Robust
    OBVIOUS
  <2>0. 1 \in Execs
    BY RobustAssumption DEF Execs
  <2>1. Linked
    BY DEF Init, Linked
  <2>2. \A w \in Slots : waiter[w] = Idle
    BY DEF Init
  <2>3. Follows(Idle) /\ Tells(Idle) /\ Idle.last = FALSE
    BY DEF Follows, Tells, Idle, None
  <2>4. Alone /\ Complete
    BY <2>0 DEF Init, Alone, Complete, Past, Done
  <2>5. ClientFollows /\ Answered
    BY DEF Init, ClientFollows, Answered
  <2>6. Kept
    BY <2>0, <2>2, <2>3 DEF Init, Kept
  <2> QED
    BY <2>1, <2>2, <2>3, <2>4, <2>5, <2>6 DEF Truth, Robust
<1>2. RobustInv /\ IInv' /\ [Next]_vars => RobustInv'
  <2> SUFFICES ASSUME RobustInv, IInv', [Next]_vars
               PROVE  Linked' /\ Truth' /\ Robust'
    BY DEF RobustInv
  <2>0. (Prompt' => Prompt) /\ (Smooth' => Smooth)
    BY FaultsStay DEF RobustInv
  <2>1. CASE Client
    BY <2>1, StartKeepsRobust, IssueKeepsRobust, ReceiveKeepsRobust,
       LogKeepsRobust DEF Client
  <2>2. CASE StartLost \/ SshFails \/ SshTimesOut
    BY <2>0, <2>2, FailureKeepsRobust
  <2>3. ASSUME NEW e \in Execs,
               \/ ExecStep(e) \/ KillProcess(e) \/ Crash(e)
               \/ \E code \in Codes : CommandEnds(e, code)
        PROVE  Linked' /\ Truth' /\ Robust'
    BY <2>0, <2>3, ExecKeepsRobust DEF KillProcess, Codes
  <2>4. ASSUME NEW w \in Slots, WaitEvent(w)
        PROVE  Linked' /\ Truth' /\ Robust'
    BY <2>0, <2>4, WaitKeepsRobust
  <2>5. CASE UNCHANGED vars
    <3>1. Linked' /\ Truth'
      BY <2>5
         DEF RobustInv, Linked, Truth, Prompt, Alone, Complete, ClientFollows,
             Follows, vars
    <3>2. Robust'
      BY <2>5 DEF RobustInv, Robust, Smooth, Kept, Answered, Tells, vars
    <3> QED
      BY <3>1, <3>2
  <2> QED
    BY <2>1, <2>2, <2>3, <2>4, <2>5 DEF Next, WaitEvent
<1>3. Init => RobustInv \/ ~IInv
  BY <1>1 DEF RobustInv
<1> QED
  BY <1>2, <1>3, Invariance, PTL DEF Spec

\* Whatever goes wrong once RobustRemoteCommand's start has gone through,
\* except a lock refused to its last wait, and however often ssh returns 255:
\* return code 0 means that the command ended with 0, and the output that is
\* returned with it is complete.
THEOREM SuccessSound == Spec => []SuccessIsTrue
<1>1. RobustInv => SuccessIsTrue
  BY RobustAssumption
     DEF RobustInv, Truth, Prompt, ClientFollows, SuccessIsTrue, Execs
<1> QED
  BY <1>1, RobustInvariance, PTL

\* If nothing but the ssh of a wait fails, or the lock of one that is not the
\* last, RobustRemoteCommand tells its caller
\* what the command did, with all of its output, for any number of retries.
THEOREM RetriesSafe == Spec => []WaitIsRobust
<1>1. RobustInv => WaitIsRobust
  <2> SUFFICES ASSUME RobustInv, Over, Smooth, client.code # "c255"
               PROVE  /\ cmd[1] \in Codes
                      /\ client.pc = "returned" <=> cmd[1] = "ok" \/ client.ignore_failure
                      /\ client.pc = "returned" => client.full
    BY DEF WaitIsRobust, Smooth
  <2> QED
    BY DEF RobustInv, Robust, Answered, Over
<1> QED
  BY <1>1, RobustInvariance, PTL

-----------------------------------------------------------------------------
(***************************************************************************)
(* A local call.                                                           *)
(***************************************************************************)
\* The timer is in _KillProcess or past it.
Killing == {"mark", "kill", "killed"}

\* How far the caller is says what has become of the process: a caller past
\* the wait holds the return code of a process that can change no more.
CallerInv ==
    /\ main = "popen" => process = "none" /\ result = "none"
    /\ main \in {"popen", "start"} => timer = "none"
    /\ main \in {"start", "wait", "cancel", "raise"} =>
         process # "none" /\ result = "none"
    /\ main \in {"cancel", "raise"} =>
         process # "running" /\ returncode = process
    /\ result = "not_started" => process = "none" /\ timer = "none"
    /\ Ended => main = "done" /\ process # "running"

\* The timer goes past its look at the event only if it woke in time, and
\* did_timeout is set before the process is killed.
TimerInv ==
    /\ timer = "check" /\ ~finished => opts.timeout /\ expired
    /\ timer \in Killing => opts.timeout /\ expired
    /\ timer \in {"kill", "killed"} => did_timeout
    /\ did_timeout => /\ opts.timeout /\ expired
                      /\ timer \in {"kill", "killed", "over"}
    /\ process = "sigkill" => did_timeout
    /\ result = "timeout" => did_timeout

\* The command ends with the process, unless /usr/bin/time is between them.
CommandInv ==
    /\ process = "none" => command = "none"
    /\ process \notin {"none", "running"} /\ command = "running"
         => opts.should_time

LocalInv == CallerInv /\ TimerInv /\ CommandInv
              /\ KilledIsReported /\ TimeoutIsTimely

-----------------------------------------------------------------------------
\* The state of the call keeps its types.
LEMMA LocalTypes == CallTypeOK /\ [CallNext]_callVars => CallTypeOK'
<1> SUFFICES ASSUME CallTypeOK, [CallNext]_callVars PROVE CallTypeOK'
  OBVIOUS
<1> USE DEF CallTypeOK
<1>1. CASE Main
  <2> USE <1>1 DEF Main
  <2>1. CASE Popen
    BY <2>1 DEF Popen
  <2>2. CASE StartTimer
    BY <2>2 DEF StartTimer
  <2>3. CASE Wait
    BY <2>3 DEF Wait
  <2>4. CASE Interrupt
    BY <2>4 DEF Interrupt
  <2>5. CASE Cancel
    BY <2>5 DEF Cancel
  <2>6. CASE Finish
    <3>1. Outcome \in Exits \cup {"timeout", "error"}
      BY DEF Outcome, Exits
    <3> QED
      BY <3>1, <2>6 DEF Finish
  <2> QED
    BY <2>1, <2>2, <2>3, <2>4, <2>5, <2>6
<1>2. CASE Timer
  <2>1. CASE Wake
    BY <2>1 DEF Wake
  <2>2. CASE CheckFinished
    BY <2>2 DEF CheckFinished
  <2>3. CASE MarkTimeout
    BY <2>3 DEF MarkTimeout
  <2>4. CASE Kill
    BY <2>4 DEF Kill
  <2>5. CASE MarkKilled
    BY <2>5 DEF MarkKilled
  <2> QED
    BY <1>2, <2>1, <2>2, <2>3, <2>4, <2>5 DEF Timer
<1>3. ASSUME NEW code \in Exits, EndCommand(code)
      PROVE  CallTypeOK'
  BY <1>3 DEF EndCommand
<1>4. CASE UNCHANGED callVars
  BY <1>4 DEF callVars
<1> QED
  BY <1>1, <1>2, <1>3, <1>4 DEF CallNext

\* IssueCommand and its timer keep their types.
THEOREM LocalTypeCorrect == CallSpec => []CallTypeOK
<1>1. CallInit => CallTypeOK
  BY DEF CallInit, CallTypeOK, Exits
<1> QED
  BY <1>1, LocalTypes, PTL DEF CallSpec

-----------------------------------------------------------------------------
\* The call begins in a state of the invariant.
LEMMA LocalInit == CallInit => LocalInv
  BY DEF CallInit, LocalInv, CallerInv, TimerInv, CommandInv,
         KilledIsReported,
         TimeoutIsTimely, Ended, Killing

\* The steps of the calling thread keep the invariant.
LEMMA LocalMainInv == LocalInv /\ Main => LocalInv'
<1> SUFFICES ASSUME LocalInv, Main PROVE LocalInv'
  OBVIOUS
<1> USE DEF LocalInv, CallerInv, TimerInv, CommandInv,
         KilledIsReported,
            TimeoutIsTimely, Ended, Killing
<1>1. CASE Popen
  BY <1>1 DEF Popen
<1>2. CASE StartTimer
  BY <1>2 DEF StartTimer
<1>3. CASE Wait
  BY <1>3 DEF Wait
<1>4. CASE Interrupt
  BY <1>4 DEF Interrupt
<1>5. CASE Cancel
  BY <1>5 DEF Cancel
<1>6. CASE Finish
  <2>1. process = "sigkill" => did_timeout /\ returncode = "sigkill"
    BY <1>6 DEF Finish
  <2>2. process = "sigkill" /\ opts.raise_on_timeout => result' = "timeout"
    BY <1>6, <2>1 DEF Finish, Outcome
  <2>3. process = "sigkill" /\ ~opts.raise_on_timeout /\ result' = "zero"
          => opts.suppress = "yes"
    BY <1>6, <2>1 DEF Finish, Outcome
  <2>4. result' = "timeout" => did_timeout
    BY <1>6 DEF Finish, Outcome
  <2>5. result' # "not_started"
    BY <1>6 DEF Finish, Outcome
  <2> QED
    BY <1>6, <2>2, <2>3, <2>4, <2>5 DEF Finish
<1> QED
  BY <1>1, <1>2, <1>3, <1>4, <1>5, <1>6 DEF Main

\* The steps of the timer thread keep the invariant.
LEMMA LocalTimerInv == CallTypeOK /\ LocalInv /\ Timer => LocalInv'
<1> SUFFICES ASSUME CallTypeOK, LocalInv, Timer PROVE LocalInv'
  OBVIOUS
<1> USE DEF LocalInv, CallerInv, TimerInv, CommandInv,
         KilledIsReported,
            TimeoutIsTimely, Ended, Killing
<1>1. CASE Wake
  <2>1. ~finished => opts.timeout /\ expired'
    BY <1>1, Zenon DEF Wake
  <2>2. ~did_timeout /\ result # "timeout"
    BY <1>1 DEF Wake
  <2> QED
    BY <1>1, <2>1, <2>2 DEF Wake
<1>2. CASE CheckFinished
  BY <1>2 DEF CheckFinished
<1>3. CASE MarkTimeout
  BY <1>3 DEF MarkTimeout
<1>4. CASE Kill
  BY <1>4 DEF Kill
<1>5. CASE MarkKilled
  BY <1>5 DEF MarkKilled
<1> QED
  BY <1>1, <1>2, <1>3, <1>4, <1>5 DEF Timer

\* The end of the command keeps the invariant.
LEMMA LocalCommandInv ==
  ASSUME NEW code \in Exits, LocalInv, EndCommand(code)
  PROVE  LocalInv'
  BY DEF EndCommand, LocalInv, Exits, CallerInv, TimerInv,
         CommandInv,
         KilledIsReported, TimeoutIsTimely, Ended, Killing

\* The inductive invariant holds throughout.
LEMMA LocalInvariance == CallSpec => []LocalInv
<1>1. LocalInv /\ UNCHANGED callVars => LocalInv'
  BY DEF callVars, LocalInv, CallerInv, TimerInv, CommandInv,
         KilledIsReported,
         TimeoutIsTimely, Ended
<1>2. CallTypeOK /\ LocalInv /\ [CallNext]_callVars => LocalInv'
  BY <1>1, LocalMainInv, LocalTimerInv, LocalCommandInv DEF CallNext
<1> QED
  BY <1>2, LocalInit, LocalTypeCorrect, PTL DEF CallSpec

\* A process that _KillProcess killed is reported as such by IssueCommand:
\* did_timeout is set before process.kill(), and the caller reads it after
\* process.wait().
THEOREM KillIsReported == CallSpec => []KilledIsReported
<1>1. LocalInv => KilledIsReported
  BY DEF LocalInv
<1> QED
  BY <1>1, LocalInvariance, PTL

\* IssueCommand raises the timeout error only if the timer woke before it was
\* cancelled.
THEOREM TimeoutInTime == CallSpec => []TimeoutIsTimely
<1>1. LocalInv => TimeoutIsTimely
  BY DEF LocalInv
<1> QED
  BY <1>1, LocalInvariance, PTL

\* When IssueCommand has returned or raised, the command is over, unless it
\* ran under /usr/bin/time.
THEOREM CommandIsOver == CallSpec => []NothingLeftRunning
<1>1. LocalInv => NothingLeftRunning
  BY DEF LocalInv, CallerInv, CommandInv, NothingLeftRunning, Ended
<1> QED
  BY <1>1, LocalInvariance, PTL
=============================================================================
