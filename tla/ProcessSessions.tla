--------------------------- MODULE ProcessSessions ----------------------------
(***************************************************************************)
(* ProcessSession and AsyncProcessSession of src/src/liveshell/process.py: *)
(* calls of run and of close on one session object, by threads or by tasks *)
(* of an event loop, and the two pipes between it and its shell.           *)
(*                                                                         *)
(* Steps are cut where a thread waits, or a task awaits, and where the     *)
(* code looks at the process or at _closed without a lock.  A line of      *)
(* output is the run whose command printed it and whether it is that run's *)
(* sentinel; the markers of stderr are lines like the others.  What a run  *)
(* finds when its shell has just died differs with how much of the death   *)
(* the library has noticed, but every way ends in the same RuntimeError,   *)
(* or OSError, so one step stands for them.                                *)
(*                                                                         *)
(* Left out: commands that read the shell's input, callbacks that use the  *)
(* session they are called from, the temporary file of stderr.             *)
(* A definition marked as a fault is the mutated form of the one after it. *)
(***************************************************************************)
EXTENDS SessionCalls

VARIABLES kind,
          startLock, lock,  \* who holds _start_lock, _lock
          closed,    \* _closed
          shell,     \* the process
          stdin,     \* the end of its pipe here: text mode keeps what it could not flush
          input,     \* what was written to the shell and not yet taken by it
          output,    \* lines printed and not yet read
          printed,   \* how many lines the command of a run has printed
          got,       \* lines a run has collected
          pc, outcome,
          started,   \* history: how many processes were started, and
          aborted    \* how many of them asyncio killed with the start that made them

vars == <<kind, startLock, lock, closed, shell, stdin, input, output, printed, got, pc,
          outcome, started, aborted>>
locks == <<startLock, lock>>
pipes == <<input, output, printed>>
process == <<shell, stdin, started, aborted>>

Exit == "exit"   \* exit_command, in the pipe to the shell
Waiting == {"exiting", "terminated", "killed"}
RunPlaces == {"idle", "begun", "start", "spawning", "lock", "reading", "done"}
ClosePlaces == {"idle", "begun", "start", "lock", "write_exit", "shut", "done"} \cup Waiting
Outcomes == {"none", "ok", "error", "raised", "canceled"}
Lines == [of : Runs, end : BOOLEAN]

IsRunning == ~closed /\ shell = "alive"

Goto(c, place) == pc' = [pc EXCEPT ![c] = place]

Release(c) ==
  /\ lock' = Without(lock, c)
  /\ startLock' = Without(startLock, c)

\* The call returns or raises, and leaves what locks it is in.
Return(c, what) ==
  /\ Goto(c, "done")
  /\ outcome' = [outcome EXCEPT ![c] = what]
  /\ Release(c)

Init ==
  /\ kind \in Kinds
  /\ startLock = NoCall /\ lock = NoCall
  /\ closed = FALSE
  /\ shell = IF kind = "sync" THEN "alive" ELSE "none"
  /\ stdin = "open"
  /\ input = <<>> /\ output = <<>>
  /\ printed = [r \in Runs |-> 0]
  /\ got = [r \in Runs |-> <<>>]
  /\ pc = [c \in Calls |-> "idle"]
  /\ outcome = [c \in Calls |-> "none"]
  /\ started = IF kind = "sync" THEN 1 ELSE 0
  /\ aborted = 0

Begin(c) ==
  /\ pc[c] = "idle"
  /\ Goto(c, "begun")
  /\ UNCHANGED <<kind, locks, closed, process, pipes, got, outcome>>

-----------------------------------------------------------------------------
(* AsyncProcessSession.start *)

\* A process that has died is not replaced.
CannotStart == closed \/ shell = "dead"

StartBegin(r) ==
  /\ pc[r] = "begun" /\ kind = "async"
  /\ IF closed THEN Return(r, "error")
     ELSE /\ Goto(r, IF IsRunning THEN "lock" ELSE "start")
          /\ UNCHANGED <<locks, outcome>>
  /\ UNCHANGED <<kind, closed, process, pipes, got>>

\* Fault: the check before the lock is the only one.
StartUnchecked(r) ==
  /\ pc[r] = "start" /\ startLock = NoCall
  /\ startLock' = r
  /\ Goto(r, "spawning")
  /\ started' = started + 1
  /\ UNCHANGED <<kind, lock, closed, shell, stdin, aborted, pipes, got, outcome>>

\* create_subprocess_exec starts the process before it suspends for the first
\* time, or cannot and raises.
StartLocked(r) ==
  /\ pc[r] = "start" /\ startLock = NoCall
  /\ \/ (CannotStart \/ ~IsRunning) /\ Return(r, "error") /\ UNCHANGED started
     \/ /\ ~CannotStart /\ IsRunning
        /\ Goto(r, "lock")
        /\ UNCHANGED <<locks, outcome, started>>
     \/ /\ ~CannotStart /\ ~IsRunning
        /\ Goto(r, "spawning")
        /\ startLock' = r
        /\ started' = started + 1
        /\ UNCHANGED <<lock, outcome>>
  /\ UNCHANGED <<kind, closed, shell, stdin, aborted, pipes, got>>

\* asyncio kills the process of a start that breaks off while it waits for it,
\* and the session keeps having none.
Abort(r) == aborted' = IF pc[r] = "spawning" THEN aborted + 1 ELSE aborted

\* The pipes of the process are connected, and the session has it; or that fails.
Spawn(r) ==
  /\ pc[r] = "spawning"
  /\ \/ /\ shell' = "alive" /\ UNCHANGED aborted
        /\ Goto(r, "lock")
        /\ Release(r)
        /\ UNCHANGED outcome
     \/ Return(r, "error") /\ Abort(r) /\ UNCHANGED shell
  /\ UNCHANGED <<kind, closed, stdin, started, pipes, got>>

-----------------------------------------------------------------------------
(* run *)

\* ProcessSession looks at itself before it has the lock.
RunBegin(r) ==
  /\ pc[r] = "begun" /\ kind = "sync"
  /\ IF IsRunning THEN Goto(r, "lock") /\ UNCHANGED <<locks, outcome>> ELSE Return(r, "error")
  /\ UNCHANGED <<kind, closed, process, pipes, got>>

\* The flush of ProcessSession fails, and its text stays in the buffer.
BreakStdin ==
  stdin' = IF kind = "sync" /\ stdin = "open" /\ shell = "dead" THEN "unflushed" ELSE stdin

\* Once the session is closed, or its shell has died, nothing can be written.
WriteFails(r) ==
  /\ pc[r] = "lock" /\ lock = NoCall
  /\ closed \/ shell = "dead"
  /\ Return(r, "error")
  /\ BreakStdin
  /\ UNCHANGED <<kind, closed, shell, started, aborted, pipes, got>>

Write(r) ==
  /\ pc[r] = "lock" /\ lock = NoCall
  /\ ~closed /\ shell # "dead"
  /\ lock' = r
  /\ input' = Append(input, r)
  /\ Goto(r, "reading")
  /\ UNCHANGED <<kind, startLock, closed, process, output, printed, got, outcome>>

\* Fault: any sentinel ends a run.
AnySentinel(r, l) == l.end

\* The sentinel carries the token of one run: that of another is output.
IsSentinel(r, l) == l.end /\ l.of = r

\* A callback of ProcessSession may raise on the line it is given.
ReadLine(r) ==
  /\ pc[r] = "reading" /\ output # <<>>
  /\ output' = Tail(output)
  /\ IF IsSentinel(r, Head(output))
     THEN Return(r, "ok") /\ UNCHANGED got
     ELSE /\ got' = [got EXCEPT ![r] = Append(@, Head(output))]
          /\ \/ UNCHANGED <<pc, locks, outcome>>
             \/ kind = "sync" /\ Return(r, "raised")
  /\ UNCHANGED <<kind, closed, process, input, printed>>

EndOfFile(r) ==
  /\ pc[r] = "reading" /\ output = <<>> /\ shell = "dead"
  /\ Return(r, "error")
  /\ UNCHANGED <<kind, closed, process, pipes, got>>

-----------------------------------------------------------------------------
(* close *)

CloseBegin(c) ==
  /\ pc[c] = "begun"
  /\ IF closed THEN Return(c, "ok")
     ELSE Goto(c, IF kind = "sync" THEN "lock" ELSE "start") /\ UNCHANGED <<locks, outcome>>
  /\ UNCHANGED <<kind, closed, process, pipes, got>>

\* Without a process there is nothing to close.
CloseStartLocked(c) ==
  /\ pc[c] = "start" /\ startLock = NoCall
  /\ IF closed \/ shell = "none" THEN Return(c, "ok") /\ closed' = TRUE
     ELSE startLock' = c /\ Goto(c, "lock") /\ UNCHANGED <<lock, outcome, closed>>
  /\ UNCHANGED <<kind, process, pipes, got>>

CloseLocked(c) ==
  /\ pc[c] = "lock" /\ lock = NoCall
  /\ IF closed THEN Return(c, "ok")
     ELSE /\ lock' = c
          /\ Goto(c, IF shell = "alive" THEN "write_exit" ELSE "shut")
          /\ UNCHANGED <<startLock, outcome>>
  /\ UNCHANGED <<kind, closed, process, pipes, got>>

\* A shell that has died since it was looked at takes no exit command.
WriteExit(c) ==
  /\ pc[c] = "write_exit"
  /\ IF shell = "alive" THEN input' = Append(input, Exit) /\ Goto(c, "exiting")
     ELSE UNCHANGED input /\ Goto(c, "shut")
  /\ BreakStdin
  /\ UNCHANGED <<kind, locks, closed, shell, started, aborted, output, printed, got, outcome>>

Exited(c) ==
  /\ pc[c] \in Waiting /\ shell = "dead"
  /\ Goto(c, "shut")
  /\ UNCHANGED <<kind, locks, closed, process, pipes, got, outcome>>

\* Fault: close waits for a terminated shell without a limit.
WaitTimesOutOnce(c) ==
  /\ pc[c] = "exiting" /\ shell = "alive"
  /\ Goto(c, "terminated")
  /\ UNCHANGED <<kind, locks, closed, process, pipes, got, outcome>>

\* A wait of two seconds is over: terminate, then kill.  A killed process is
\* taken to end within the last wait, which in AsyncProcessSession has no limit.
WaitTimesOut(c) ==
  /\ pc[c] \in {"exiting", "terminated"} /\ shell = "alive"
  /\ Goto(c, IF pc[c] = "exiting" THEN "terminated" ELSE "killed")
  /\ UNCHANGED <<kind, locks, closed, process, pipes, got, outcome>>

\* A pipe that has text to flush to a dead shell is closed, but its close raises,
\* and the exception leaves ProcessSession.close before _closed is set.
Shut(c) ==
  /\ pc[c] = "shut"
  /\ IF stdin = "unflushed" THEN Return(c, "raised") /\ UNCHANGED closed
     ELSE Return(c, "ok") /\ closed' = TRUE
  /\ stdin' = "shut"
  /\ UNCHANGED <<kind, shell, started, aborted, pipes, got>>

-----------------------------------------------------------------------------
(* Cancellation of a task *)

Suspended(c) ==
  kind = "async" /\ pc[c] \in {"start", "spawning", "lock", "reading", "shut"} \cup Waiting

\* Fault: close sets _closed whatever happens.
CancelCloses(c) ==
  /\ Suspended(c)
  /\ Return(c, "canceled")
  /\ Abort(c)
  /\ closed' = (closed \/ (c \in Closers /\ lock = c))
  /\ UNCHANGED <<kind, shell, stdin, started, pipes, got>>

\* Fault: a canceled task keeps the session's lock.
CancelKeepsLock(c) ==
  /\ Suspended(c)
  /\ Goto(c, "done")
  /\ outcome' = [outcome EXCEPT ![c] = "canceled"]
  /\ startLock' = Without(startLock, c)
  /\ Abort(c)
  /\ UNCHANGED <<kind, lock, closed, shell, stdin, started, pipes, got>>

\* Fault: a canceled run terminates the shell.
CancelTerminates(c) ==
  /\ Suspended(c)
  /\ IF pc[c] = "reading" THEN Goto(c, "terminated") /\ UNCHANGED <<locks, outcome>>
     ELSE Return(c, "canceled")
  /\ Abort(c)
  /\ UNCHANGED <<kind, closed, shell, stdin, started, pipes, got>>

\* CancelledError is raised where the task is suspended.  asyncio.Lock and the
\* finally clauses let go of the locks, and no handler of close catches it.
Cancel(c) ==
  /\ Suspended(c)
  /\ Return(c, "canceled")
  /\ Abort(c)
  /\ UNCHANGED <<kind, closed, shell, stdin, started, pipes, got>>

-----------------------------------------------------------------------------
(* The shell *)

Execute ==
  /\ shell = "alive" /\ input # <<>> /\ Head(input) # Exit
  /\ LET r == Head(input) IN
     \/ /\ printed[r] < MaxLines
        /\ printed' = [printed EXCEPT ![r] = @ + 1]
        /\ output' = Append(output, [of |-> r, end |-> FALSE])
        /\ UNCHANGED input
     \/ /\ input' = Tail(input)
        /\ output' = Append(output, [of |-> r, end |-> TRUE])
        /\ UNCHANGED printed
  /\ UNCHANGED <<kind, locks, closed, process, got, pc, outcome>>

\* By the exit command, a signal, a command, or for a reason of its own.
ShellEnds ==
  /\ shell = "alive"
  /\ shell' = "dead"
  /\ UNCHANGED <<kind, locks, closed, stdin, started, aborted, pipes, got, pc, outcome>>

-----------------------------------------------------------------------------
Run(r) ==
  \/ StartBegin(r) \/ StartLocked(r) \/ Spawn(r)
  \/ RunBegin(r) \/ WriteFails(r) \/ Write(r) \/ ReadLine(r) \/ EndOfFile(r)

Close(c) ==
  \/ CloseBegin(c) \/ CloseStartLocked(c) \/ CloseLocked(c) \/ WriteExit(c)
  \/ Exited(c) \/ WaitTimesOut(c) \/ Shut(c)

Next ==
  \/ \E c \in Calls : Begin(c) \/ Cancel(c)
  \/ \E r \in Runs : Run(r)
  \/ \E c \in Closers : Close(c)
  \/ Execute \/ ShellEnds

Spec == Init /\ [][Next]_vars

\* Calls that can go on do, and a killed shell ends.  A command need not end,
\* and a shell need not exit when it is told to.
Fairness ==
  /\ \A r \in Runs : WF_vars(Run(r))
  /\ \A c \in Closers : WF_vars(Close(c)) /\ WF_vars(pc[c] = "killed" /\ ShellEnds)

FairSpec == Spec /\ Fairness

-----------------------------------------------------------------------------
(* Properties *)

TypeOK ==
  /\ kind \in Kinds
  /\ startLock \in Calls \cup {NoCall} /\ lock \in Calls \cup {NoCall}
  /\ closed \in BOOLEAN
  /\ shell \in {"none", "alive", "dead"}
  /\ stdin \in {"open", "unflushed", "shut"}
  /\ input \in Seq(Runs \cup {Exit}) /\ output \in Seq(Lines)
  /\ printed \in [Runs -> 0..MaxLines]
  /\ got \in [Runs -> Seq(Lines)]
  /\ pc \in [Calls -> RunPlaces \cup ClosePlaces]
  /\ \A r \in Runs : pc[r] \in RunPlaces
  /\ \A c \in Closers : pc[c] \in ClosePlaces
  /\ outcome \in [Calls -> Outcomes]
  /\ started \in Nat /\ aborted \in Nat

Abandoned == {r \in Runs : outcome[r] \in {"raised", "canceled"}}

\* A run that returns has every line its command printed, and no other line but
\* what the commands of runs abandoned before it left in the pipe, which comes
\* first: canceled runs, and runs whose callback raised.
ResultsAreOwn ==
  \A r \in Runs : outcome[r] = "ok" =>
    \E n \in 0..Len(got[r]) :
      /\ \A i \in 1..n : got[r][i].of \in Abandoned
      /\ \A i \in n + 1..Len(got[r]) : got[r][i].of = r
      /\ Len(got[r]) = n + printed[r]

\* A session that is closed has no shell alive, whoever closed it, whatever
\* close was canceled and whoever was starting one.
ClosedIsDead == closed => shell # "alive"

\* A session never has two processes, and never a second one: another is started
\* only in place of those that asyncio killed, whose starts were canceled or
\* failed, however many runs find the session without one at once.
OneShell == started <= aborted + 1

\* A run or a close returns, unless a command goes on for ever.
CallsReturn ==
  \A c \in Calls : pc[c] = "begun" ~> pc[c] = "done" \/ [](\E r \in Runs : pc[r] = "reading")
=============================================================================
