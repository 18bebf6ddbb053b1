-------------------------- MODULE PowerShellSessions --------------------------
(***************************************************************************)
(* PowerShell and AsyncPowerShell of src/src/liveshell/powershell.py:      *)
(* calls of run and of close on one session object, over one runspace of   *)
(* the hosted engine.                                                      *)
(*                                                                         *)
(* A call of PowerShell is a thread.  A call of AsyncPowerShell is a task, *)
(* which hands the call of the PowerShell inside to a worker thread        *)
(* (asyncio.to_thread) and awaits it; a canceled task leaves the thread to *)
(* go on by itself.  run, run_result and text take the same steps.         *)
(*                                                                         *)
(* Left out: installations and the loading of the CLR, what a script       *)
(* prints, exit codes, failures of the engine to close a runspace.         *)
(* A definition marked as a fault is the mutated form of the one after it. *)
(***************************************************************************)
EXTENDS SessionCalls

VARIABLES kind,
          startLock, operationLock,  \* who holds them, of AsyncPowerShell
          lock,      \* who holds _lock of PowerShell
          closed,    \* _closed of AsyncPowerShell
          runspace,  \* of PowerShell: none before it is made
          pc,        \* the tasks of AsyncPowerShell, or the threads that call PowerShell
          thread,    \* what PowerShell does for a call
          outcome,
          overlapped \* history: an AsyncPowerShell was closed while it was starting

asyncState == <<startLock, operationLock, closed, overlapped>>
calls == <<pc, outcome>>
vars == <<kind, asyncState, lock, runspace, calls, thread>>

Tasks == {"idle", "begun", "start", "creating", "operation", "awaiting", "done"}
Threads == {"none", "begun", "waiting", "inside", "ok", "failed"}
Outcomes == {"none", "ok", "failed", "canceled"}
Finished == {"ok", "failed"}

Goto(c, place) == pc' = [pc EXCEPT ![c] = place]
ThreadGoto(c, place) == thread' = [thread EXCEPT ![c] = place]

\* The call returns or raises, and leaves the locks it is in.
Return(c, what) ==
  /\ Goto(c, "done")
  /\ outcome' = [outcome EXCEPT ![c] = what]
  /\ startLock' = Without(startLock, c)
  /\ operationLock' = Without(operationLock, c)

Init ==
  /\ kind \in Kinds
  /\ startLock = NoCall /\ operationLock = NoCall /\ lock = NoCall
  /\ closed = FALSE
  /\ runspace = IF kind = "sync" THEN "open" ELSE "none"
  /\ pc = [c \in Calls |-> "idle"]
  /\ thread = [c \in Calls |-> "none"]
  /\ outcome = [c \in Calls |-> "none"]
  /\ overlapped = FALSE

Begin(c) ==
  /\ pc[c] = "idle"
  /\ IF kind = "sync" THEN Goto(c, "awaiting") /\ ThreadGoto(c, "begun")
     ELSE Goto(c, "begun") /\ UNCHANGED thread
  /\ UNCHANGED <<kind, asyncState, lock, runspace, outcome>>

-----------------------------------------------------------------------------
(* PowerShell.run_result, text and close *)

IsOpen == runspace = "open"

\* A run looks at the session before it has the lock.
RunChecks(r) ==
  /\ thread[r] = "begun"
  /\ ThreadGoto(r, IF IsOpen THEN "waiting" ELSE "failed")
  /\ UNCHANGED <<kind, asyncState, lock, runspace, calls>>

Enter(c) ==
  /\ lock = NoCall
  /\ lock' = c
  /\ ThreadGoto(c, "inside")
  /\ UNCHANGED <<kind, asyncState, runspace, calls>>

RunEnters(r) == thread[r] = "waiting" /\ Enter(r)

RunLeaves(r) ==
  /\ thread[r] = "inside"
  /\ lock' = NoCall
  /\ \E end \in Finished : ThreadGoto(r, end)
  /\ UNCHANGED <<kind, asyncState, runspace, calls>>

CloseChecks(c) ==
  /\ thread[c] = "begun"
  /\ ThreadGoto(c, IF IsOpen THEN "waiting" ELSE "ok")
  /\ UNCHANGED <<kind, asyncState, lock, runspace, calls>>

CloseEnters(c) ==
  /\ thread[c] = "waiting" /\ lock = NoCall
  /\ IF IsOpen THEN Enter(c)
     ELSE ThreadGoto(c, "ok") /\ UNCHANGED <<kind, asyncState, lock, runspace, calls>>

\* The runspace is closed and disposed of, and self.runspace is None.
CloseLeaves(c) ==
  /\ thread[c] = "inside"
  /\ lock' = NoCall
  /\ runspace' = "closed"
  /\ ThreadGoto(c, "ok")
  /\ UNCHANGED <<kind, asyncState, calls>>

\* A call of PowerShell returns with its thread.
SyncReturns(c) ==
  /\ kind = "sync"
  /\ pc[c] = "awaiting" /\ thread[c] \in Finished
  /\ Return(c, thread[c])
  /\ UNCHANGED <<kind, lock, runspace, closed, overlapped, thread>>

-----------------------------------------------------------------------------
(* AsyncPowerShell *)

StartBegin(r) ==
  /\ pc[r] = "begun"
  /\ IF closed THEN Return(r, "failed")
     ELSE Goto(r, IF IsOpen THEN "operation" ELSE "start")
          /\ UNCHANGED <<startLock, operationLock, outcome>>
  /\ UNCHANGED <<kind, lock, runspace, closed, overlapped, thread>>

StartLocked(r) ==
  /\ pc[r] = "start" /\ startLock = NoCall
  /\ IF closed \/ runspace = "closed" THEN Return(r, "failed")
     ELSE /\ IF IsOpen THEN Goto(r, "operation") /\ UNCHANGED startLock
             ELSE Goto(r, "creating") /\ startLock' = r
          /\ UNCHANGED <<operationLock, outcome>>
  /\ UNCHANGED <<kind, lock, runspace, closed, overlapped, thread>>

\* The session that the thread has made becomes the session, whether or not it
\* has been closed in the meantime.
Create(r) ==
  /\ pc[r] = "creating"
  /\ \/ /\ runspace' = "open"
        /\ startLock' = NoCall
        /\ Goto(r, "operation")
        /\ UNCHANGED <<operationLock, outcome>>
     \/ Return(r, "failed") /\ UNCHANGED runspace
  /\ UNCHANGED <<kind, lock, closed, overlapped, thread>>

\* _closed is not looked at again once the run has the lock.
RunOperates(r) ==
  /\ pc[r] = "operation" /\ operationLock = NoCall
  /\ operationLock' = r
  /\ Goto(r, "awaiting")
  /\ ThreadGoto(r, "begun")
  /\ UNCHANGED <<kind, lock, runspace, startLock, closed, overlapped, outcome>>

RunReturns(r) ==
  /\ kind = "async"
  /\ pc[r] = "awaiting" /\ thread[r] \in Finished
  /\ Return(r, thread[r])
  /\ UNCHANGED <<kind, lock, runspace, closed, overlapped, thread>>

CloseBegin(c) ==
  /\ pc[c] = "begun"
  /\ IF closed THEN Return(c, "ok")
     ELSE Goto(c, "operation") /\ UNCHANGED <<startLock, operationLock, outcome>>
  /\ UNCHANGED <<kind, lock, runspace, closed, overlapped, thread>>

\* close does not take the lock of start: what a start is making is not there
\* to be closed.
SetClosed ==
  /\ closed' = TRUE
  /\ overlapped' = (overlapped \/ startLock # NoCall)

\* Fault: close hands over to its thread without the lock of the runs.
CloseUnlocked(c) ==
  /\ pc[c] = "operation"
  /\ IF closed \/ runspace = "none"
     THEN Return(c, "ok") /\ SetClosed /\ UNCHANGED thread
     ELSE /\ Goto(c, "awaiting")
          /\ ThreadGoto(c, "begun")
          /\ UNCHANGED <<startLock, operationLock, closed, overlapped, outcome>>
  /\ UNCHANGED <<kind, lock, runspace>>

CloseOperates(c) ==
  /\ pc[c] = "operation" /\ operationLock = NoCall
  /\ IF closed \/ runspace = "none"
     THEN Return(c, "ok") /\ SetClosed /\ UNCHANGED thread
     ELSE /\ operationLock' = c
          /\ Goto(c, "awaiting")
          /\ ThreadGoto(c, "begun")
          /\ UNCHANGED <<startLock, closed, overlapped, outcome>>
  /\ UNCHANGED <<kind, lock, runspace>>

CloseReturns(c) ==
  /\ kind = "async"
  /\ pc[c] = "awaiting" /\ thread[c] \in Finished
  /\ SetClosed
  /\ Return(c, "ok")
  /\ UNCHANGED <<kind, lock, runspace, thread>>

Suspended(c) == kind = "async" /\ pc[c] \in {"start", "creating", "operation", "awaiting"}

\* Fault: close sets _closed before its thread has done its work.
CancelCloses(c) ==
  /\ Suspended(c)
  /\ Return(c, "canceled")
  /\ closed' = (closed \/ (c \in Closers /\ operationLock = c))
  /\ UNCHANGED <<kind, lock, runspace, overlapped, thread>>

\* Fault: a canceled task keeps the lock its thread works under.
CancelKeepsLock(c) ==
  /\ Suspended(c)
  /\ Goto(c, "done")
  /\ outcome' = [outcome EXCEPT ![c] = "canceled"]
  /\ UNCHANGED <<kind, asyncState, lock, runspace, thread>>

\* The thread of a canceled task goes on; a session that it makes is dropped,
\* and closed by the garbage collector.
Cancel(c) ==
  /\ Suspended(c)
  /\ Return(c, "canceled")
  /\ UNCHANGED <<kind, lock, runspace, closed, overlapped, thread>>

-----------------------------------------------------------------------------
RunThread(r) == RunChecks(r) \/ RunEnters(r)
CloseThread(c) == CloseChecks(c) \/ CloseEnters(c) \/ CloseLeaves(c)
Run(r) == SyncReturns(r) \/ StartBegin(r) \/ StartLocked(r) \/ RunOperates(r) \/ RunReturns(r)
Close(c) == SyncReturns(c) \/ CloseBegin(c) \/ CloseOperates(c) \/ CloseReturns(c)

Next ==
  \/ \E c \in Calls : Begin(c) \/ Cancel(c)
  \/ \E r \in Runs : Run(r) \/ Create(r) \/ RunThread(r) \/ RunLeaves(r)
  \/ \E c \in Closers : Close(c) \/ CloseThread(c)

Spec == Init /\ [][Next]_vars

\* Threads and tasks that can go on do.  A script need not end.
Fairness ==
  /\ \A r \in Runs : WF_vars(Run(r)) /\ WF_vars(Create(r)) /\ WF_vars(RunThread(r))
  /\ \A c \in Closers : WF_vars(Close(c)) /\ WF_vars(CloseThread(c))

FairSpec == Spec /\ Fairness

-----------------------------------------------------------------------------
(* Properties *)

TypeOK ==
  /\ kind \in Kinds
  /\ startLock \in Runs \cup {NoCall}
  /\ operationLock \in Calls \cup {NoCall} /\ lock \in Calls \cup {NoCall}
  /\ closed \in BOOLEAN /\ overlapped \in BOOLEAN
  /\ runspace \in {"none", "open", "closed"}
  /\ pc \in [Calls -> Tasks]
  /\ thread \in [Calls -> Threads]
  /\ outcome \in [Calls -> Outcomes]

\* A session that is closed keeps no runspace open, except one that was closed
\* while it was starting.
ClosedLeavesNoRunspace == closed => runspace # "open" \/ overlapped

\* AsyncPowerShell runs no script without a runspace, although a run of the
\* PowerShell inside looks at the session before it waits for the lock: its
\* own lock keeps close out, unless a task was canceled, whose thread goes on
\* without that lock.  PowerShell by itself has nothing to keep it out.
ScriptsHaveRunspace ==
  \A r \in Runs : thread[r] = "inside" /\ runspace = "closed" =>
    kind = "sync" \/ \E c \in Calls : outcome[c] = "canceled"

\* A call returns, unless a script goes on for ever.
CallsReturn ==
  \A c \in Calls : pc[c] \notin {"idle", "done"} ~>
    pc[c] = "done" \/ [](\E r \in Runs : thread[r] = "inside")
=============================================================================
