----------------------- MODULE PowerShellSessionsProofs -----------------------
(***************************************************************************)
(* Theorems about PowerShellSessions, for any number of runs and closes of *)
(* both classes of session.                                                *)
(***************************************************************************)
EXTENDS PowerShellSessions, TLAPS

-----------------------------------------------------------------------------
USE CallsAssumption, KindsAssumption DEF Calls

\* One session is made at a time, by who holds the lock of start; a close that
\* comes while it is made is remembered.
CreatorsHold ==
  \A r \in Runs : pc[r] = "creating" =>
    startLock = r /\ runspace = "none" /\ (closed => overlapped)

\* The thread of a close has a runspace to see to, and leaves it closed.
CloseThreadsClose ==
  \A c \in Closers : /\ thread[c] # "none" => runspace # "none"
                     /\ thread[c] \in Finished => runspace = "closed"

IInv ==
  /\ TypeOK /\ CreatorsHold /\ CloseThreadsClose
  /\ kind = "sync" => runspace # "none"
  /\ ClosedLeavesNoRunspace

LEMMA InitIInv == Init => IInv
PROOF
  BY DEF Init, IInv, TypeOK, CreatorsHold, CloseThreadsClose, ClosedLeavesNoRunspace, Tasks,
         Threads, Outcomes, Finished

\* Every step keeps the invariant.
LEMMA NextIInv == IInv /\ [Next]_vars => IInv'
PROOF
  <1> SUFFICES ASSUME IInv, [Next]_vars PROVE IInv'
    OBVIOUS
  <1> USE DEF IInv, TypeOK, CreatorsHold, CloseThreadsClose, ClosedLeavesNoRunspace, Tasks,
              Threads, Outcomes, Finished, Goto, ThreadGoto, Return, Without, IsOpen,
              asyncState, calls
  <1>1. ASSUME NEW c \in Calls, Begin(c) PROVE IInv'
    BY <1>1 DEF Begin
  <1>2. ASSUME NEW c \in Calls, Cancel(c) PROVE IInv'
    BY <1>2 DEF Cancel, Suspended
  <1>3. ASSUME NEW r \in Runs, StartBegin(r) PROVE IInv'
    BY <1>3 DEF StartBegin
  <1>4. ASSUME NEW r \in Runs, StartLocked(r) PROVE IInv'
    BY <1>4 DEF StartLocked
  <1>5. ASSUME NEW r \in Runs, Create(r) PROVE IInv'
    BY <1>5 DEF Create
  <1>6. ASSUME NEW r \in Runs, RunOperates(r) PROVE IInv'
    BY <1>6 DEF RunOperates
  <1>7. ASSUME NEW r \in Runs, RunReturns(r) PROVE IInv'
    BY <1>7 DEF RunReturns
  <1>8. ASSUME NEW r \in Runs, RunChecks(r) PROVE IInv'
    BY <1>8 DEF RunChecks
  <1>9. ASSUME NEW r \in Runs, RunEnters(r) PROVE IInv'
    BY <1>9 DEF RunEnters, Enter
  <1>10. ASSUME NEW r \in Runs, RunLeaves(r) PROVE IInv'
    BY <1>10 DEF RunLeaves
  <1>11. ASSUME NEW c \in Closers, CloseBegin(c) PROVE IInv'
    BY <1>11 DEF CloseBegin
  <1>12. ASSUME NEW c \in Closers, CloseOperates(c) PROVE IInv'
    <2>1. CASE closed \/ runspace = "none"
      <3>1. /\ UNCHANGED <<kind, lock, runspace, thread>> /\ closed' = TRUE
            /\ overlapped' = (overlapped \/ startLock # NoCall)
            /\ pc' = [pc EXCEPT ![c] = "done"] /\ outcome' = [outcome EXCEPT ![c] = "ok"]
            /\ startLock' = Without(startLock, c) /\ operationLock' = Without(operationLock, c)
        BY <1>12, <2>1 DEF CloseOperates, SetClosed
      <3>2. c \notin Runs /\ NoCall \notin Runs
        OBVIOUS
      <3>3. CreatorsHold'
        BY <3>1, <3>2
      <3>4. TypeOK'
        BY <3>1
      <3> QED
        BY <2>1, <3>1, <3>3, <3>4
    <2>2. CASE ~(closed \/ runspace = "none")
      <3>1. /\ UNCHANGED <<kind, lock, runspace, startLock, closed, overlapped, outcome>>
            /\ operationLock' = c /\ pc' = [pc EXCEPT ![c] = "awaiting"]
            /\ thread' = [thread EXCEPT ![c] = "begun"]
        BY <1>12, <2>2 DEF CloseOperates
      <3> QED
        BY <2>2, <3>1
    <2> QED
      BY <2>1, <2>2
  <1>13. ASSUME NEW c \in Closers, CloseReturns(c) PROVE IInv'
    BY <1>13 DEF CloseReturns, SetClosed
  <1>14. ASSUME NEW c \in Closers, CloseChecks(c) PROVE IInv'
    BY <1>14 DEF CloseChecks
  <1>15. ASSUME NEW c \in Closers, CloseEnters(c) PROVE IInv'
    BY <1>15 DEF CloseEnters, Enter
  <1>16. ASSUME NEW c \in Closers, CloseLeaves(c) PROVE IInv'
    BY <1>16 DEF CloseLeaves
  <1>17. ASSUME NEW c \in Calls, SyncReturns(c) PROVE IInv'
    BY <1>17 DEF SyncReturns
  <1>18. CASE UNCHANGED vars
    BY <1>18 DEF vars
  <1> QED
    BY <1>1, <1>2, <1>3, <1>4, <1>5, <1>6, <1>7, <1>8, <1>9, <1>10, <1>11, <1>12, <1>13,
       <1>14, <1>15, <1>16, <1>17, <1>18
       DEF Next, Run, Close, RunThread, CloseThread

\* Types hold of both classes of session (TypeOK of the run sessions).
THEOREM HostedTypeOK == Spec => []TypeOK
PROOF
  <1>1. IInv => TypeOK
    BY DEF IInv
  <1> QED
    BY <1>1, InitIInv, NextIInv, PTL DEF Spec

\* Whoever closes a hosted session, and whatever close is canceled, no runspace
\* stays open but that of a session closed while it was starting.
THEOREM HostedClosedLeavesNoRunspace == Spec => []ClosedLeavesNoRunspace
PROOF
  <1>1. IInv => ClosedLeavesNoRunspace
    BY DEF IInv
  <1> QED
    BY <1>1, InitIInv, NextIInv, PTL DEF Spec

-----------------------------------------------------------------------------
\* As long as no task was canceled, a thread works only for the task that has
\* the lock of the runs, and what a run has found open stays open until it ends.
Canceled == \E c \in Calls : outcome[c] = "canceled"

ThreadsHold ==
  kind = "async" /\ ~Canceled =>
    /\ \A c \in Calls : /\ pc[c] = "awaiting" => operationLock = c
                        /\ thread[c] \in {"begun", "waiting", "inside"} => pc[c] = "awaiting"
    /\ \A r \in Runs : thread[r] \in {"waiting", "inside"} => runspace = "open"

CanceledIsDone == \A c \in Calls : outcome[c] # "none" => pc[c] = "done"

AInv == IInv /\ ThreadsHold /\ CanceledIsDone

LEMMA InitAInv == Init => AInv
PROOF
  BY InitIInv DEF Init, AInv, ThreadsHold, CanceledIsDone

LEMMA NextAInv == AInv /\ [Next]_vars => AInv'
PROOF
  <1> SUFFICES ASSUME AInv, [Next]_vars PROVE ThreadsHold' /\ CanceledIsDone'
    BY NextIInv DEF AInv
  <1>t. TypeOK
    BY DEF AInv, IInv
  <1> USE <1>t DEF AInv, ThreadsHold, Canceled, CanceledIsDone, TypeOK, Finished, Goto,
              ThreadGoto, Return, Without, IsOpen, asyncState, calls
  <1> DEFINE Kept == ThreadsHold' /\ CanceledIsDone'
  <1>1. ASSUME NEW c \in Calls, Begin(c) PROVE Kept
    BY <1>1 DEF Begin
  <1>2. ASSUME NEW c \in Calls, Cancel(c) PROVE Kept
    <2>1. outcome'[c] = "canceled" /\ pc' = [pc EXCEPT ![c] = "done"]
      BY <1>2 DEF Cancel
    <2> QED
      BY <1>2, <2>1 DEF Cancel
  <1>3. ASSUME NEW r \in Runs, StartBegin(r) PROVE Kept
    BY <1>3 DEF StartBegin
  <1>4. ASSUME NEW r \in Runs, StartLocked(r) PROVE Kept
    BY <1>4 DEF StartLocked
  <1>5. ASSUME NEW r \in Runs, Create(r) PROVE Kept
    BY <1>5 DEF Create
  <1>6. ASSUME NEW r \in Runs, RunOperates(r) PROVE Kept
    BY <1>6 DEF RunOperates
  <1>7. ASSUME NEW r \in Runs, RunReturns(r) PROVE Kept
    BY <1>7 DEF RunReturns
  <1>8. ASSUME NEW r \in Runs, RunChecks(r) PROVE Kept
    BY <1>8 DEF RunChecks
  <1>9. ASSUME NEW r \in Runs, RunEnters(r) PROVE Kept
    BY <1>9 DEF RunEnters, Enter
  <1>10. ASSUME NEW r \in Runs, RunLeaves(r) PROVE Kept
    BY <1>10 DEF RunLeaves
  <1>11. ASSUME NEW c \in Closers, CloseBegin(c) PROVE Kept
    BY <1>11 DEF CloseBegin
  <1>12. ASSUME NEW c \in Closers, CloseOperates(c) PROVE Kept
    BY <1>12 DEF CloseOperates, SetClosed
  <1>13. ASSUME NEW c \in Closers, CloseReturns(c) PROVE Kept
    BY <1>13 DEF CloseReturns, SetClosed
  <1>14. ASSUME NEW c \in Closers, CloseChecks(c) PROVE Kept
    BY <1>14 DEF CloseChecks
  <1>15. ASSUME NEW c \in Closers, CloseEnters(c) PROVE Kept
    BY <1>15 DEF CloseEnters, Enter
  <1>16. ASSUME NEW c \in Closers, CloseLeaves(c) PROVE Kept
    BY <1>16 DEF CloseLeaves
  <1>17. ASSUME NEW c \in Calls, SyncReturns(c) PROVE Kept
    BY <1>17 DEF SyncReturns
  <1>18. CASE UNCHANGED vars
    BY <1>18 DEF vars
  <1> QED
    BY <1>1, <1>2, <1>3, <1>4, <1>5, <1>6, <1>7, <1>8, <1>9, <1>10, <1>11, <1>12, <1>13,
       <1>14, <1>15, <1>16, <1>17, <1>18
       DEF Next, Run, Close, RunThread, CloseThread

\* No script of an AsyncPowerShell is run in a closed runspace, unless a task
\* was canceled and its thread went on without the lock.
THEOREM HostedScriptsHaveRunspace == Spec => []ScriptsHaveRunspace
PROOF
  <1>1. AInv => ScriptsHaveRunspace
    BY DEF AInv, IInv, TypeOK, ThreadsHold, Canceled, ScriptsHaveRunspace
  <1> QED
    BY <1>1, InitAInv, NextAInv, PTL DEF Spec
=============================================================================
