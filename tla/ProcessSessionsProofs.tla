------------------------ MODULE ProcessSessionsProofs -------------------------
(***************************************************************************)
(* Theorems about ProcessSessions, for any number of runs and closes, both *)
(* classes, and commands that print any number of lines.                   *)
(***************************************************************************)
EXTENDS ProcessSessions, SequenceTheorems, TLAPS

-----------------------------------------------------------------------------
USE DEF Calls

LEMMA InitTypeOK == Init => TypeOK
PROOF
  <1> SUFFICES ASSUME Init PROVE TypeOK
    OBVIOUS
  <1>1. <<>> \in Seq(Lines) /\ <<>> \in Seq(Runs \cup {Exit})
    BY EmptySeq
  <1>2. 0 \in 0..MaxLines
    BY KindsAssumption
  <1>3. pc \in [Calls -> {"idle"}] /\ outcome \in [Calls -> {"none"}]
    BY DEF Init
  <1>4. shell \in {"none", "alive"} /\ started \in Nat /\ aborted \in Nat
    BY DEF Init
  <1> QED
    BY <1>1, <1>2, <1>3, <1>4 DEF Init, TypeOK, RunPlaces, ClosePlaces, Outcomes

\* What the types say of the calls, and of the rest.
CallTypes ==
  /\ startLock \in Calls \cup {NoCall} /\ lock \in Calls \cup {NoCall}
  /\ pc \in [Calls -> RunPlaces \cup ClosePlaces]
  /\ \A r \in Runs : pc[r] \in RunPlaces
  /\ \A c \in Closers : pc[c] \in ClosePlaces
  /\ outcome \in [Calls -> Outcomes]

DataTypes ==
  /\ kind \in Kinds /\ closed \in BOOLEAN
  /\ shell \in {"none", "alive", "dead"} /\ stdin \in {"open", "unflushed", "shut"}
  /\ input \in Seq(Runs \cup {Exit}) /\ output \in Seq(Lines)
  /\ printed \in [Runs -> 0..MaxLines]
  /\ got \in [Runs -> Seq(Lines)]
  /\ started \in Nat /\ aborted \in Nat

LEMMA TypesSplit == (TypeOK <=> CallTypes /\ DataTypes) /\ (TypeOK' <=> CallTypes' /\ DataTypes')
PROOF
  BY DEF TypeOK, CallTypes, DataTypes

\* A call goes to a place of its own, and may take a lock.
LEMMA GotoTyped ==
  ASSUME CallTypes, NEW c \in Calls, NEW place, Goto(c, place), UNCHANGED outcome,
         \/ c \in Runs /\ place \in RunPlaces
         \/ c \in Closers /\ place \in ClosePlaces,
         startLock' \in {startLock, c} \/ startLock' = Without(startLock, c),
         lock' \in {lock, c} \/ lock' = Without(lock, c)
  PROVE  CallTypes'
PROOF
  <1>1. startLock' \in Calls \cup {NoCall} /\ lock' \in Calls \cup {NoCall}
    BY DEF CallTypes, Without
  <1>2. pc' \in [Calls -> RunPlaces \cup ClosePlaces]
    BY DEF CallTypes, Goto
  <1>3. \A d \in Calls : pc'[d] = IF d = c THEN place ELSE pc[d]
    BY DEF CallTypes, Goto
  <1>4. \A r \in Runs : pc'[r] \in RunPlaces
    BY <1>3, CallsAssumption DEF CallTypes
  <1>5. \A d \in Closers : pc'[d] \in ClosePlaces
    BY <1>3, CallsAssumption DEF CallTypes
  <1> QED
    BY <1>1, <1>2, <1>4, <1>5 DEF CallTypes

LEMMA ReturnTyped ==
  ASSUME CallTypes, NEW c \in Calls, NEW what \in Outcomes, Return(c, what)
  PROVE  CallTypes'
PROOF
  <1>1. /\ pc' = [pc EXCEPT ![c] = "done"] /\ outcome' = [outcome EXCEPT ![c] = what]
        /\ startLock' = Without(startLock, c) /\ lock' = Without(lock, c)
    BY DEF Return, Release, Goto
  <1>2. startLock' \in Calls \cup {NoCall} /\ lock' \in Calls \cup {NoCall}
    BY <1>1 DEF CallTypes, Without
  <1>3. pc' \in [Calls -> RunPlaces \cup ClosePlaces] /\ outcome' \in [Calls -> Outcomes]
    BY <1>1 DEF CallTypes, RunPlaces
  <1>4. \A d \in Calls : pc'[d] = IF d = c THEN "done" ELSE pc[d]
    BY <1>1 DEF CallTypes
  <1>5. \A r \in Runs : pc'[r] \in RunPlaces
    BY <1>4 DEF CallTypes, RunPlaces
  <1>6. \A d \in Closers : pc'[d] \in ClosePlaces
    BY <1>4 DEF CallTypes, ClosePlaces
  <1> QED
    BY <1>2, <1>3, <1>5, <1>6 DEF CallTypes

\* Every step keeps the types.
LEMMA NextTypeOK == TypeOK /\ [Next]_vars => TypeOK'
PROOF
  <1> SUFFICES ASSUME TypeOK, [Next]_vars PROVE TypeOK'
    OBVIOUS
  <1>t. CallTypes /\ DataTypes
    BY TypesSplit
  <1>o. {"ok", "error", "raised", "canceled"} \subseteq Outcomes
    BY DEF Outcomes
  <1>p. RunPlaces = {"idle", "begun", "start", "spawning", "lock", "reading", "done"}
    BY DEF RunPlaces
  <1>q. ClosePlaces = {"idle", "begun", "start", "lock", "write_exit", "shut", "done",
                       "exiting", "terminated", "killed"}
    BY DEF ClosePlaces, Waiting
  <1>g. ASSUME NEW r \in Runs, NEW place \in RunPlaces, Goto(r, place), UNCHANGED outcome,
               startLock' \in {startLock, r} \/ startLock' = Without(startLock, r),
               lock' \in {lock, r} \/ lock' = Without(lock, r)
        PROVE  CallTypes'
    BY <1>t, <1>g, GotoTyped
  <1>h. ASSUME NEW c \in Closers, NEW place \in ClosePlaces, Goto(c, place), UNCHANGED outcome,
               startLock' \in {startLock, c}, lock' \in {lock, c}
        PROVE  CallTypes'
    BY <1>t, <1>h, GotoTyped
  <1>r. ASSUME NEW c \in Calls, NEW what \in Outcomes, Return(c, what) PROVE CallTypes'
    BY <1>t, <1>r, ReturnTyped
  <1>u. ASSUME UNCHANGED <<kind, closed, process, pipes, got>> PROVE DataTypes'
    BY <1>t, <1>u DEF DataTypes, process, pipes
  <1>a. ASSUME NEW c, Abort(c), UNCHANGED <<kind, closed, shell, stdin, started, pipes, got>>
        PROVE  DataTypes'
    <2>1. aborted' \in {aborted, aborted + 1}
      BY <1>a DEF Abort
    <2> QED
      BY <1>a, <1>t, <2>1 DEF DataTypes, pipes
  <1>v. ASSUME UNCHANGED <<locks, pc, outcome>> PROVE CallTypes'
    BY <1>t, <1>v DEF CallTypes, locks
  <1>1. ASSUME NEW c \in Calls, Begin(c) PROVE CallTypes' /\ DataTypes'
    <2>1. CASE c \in Runs
      BY <1>1, <2>1, <1>g, <1>p, <1>u DEF Begin, locks
    <2>2. CASE c \in Closers
      BY <1>1, <2>2, <1>h, <1>q, <1>u DEF Begin, locks
    <2> QED
      BY <2>1, <2>2
  <1>2. ASSUME NEW c \in Calls, Cancel(c) PROVE CallTypes' /\ DataTypes'
    BY <1>2, <1>o, <1>r, <1>a DEF Cancel
  <1>3. ASSUME NEW r \in Runs, StartBegin(r) PROVE CallTypes' /\ DataTypes'
    <2>1. CASE closed
      BY <1>3, <2>1, <1>o, <1>r, <1>u DEF StartBegin
    <2>2. CASE ~closed
      BY <1>3, <2>2, <1>p, <1>g, <1>u DEF StartBegin, locks
    <2> QED
      BY <2>1, <2>2
  <1>4. ASSUME NEW r \in Runs, StartLocked(r) PROVE CallTypes' /\ DataTypes'
    <2>1. CallTypes'
      BY <1>4, <1>o, <1>p, <1>r, <1>g DEF StartLocked, locks
    <2>2. started' \in {started, started + 1} /\ UNCHANGED <<kind, closed, shell, stdin, aborted, pipes, got>>
      BY <1>4 DEF StartLocked
    <2>3. DataTypes'
      BY <1>t, <2>2 DEF DataTypes, pipes
    <2> QED
      BY <2>1, <2>3
  <1>5. ASSUME NEW r \in Runs, Spawn(r) PROVE CallTypes' /\ DataTypes'
    <2>1. CASE Return(r, "error") /\ Abort(r) /\ UNCHANGED shell
      BY <1>5, <2>1, <1>o, <1>r, <1>a DEF Spawn
    <2>2. CASE shell' = "alive" /\ UNCHANGED aborted
               /\ Goto(r, "lock") /\ Release(r) /\ UNCHANGED outcome
      <3>1. CallTypes'
        BY <2>2, <1>p, <1>g DEF Release
      <3>2. DataTypes'
        BY <1>t, <1>5, <2>2 DEF Spawn, DataTypes, pipes
      <3> QED
        BY <3>1, <3>2
    <2> QED
      BY <1>5, <2>1, <2>2 DEF Spawn
  <1>6. ASSUME NEW r \in Runs, RunBegin(r) PROVE CallTypes' /\ DataTypes'
    <2>1. CASE IsRunning
      BY <1>6, <2>1, <1>p, <1>g, <1>u DEF RunBegin, locks
    <2>2. CASE ~IsRunning
      BY <1>6, <2>2, <1>o, <1>r, <1>u DEF RunBegin
    <2> QED
      BY <2>1, <2>2
  <1>7. ASSUME NEW r \in Runs, WriteFails(r) PROVE CallTypes' /\ DataTypes'
    <2>1. CallTypes'
      BY <1>7, <1>o, <1>r DEF WriteFails
    <2>2. DataTypes'
      BY <1>7, <1>t DEF WriteFails, BreakStdin, DataTypes, pipes
    <2> QED
      BY <2>1, <2>2
  <1>8. ASSUME NEW r \in Runs, Write(r) PROVE CallTypes' /\ DataTypes'
    <2>1. CallTypes'
      BY <1>8, <1>p, <1>g DEF Write
    <2>2. input' \in Seq(Runs \cup {Exit})
      <3>1. input' = Append(input, r) /\ input \in Seq(Runs \cup {Exit}) /\ r \in Runs \cup {Exit}
        BY <1>8, <1>t DEF Write, DataTypes
      <3> QED
        BY <3>1, AppendProperties
    <2>3. DataTypes'
      BY <1>8, <1>t, <2>2 DEF Write, DataTypes, process
    <2> QED
      BY <2>1, <2>3
  <1>9. ASSUME NEW r \in Runs, ReadLine(r) PROVE CallTypes' /\ DataTypes'
    <2>1. output \in Seq(Lines) /\ output # <<>> /\ output' = Tail(output)
      BY <1>9, <1>t DEF ReadLine, DataTypes
    <2>2. Head(output) \in Lines /\ output' \in Seq(Lines)
      BY <2>1, HeadTailProperties
    <2>3. UNCHANGED <<kind, closed, process, input, printed>>
      BY <1>9 DEF ReadLine
    <2>4. CASE IsSentinel(r, Head(output))
      <3>1. Return(r, "ok") /\ UNCHANGED got
        BY <1>9, <2>4 DEF ReadLine
      <3>2. CallTypes'
        BY <1>o, <1>r, <3>1
      <3>3. DataTypes'
        BY <1>t, <2>2, <2>3, <3>1 DEF DataTypes, process
      <3> QED
        BY <3>2, <3>3
    <2>5. CASE ~IsSentinel(r, Head(output))
      <3>1. /\ got' = [got EXCEPT ![r] = Append(got[r], Head(output))]
            /\ UNCHANGED <<pc, locks, outcome>> \/ Return(r, "raised")
        BY <1>9, <2>5 DEF ReadLine
      <3>2. CallTypes'
        BY <1>o, <1>r, <1>v, <3>1
      <3>3. got \in [Runs -> Seq(Lines)] /\ Append(got[r], Head(output)) \in Seq(Lines)
        BY <1>t, <2>2, AppendProperties DEF DataTypes
      <3>4. got' \in [Runs -> Seq(Lines)]
        BY <3>1, <3>3
      <3>5. DataTypes'
        BY <1>t, <2>2, <2>3, <3>4 DEF DataTypes, process
      <3> QED
        BY <3>2, <3>5
    <2> QED
      BY <2>4, <2>5
  <1>10. ASSUME NEW r \in Runs, EndOfFile(r) PROVE CallTypes' /\ DataTypes'
    BY <1>10, <1>o, <1>r, <1>u DEF EndOfFile
  <1>11. ASSUME NEW c \in Closers, CloseBegin(c) PROVE CallTypes' /\ DataTypes'
    <2>1. CASE closed
      BY <1>11, <2>1, <1>o, <1>r, <1>u DEF CloseBegin
    <2>2. CASE ~closed
      BY <1>11, <2>2, <1>q, <1>h, <1>u DEF CloseBegin, locks
    <2> QED
      BY <2>1, <2>2
  <1>12. ASSUME NEW c \in Closers, CloseStartLocked(c) PROVE CallTypes' /\ DataTypes'
    <2>1. CASE closed \/ shell = "none"
      <3>1. CallTypes'
        BY <1>12, <2>1, <1>o, <1>r DEF CloseStartLocked
      <3>2. DataTypes'
        BY <1>12, <2>1, <1>t DEF CloseStartLocked, DataTypes, process, pipes
      <3> QED
        BY <3>1, <3>2
    <2>2. CASE ~(closed \/ shell = "none")
      BY <1>12, <2>2, <1>q, <1>h, <1>u DEF CloseStartLocked
    <2> QED
      BY <2>1, <2>2
  <1>13. ASSUME NEW c \in Closers, CloseLocked(c) PROVE CallTypes' /\ DataTypes'
    <2>1. CASE closed
      BY <1>13, <2>1, <1>o, <1>r, <1>u DEF CloseLocked
    <2>2. CASE ~closed
      BY <1>13, <2>2, <1>q, <1>h, <1>u DEF CloseLocked
    <2> QED
      BY <2>1, <2>2
  <1>14. ASSUME NEW c \in Closers, WriteExit(c) PROVE CallTypes' /\ DataTypes'
    <2>1. CallTypes'
      BY <1>14, <1>q, <1>h DEF WriteExit, locks
    <2>2. input' \in Seq(Runs \cup {Exit})
      <3>1. UNCHANGED input \/ input' = Append(input, Exit)
        BY <1>14 DEF WriteExit
      <3>2. input \in Seq(Runs \cup {Exit}) /\ Exit \in Runs \cup {Exit}
        BY <1>t DEF DataTypes
      <3>3. Append(input, Exit) \in Seq(Runs \cup {Exit})
        BY <3>2, AppendProperties
      <3> QED
        BY <3>1, <3>2, <3>3
    <2>3. DataTypes'
      BY <1>14, <1>t, <2>2 DEF WriteExit, BreakStdin, DataTypes
    <2> QED
      BY <2>1, <2>3
  <1>15. ASSUME NEW c \in Closers, Exited(c) PROVE CallTypes' /\ DataTypes'
    BY <1>15, <1>q, <1>h, <1>u DEF Exited, locks
  <1>16. ASSUME NEW c \in Closers, WaitTimesOut(c) PROVE CallTypes' /\ DataTypes'
    BY <1>16, <1>q, <1>h, <1>u DEF WaitTimesOut, locks
  <1>17. ASSUME NEW c \in Closers, Shut(c) PROVE CallTypes' /\ DataTypes'
    <2>1. CallTypes'
      BY <1>17, <1>o, <1>r DEF Shut
    <2>2. DataTypes'
      BY <1>17, <1>t DEF Shut, DataTypes, pipes
    <2> QED
      BY <2>1, <2>2
  <1>18. ASSUME Execute PROVE CallTypes' /\ DataTypes'
    <2> DEFINE r == Head(input)
    <2>1. /\ UNCHANGED <<kind, locks, closed, process, got, pc, outcome>>
          /\ input \in Seq(Runs \cup {Exit}) /\ input # <<>> /\ r # Exit
          /\ output \in Seq(Lines) /\ printed \in [Runs -> 0..MaxLines]
      BY <1>18, <1>t DEF Execute, DataTypes
    <2>2. r \in Runs /\ Tail(input) \in Seq(Runs \cup {Exit})
      BY <2>1, HeadTailProperties
    <2>3. PICK b \in BOOLEAN : /\ output' = Append(output, [of |-> r, end |-> b])
                               /\ b => input' = Tail(input) /\ UNCHANGED printed
                               /\ ~b => /\ UNCHANGED input /\ printed[r] < MaxLines
                                        /\ printed' = [printed EXCEPT ![r] = printed[r] + 1]
      BY <1>18 DEF Execute
    <2> HIDE DEF r
    <2>4. [of |-> r, end |-> b] \in Lines
      BY <2>2 DEF Lines
    <2>5. output' \in Seq(Lines)
      BY <2>1, <2>3, <2>4, AppendProperties
    <2>6. input' \in Seq(Runs \cup {Exit})
      BY <2>1, <2>2, <2>3
    <2>7. printed' \in [Runs -> 0..MaxLines]
      <3>1. CASE b = TRUE
        BY <2>1, <2>3, <3>1
      <3>2. CASE b = FALSE
        <4>1. printed[r] + 1 \in 0..MaxLines
          BY <2>1, <2>2, <2>3, <3>2, KindsAssumption
        <4> QED
          BY <2>1, <2>2, <2>3, <3>2, <4>1
      <3> QED
        BY <3>1, <3>2
    <2>8. DataTypes'
      BY <1>t, <2>1, <2>5, <2>6, <2>7 DEF DataTypes, process
    <2> QED
      BY <1>v, <2>1, <2>8
  <1>19. ASSUME ShellEnds PROVE CallTypes' /\ DataTypes'
    <2>1. DataTypes'
      BY <1>19, <1>t DEF ShellEnds, DataTypes, pipes
    <2> QED
      BY <1>19, <1>v, <2>1 DEF ShellEnds
  <1>20. CASE UNCHANGED vars
    BY <1>20, <1>u, <1>v, TypesSplit DEF vars, locks, process, pipes
  <1> QED
    BY <1>1, <1>2, <1>3, <1>4, <1>5, <1>6, <1>7, <1>8, <1>9, <1>10, <1>11, <1>12,
       <1>13, <1>14, <1>15, <1>16, <1>17, <1>18, <1>19, <1>20, TypesSplit
       DEF Next, Run, Close

\* Types hold of both classes of session (TypeOK of the run sessions).
THEOREM ProcessTypeOK == Spec => []TypeOK
PROOF
  <1> QED
    BY InitTypeOK, NextTypeOK, PTL DEF Spec

-----------------------------------------------------------------------------
\* Past its look under the locks, a close has a process to see to, and one of an
\* AsyncProcessSession has the lock of start.
ClosesInside == {"lock", "write_exit", "shut"} \cup Waiting

ClosersHold ==
  \A c \in Closers : pc[c] \in ClosesInside =>
    /\ kind = "async" => startLock = c
    /\ shell # "none"
    /\ pc[c] = "shut" => shell = "dead"

\* A process is started under the lock of start, in a session that is open and
\* has none.
StartersHold ==
  /\ kind = "sync" => shell # "none"
  /\ \A r \in Runs :
       /\ pc[r] \in {"start", "spawning"} => kind = "async"
       /\ pc[r] = "spawning" => startLock = r /\ shell = "none" /\ ~closed

\* The only process a session has had, but for those that were killed with their
\* starts, is the one it has or the one that a run waits for.
Spawning == \E r \in Runs : pc[r] = "spawning"
ShellCounted == started = aborted + IF shell # "none" \/ Spawning THEN 1 ELSE 0

IInv == TypeOK /\ ClosersHold /\ StartersHold /\ ShellCounted /\ ClosedIsDead

LEMMA InitIInv == Init => IInv
PROOF
  BY InitTypeOK, CallsAssumption, KindsAssumption
     DEF Init, IInv, ClosersHold, StartersHold, ShellCounted, Spawning, ClosedIsDead, ClosesInside, Waiting

\* The call that ends, or is canceled, lets go of its own locks only.
LEMMA ReturnKeeps ==
  ASSUME IInv, NEW c \in Calls, NEW what, Return(c, what), UNCHANGED <<kind, shell, closed>>
  PROVE  ClosersHold' /\ StartersHold' /\ ClosedIsDead'
PROOF
  <1>1. pc' = [pc EXCEPT ![c] = "done"] /\ pc \in [Calls -> RunPlaces \cup ClosePlaces]
    BY DEF Return, Goto, IInv, TypeOK
  <1>2. \A d \in Calls : startLock = d /\ d # c => startLock' = d
    BY DEF Return, Release, Without
  <1>3. ClosersHold'
    BY <1>1, <1>2 DEF IInv, ClosersHold, ClosesInside, Waiting
  <1>4. StartersHold'
    BY <1>1, <1>2 DEF IInv, StartersHold
  <1> QED
    BY <1>3, <1>4 DEF IInv, ClosedIsDead

\* A step that keeps the processes and whether a run waits for one keeps the count.
LEMMA NextShellCounted ==
  ASSUME IInv, [Next]_vars
  PROVE  ShellCounted'
PROOF
  <1>t. /\ pc \in [Calls -> RunPlaces \cup ClosePlaces] /\ started \in Nat /\ aborted \in Nat
        /\ ShellCounted /\ \A c \in Calls : pc[c] = "spawning" => c \in Runs
    BY DEF IInv, TypeOK, ClosePlaces, Waiting
  <1>k. ASSUME UNCHANGED <<started, aborted>>, shell = "none" <=> shell' = "none", Spawning' = Spawning
        PROVE  ShellCounted'
    BY <1>t, <1>k DEF ShellCounted
  <1>g. ASSUME NEW c \in Calls, NEW place, Goto(c, place), pc[c] # "spawning", place # "spawning"
        PROVE  Spawning' = Spawning
    BY <1>t, <1>g DEF Goto, Spawning
  <1>r. ASSUME NEW c \in Calls, NEW what, Return(c, what), pc[c] # "spawning"
        PROVE  Spawning' = Spawning
    BY <1>r, <1>g DEF Return
  <1>e. ASSUME NEW c \in Calls, NEW place, Goto(c, place), pc[c] = "spawning", place # "spawning"
        PROVE  Spawning /\ ~Spawning' /\ shell = "none"
    BY <1>t, <1>e DEF Goto, Spawning, IInv, StartersHold
  <1>a. ASSUME NEW c \in Calls, NEW what, Return(c, what), Abort(c), UNCHANGED <<shell, started>>
        PROVE  ShellCounted'
    <2>1. CASE pc[c] = "spawning"
      BY <1>a, <1>e, <1>t, <2>1 DEF Return, Abort, ShellCounted
    <2>2. CASE pc[c] # "spawning"
      BY <1>a, <1>r, <1>k, <2>2 DEF Abort
    <2> QED
      BY <2>1, <2>2
  <1>1. ASSUME NEW c \in Calls, Begin(c) PROVE ShellCounted'
    BY <1>1, <1>g, <1>k DEF Begin, process
  <1>2. ASSUME NEW c \in Calls, Cancel(c) PROVE ShellCounted'
    BY <1>2, <1>a DEF Cancel
  <1>3. ASSUME NEW r \in Runs, StartLocked(r) PROVE ShellCounted'
    <2>1. CASE UNCHANGED started
      BY <1>3, <2>1, <1>g, <1>r, <1>k, <1>t DEF StartLocked
    <2>2. CASE /\ ~CannotStart /\ ~IsRunning /\ Goto(r, "spawning")
               /\ startLock = NoCall /\ started' = started + 1 /\ UNCHANGED <<shell, aborted>>
      <3>1. shell = "none" /\ ~Spawning
        BY <2>2, CallsAssumption DEF CannotStart, IsRunning, IInv, TypeOK, StartersHold, Spawning
      <3>2. Spawning'
        BY <1>t, <2>2 DEF Goto, Spawning
      <3> QED
        BY <1>t, <2>2, <3>1, <3>2 DEF ShellCounted
    <2> QED
      BY <1>3, <2>1, <2>2 DEF StartLocked
  <1>4. ASSUME NEW r \in Runs, Spawn(r) PROVE ShellCounted'
    <2>1. CASE shell' = "alive" /\ Goto(r, "lock") /\ UNCHANGED aborted
      BY <1>4, <1>e, <1>t, <2>1 DEF Spawn, ShellCounted
    <2>2. CASE Return(r, "error") /\ Abort(r) /\ UNCHANGED shell
      BY <1>4, <1>a, <2>2 DEF Spawn
    <2> QED
      BY <1>4, <2>1, <2>2 DEF Spawn
  <1>5. ASSUME NEW r \in Runs, StartBegin(r) \/ RunBegin(r) PROVE ShellCounted'
    BY <1>5, <1>g, <1>r, <1>k DEF StartBegin, RunBegin, process
  <1>6. ASSUME NEW r \in Runs, WriteFails(r) \/ Write(r) \/ EndOfFile(r) PROVE ShellCounted'
    BY <1>6, <1>g, <1>r, <1>k DEF WriteFails, Write, EndOfFile, process
  <1>7. ASSUME NEW r \in Runs, ReadLine(r) PROVE ShellCounted'
    <2>1. Spawning' = Spawning
      BY <1>7, <1>r DEF ReadLine, Spawning
    <2> QED
      BY <1>7, <1>k, <2>1 DEF ReadLine, process
  <1>8. ASSUME NEW c \in Closers, CloseBegin(c) \/ CloseStartLocked(c) \/ CloseLocked(c)
        PROVE  ShellCounted'
    <2>1. Spawning' = Spawning
      BY <1>8, <1>g, <1>r DEF CloseBegin, CloseStartLocked, CloseLocked
    <2> QED
      BY <1>8, <1>k, <2>1 DEF CloseBegin, CloseStartLocked, CloseLocked, process
  <1>9. ASSUME NEW c \in Closers, WriteExit(c) \/ Exited(c) \/ WaitTimesOut(c) \/ Shut(c)
        PROVE  ShellCounted'
    <2>1. Spawning' = Spawning
      BY <1>9, <1>g, <1>r DEF WriteExit, Exited, WaitTimesOut, Shut, Waiting
    <2> QED
      BY <1>9, <1>k, <2>1 DEF WriteExit, Exited, WaitTimesOut, Shut, process
  <1>10. ASSUME Execute \/ ShellEnds \/ UNCHANGED vars PROVE ShellCounted'
    BY <1>10, <1>k DEF Execute, ShellEnds, vars, process, Spawning
  <1> QED
    BY <1>1, <1>2, <1>3, <1>4, <1>5, <1>6, <1>7, <1>8, <1>9, <1>10 DEF Next, Run, Close

LEMMA NextIInv == IInv /\ [Next]_vars => IInv'
PROOF
  <1> SUFFICES ASSUME IInv, [Next]_vars
               PROVE  ClosersHold' /\ StartersHold' /\ ClosedIsDead'
    BY NextTypeOK, NextShellCounted DEF IInv
  <1> USE CallsAssumption
  <1>t. TypeOK /\ pc \in [Calls -> RunPlaces \cup ClosePlaces]
    BY DEF IInv, TypeOK
  <1> DEFINE Kept == ClosersHold' /\ StartersHold' /\ ClosedIsDead'
  <1>k. ASSUME NEW c \in Calls, NEW place, Goto(c, place),
               UNCHANGED <<kind, startLock, shell, closed>>,
               IF c \in Runs THEN place \notin {"start", "spawning"} ELSE place \notin ClosesInside
        PROVE  Kept
    <2>1. pc' = [pc EXCEPT ![c] = place]
      BY <1>k DEF Goto
    <2> QED
      BY <1>k, <1>t, <2>1 DEF IInv, ClosersHold, StartersHold, ClosedIsDead, ClosesInside
  <1>1. ASSUME NEW c \in Calls, Begin(c) PROVE Kept
    BY <1>1, <1>k DEF Begin, locks, process, ClosesInside, Waiting
  <1>2. ASSUME NEW c \in Calls, Cancel(c) PROVE Kept
    BY <1>2, ReturnKeeps DEF Cancel
  <1>3. ASSUME NEW r \in Runs, StartBegin(r) PROVE Kept
    <2>1. CASE closed
      BY <1>3, <2>1, ReturnKeeps DEF StartBegin, process
    <2>2. CASE ~closed
      <3>1. /\ pc' = [pc EXCEPT ![r] = IF IsRunning THEN "lock" ELSE "start"]
            /\ UNCHANGED <<kind, startLock, shell, closed>>
            /\ kind = "async"
        BY <1>3, <2>2 DEF StartBegin, Goto, locks, process
      <3> QED
        BY <3>1, <1>t DEF IInv, ClosersHold, StartersHold, ClosedIsDead, ClosesInside
    <2> QED
      BY <2>1, <2>2 DEF IInv, TypeOK
  <1>4. ASSUME NEW r \in Runs, StartLocked(r) PROVE Kept
    <2>1. CASE Return(r, "error")
      BY <1>4, <2>1, ReturnKeeps DEF StartLocked
    <2>2. CASE Goto(r, "lock") /\ UNCHANGED locks
      BY <1>4, <2>2, <1>k DEF StartLocked, locks, ClosesInside, Waiting
    <2>3. CASE ~CannotStart /\ ~IsRunning /\ Goto(r, "spawning") /\ startLock' = r
      <3>1. /\ pc' = [pc EXCEPT ![r] = "spawning"] /\ startLock = NoCall /\ startLock' = r
            /\ UNCHANGED <<kind, shell, closed>>
            /\ kind = "async" /\ shell = "none" /\ ~closed
        BY <1>4, <2>3, <1>t DEF StartLocked, CannotStart, IsRunning, Goto, IInv, StartersHold, TypeOK
      <3>2. ClosersHold'
        BY <3>1, <1>t DEF IInv, ClosersHold, ClosesInside
      <3>3. StartersHold'
        BY <3>1, <1>t DEF IInv, StartersHold
      <3> QED
        BY <3>1, <3>2, <3>3 DEF IInv, ClosedIsDead
    <2> QED
      BY <1>4, <2>1, <2>2, <2>3 DEF StartLocked
  <1>5. ASSUME NEW r \in Runs, Spawn(r) PROVE Kept
    <2>1. startLock = r /\ shell = "none" /\ ~closed /\ kind = "async"
      BY <1>5 DEF Spawn, IInv, StartersHold
    <2>2. CASE Return(r, "error") /\ UNCHANGED shell
      BY <1>5, <2>2, ReturnKeeps DEF Spawn
    <2>3. CASE shell' = "alive" /\ Goto(r, "lock")
      <3>1. pc' = [pc EXCEPT ![r] = "lock"] /\ UNCHANGED <<kind, closed>>
        BY <1>5, <2>3 DEF Spawn, Goto
      <3>2. \A c \in Closers : pc[c] \notin ClosesInside
        BY <2>1 DEF IInv, ClosersHold
      <3>3. ClosersHold'
        BY <3>1, <3>2, <1>t DEF ClosersHold
      <3>4. \A q \in Runs : pc[q] = "spawning" => q = r
        BY <2>1 DEF IInv, StartersHold
      <3>5. StartersHold'
        BY <2>1, <2>3, <3>1, <3>4, <1>t DEF IInv, StartersHold
      <3> QED
        BY <2>1, <2>3, <3>1, <3>3, <3>5 DEF IInv, ClosedIsDead
    <2> QED
      BY <1>5, <2>2, <2>3 DEF Spawn
  <1>6. ASSUME NEW r \in Runs, RunBegin(r) PROVE Kept
    <2>1. CASE IsRunning
      BY <1>6, <2>1, <1>k DEF RunBegin, locks, process
    <2>2. CASE ~IsRunning
      BY <1>6, <2>2, ReturnKeeps DEF RunBegin, process
    <2> QED
      BY <2>1, <2>2
  <1>7. ASSUME NEW r \in Runs, WriteFails(r) PROVE Kept
    BY <1>7, ReturnKeeps DEF WriteFails
  <1>8. ASSUME NEW r \in Runs, Write(r) PROVE Kept
    BY <1>8, <1>k DEF Write, process, ClosesInside, Waiting
  <1>9. ASSUME NEW r \in Runs, ReadLine(r) PROVE Kept
    <2>1. CASE \E what : Return(r, what)
      BY <1>9, <2>1, ReturnKeeps DEF ReadLine, process
    <2>2. CASE UNCHANGED <<pc, locks, outcome>>
      BY <1>9, <2>2 DEF ReadLine, process, locks, IInv, ClosersHold, StartersHold, ClosedIsDead
    <2> QED
      BY <1>9, <2>1, <2>2 DEF ReadLine
  <1>10. ASSUME NEW r \in Runs, EndOfFile(r) PROVE Kept
    BY <1>10, ReturnKeeps DEF EndOfFile, process
  <1>11. ASSUME NEW c \in Closers, CloseBegin(c) PROVE Kept
    <2>1. CASE closed
      BY <1>11, <2>1, ReturnKeeps DEF CloseBegin, process
    <2>2. CASE ~closed /\ kind = "async"
      BY <1>11, <2>2, <1>k DEF CloseBegin, locks, process, ClosesInside, Waiting
    <2>3. CASE ~closed /\ kind # "async"
      <3>1. /\ pc' = [pc EXCEPT ![c] = "lock"]
            /\ UNCHANGED <<kind, startLock, shell, closed>>
            /\ shell # "none"
        BY <1>11, <1>t, <2>3, KindsAssumption DEF CloseBegin, Goto, locks, process, IInv, StartersHold, TypeOK
      <3> QED
        BY <2>3, <3>1, <1>t DEF IInv, ClosersHold, StartersHold, ClosedIsDead, ClosesInside
    <2> QED
      BY <2>1, <2>2, <2>3 DEF IInv, TypeOK
  <1>12. ASSUME NEW c \in Closers, CloseStartLocked(c) PROVE Kept
    <2>1. startLock = NoCall /\ \A r \in Runs : pc[r] # "spawning"
      BY <1>12 DEF CloseStartLocked, IInv, StartersHold
    <2>2. CASE closed \/ shell = "none"
      <3>1. /\ pc' = [pc EXCEPT ![c] = "done"] /\ closed' = TRUE /\ startLock' = startLock
            /\ UNCHANGED <<kind, shell>>
        BY <1>12, <2>1, <2>2 DEF CloseStartLocked, Return, Release, Without, Goto, process
      <3>2. shell # "alive"
        BY <2>2, <1>t DEF IInv, ClosedIsDead
      <3>3. ClosersHold' /\ StartersHold'
        BY <2>1, <3>1, <1>t DEF IInv, ClosersHold, StartersHold, ClosesInside, Waiting
      <3> QED
        BY <3>1, <3>2, <3>3 DEF IInv, ClosedIsDead
    <2>3. CASE ~(closed \/ shell = "none")
      <3>1. /\ pc' = [pc EXCEPT ![c] = "lock"] /\ startLock' = c
            /\ UNCHANGED <<kind, shell, closed>> /\ shell # "none"
        BY <1>12, <2>3 DEF CloseStartLocked, Goto, process
      <3>2. \A d \in Closers : pc[d] \in ClosesInside => kind # "async"
        BY <2>1 DEF IInv, ClosersHold
      <3>3. ClosersHold'
        BY <3>1, <3>2, <1>t DEF IInv, ClosersHold, ClosesInside
      <3>4. StartersHold'
        BY <2>1, <3>1, <1>t DEF IInv, StartersHold
      <3> QED
        BY <3>1, <3>3, <3>4 DEF IInv, ClosedIsDead
    <2> QED
      BY <2>2, <2>3
  <1>13. ASSUME NEW c \in Closers, CloseLocked(c) PROVE Kept
    <2>1. CASE closed
      BY <1>13, <2>1, ReturnKeeps DEF CloseLocked, process
    <2>2. CASE ~closed
      <3>1. /\ pc' = [pc EXCEPT ![c] = IF shell = "alive" THEN "write_exit" ELSE "shut"]
            /\ UNCHANGED <<kind, startLock, shell, closed>>
            /\ pc[c] = "lock"
        BY <1>13, <2>2 DEF CloseLocked, Goto, process
      <3>2. ClosersHold'
        BY <3>1, <1>t DEF IInv, TypeOK, ClosersHold, ClosesInside
      <3>3. StartersHold'
        BY <3>1, <1>t DEF IInv, StartersHold
      <3> QED
        BY <3>1, <3>2, <3>3 DEF IInv, ClosedIsDead
    <2> QED
      BY <2>1, <2>2 DEF IInv, TypeOK
  <1>c. ASSUME NEW c \in Closers, NEW place \in ClosesInside, Goto(c, place), pc[c] \in ClosesInside,
               UNCHANGED <<kind, startLock, shell, closed>>,
               place = "shut" => shell = "dead"
        PROVE  Kept
    <2>1. pc' = [pc EXCEPT ![c] = place] /\ place \notin {"start", "spawning"}
      BY <1>c DEF Goto, ClosesInside, Waiting
    <2>2. ClosersHold'
      BY <1>c, <2>1, <1>t DEF IInv, ClosersHold
    <2>3. StartersHold'
      BY <1>c, <2>1, <1>t DEF IInv, StartersHold
    <2> QED
      BY <1>c, <2>2, <2>3 DEF IInv, ClosedIsDead
  <1>14. ASSUME NEW c \in Closers, WriteExit(c) PROVE Kept
    <2>1. shell # "none"
      BY <1>14 DEF WriteExit, IInv, ClosersHold, ClosesInside
    <2> QED
      BY <1>14, <2>1, <1>c, <1>t DEF WriteExit, locks, ClosesInside, Waiting, IInv, TypeOK
  <1>15. ASSUME NEW c \in Closers, Exited(c) PROVE Kept
    BY <1>15, <1>c DEF Exited, locks, process, ClosesInside
  <1>16. ASSUME NEW c \in Closers, WaitTimesOut(c) PROVE Kept
    BY <1>16, <1>c DEF WaitTimesOut, locks, process, ClosesInside, Waiting
  <1>17. ASSUME NEW c \in Closers, Shut(c) PROVE Kept
    <2>1. shell = "dead" /\ (kind = "async" => startLock = c)
      BY <1>17 DEF Shut, IInv, ClosersHold, ClosesInside
    <2>2. CASE stdin = "unflushed"
      BY <1>17, <2>2, ReturnKeeps DEF Shut
    <2>3. CASE stdin # "unflushed"
      <3>1. /\ pc' = [pc EXCEPT ![c] = "done"] /\ closed' = TRUE
            /\ UNCHANGED <<kind, shell>>
            /\ \A d \in Calls : startLock = d /\ d # c => startLock' = d
        BY <1>17, <2>3 DEF Shut, Return, Release, Without, Goto
      <3>2. ClosersHold'
        BY <3>1, <1>t DEF IInv, ClosersHold, ClosesInside, Waiting
      <3>3. StartersHold'
        BY <2>1, <3>1, <1>t DEF IInv, StartersHold
      <3> QED
        BY <2>1, <3>1, <3>2, <3>3 DEF IInv, ClosedIsDead
    <2> QED
      BY <2>2, <2>3
  <1>18. ASSUME Execute PROVE Kept
    BY <1>18 DEF Execute, locks, process, IInv, ClosersHold, StartersHold, ClosedIsDead
  <1>19. ASSUME ShellEnds PROVE Kept
    BY <1>19 DEF ShellEnds, locks, IInv, ClosersHold, StartersHold, ClosedIsDead
  <1>20. CASE UNCHANGED vars
    BY <1>20 DEF vars, IInv, ClosersHold, StartersHold, ClosedIsDead
  <1> QED
    BY <1>1, <1>2, <1>3, <1>4, <1>5, <1>6, <1>7, <1>8, <1>9, <1>10, <1>11, <1>12,
       <1>13, <1>14, <1>15, <1>16, <1>17, <1>18, <1>19, <1>20
       DEF Next, Run, Close

-----------------------------------------------------------------------------
\* Whoever closes an AsyncProcessSession, whatever is canceled and whoever is
\* starting it, once it is closed its shell is not alive; nor is the shell of a
\* ProcessSession.
THEOREM ProcessClosedIsDead == Spec => []ClosedIsDead
PROOF
  <1> QED
    BY InitIInv, NextIInv, PTL DEF Spec, IInv

\* However many runs find the session without a process at once, and whichever
\* of their starts are canceled or fail, it never has two.
THEOREM ProcessOneShell == Spec => []OneShell
PROOF
  <1>1. IInv => OneShell
    BY DEF IInv, TypeOK, ShellCounted, OneShell
  <1> QED
    BY <1>1, InitIInv, NextIInv, PTL DEF Spec

-----------------------------------------------------------------------------
(* ResultsAreOwn *)

\* Past their look under the lock, calls hold it.
LockHeld == \A c \in Calls : pc[c] \in {"reading", "write_exit", "shut"} \cup Waiting => lock = c

OutcomesAtEnd == \A c \in Calls : outcome[c] # "none" => pc[c] = "done"

\* A run that has written nothing has no lines.
Unwritten == \A r \in Runs : pc[r] \notin {"reading", "done"} => printed[r] = 0 /\ got[r] = <<>>

\* What is in the pipes belongs to a run that reads or to one that was abandoned.
Pending(r) == r \in Abandoned \/ pc[r] = "reading"

PipesPending ==
  /\ shell # "dead" => \A i \in DOMAIN input : input[i] # Exit => Pending(input[i])
  /\ \A i \in DOMAIN output : Pending(output[i].of)

\* All there is for a run to collect now.  Its first n lines are those of
\* abandoned runs.
Whole(r) == got[r] \o output

After(r, lines, n) ==
  /\ \A i \in 1..n : lines[i].of \in Abandoned
  /\ \A i \in n + 1..Len(lines) : lines[i].of = r

\* Its command is the last in the pipe, and its lines come when the others are gone.
Unanswered(r, n) ==
  /\ input # <<>> /\ input[Len(input)] = r
  /\ \A i \in 1..Len(input) - 1 : input[i] # r
  /\ Len(input) > 1 => n = Len(Whole(r))
  /\ Len(Whole(r)) = n + printed[r]
  /\ \A i \in n + 1..Len(Whole(r)) : ~Whole(r)[i].end

\* Its sentinel is the last line of all.
Answered(r, n) ==
  /\ input = <<>> /\ output # <<>>
  /\ Len(Whole(r)) = n + printed[r] + 1
  /\ \A i \in n + 1..Len(Whole(r)) : Whole(r)[i].end <=> i = Len(Whole(r))

Reads(r, n) == After(r, Whole(r), n) /\ (Unanswered(r, n) \/ Answered(r, n))

ReadersKeepStep ==
  \A r \in Runs : pc[r] = "reading" => \E n \in 0..Len(Whole(r)) : Reads(r, n)

CallsInPlace == LockHeld /\ OutcomesAtEnd /\ Unwritten
LinesInPlace == PipesPending /\ ReadersKeepStep /\ ResultsAreOwn
RInv == TypeOK /\ CallsInPlace /\ LinesInPlace

LEMMA InitRInv == Init => RInv
PROOF
  <1> SUFFICES ASSUME Init PROVE RInv
    OBVIOUS
  <1>1. CallsInPlace
    BY DEF Init, CallsInPlace, LockHeld, OutcomesAtEnd, Unwritten, Waiting
  <1>2. LinesInPlace
    BY DEF Init, LinesInPlace, PipesPending, ReadersKeepStep, ResultsAreOwn
  <1> QED
    BY <1>1, <1>2, InitTypeOK DEF RInv

\* One run at most reads, and with a call at any place inside the lock no other.
LEMMA OneReads ==
  ASSUME CallsInPlace, NEW c \in Calls, lock \in {c, NoCall}, NEW r \in Runs, r # c
  PROVE  pc[r] # "reading"
PROOF
  BY CallsAssumption DEF CallsInPlace, LockHeld

\* A run is not both abandoned and under way.
LEMMA AbandonedAreDone ==
  ASSUME CallsInPlace, NEW r \in Abandoned
  PROVE  r \in Runs /\ pc[r] = "done"
PROOF
  BY DEF CallsInPlace, OutcomesAtEnd, Abandoned

-----------------------------------------------------------------------------
\* The shell appends a line to what a run has to collect.
LEMMA WholeAppended ==
  ASSUME TypeOK, NEW r \in Runs, NEW l \in Lines, output' = Append(output, l), got' = got
  PROVE  /\ Len(Whole(r)) \in Nat /\ Len(Whole(r)') = Len(Whole(r)) + 1
         /\ \A i \in 1..Len(Whole(r)) : (Whole(r)')[i] = Whole(r)[i]
         /\ (Whole(r)')[Len(Whole(r)) + 1] = l
PROOF
  <1> DEFINE o == Append(output, l)
  <1>1. got[r] \in Seq(Lines) /\ output \in Seq(Lines)
    BY DEF TypeOK
  <1>2. /\ o \in Seq(Lines) /\ Len(o) = Len(output) + 1
        /\ \A i \in 1..Len(output) : o[i] = output[i]
        /\ o[Len(output) + 1] = l
    BY <1>1, AppendProperties
  <1>3. /\ Len(got[r] \o output) = Len(got[r]) + Len(output)
        /\ \A i \in 1..Len(got[r]) + Len(output) :
             (got[r] \o output)[i] = IF i <= Len(got[r]) THEN got[r][i] ELSE output[i - Len(got[r])]
    BY <1>1, ConcatProperties
  <1>4. /\ Len(got[r] \o o) = Len(got[r]) + Len(o)
        /\ \A i \in 1..Len(got[r]) + Len(o) :
             (got[r] \o o)[i] = IF i <= Len(got[r]) THEN got[r][i] ELSE o[i - Len(got[r])]
    BY <1>1, <1>2, ConcatProperties
  <1>5. Whole(r) = got[r] \o output /\ Whole(r)' = got[r] \o o
    BY DEF Whole
  <1>6. Len(got[r]) \in Nat /\ Len(output) \in Nat
    BY <1>1, LenProperties
  <1> HIDE DEF o
  <1>7. \A i \in 1..Len(got[r]) + Len(output) : (got[r] \o o)[i] = (got[r] \o output)[i]
    <2> SUFFICES ASSUME NEW i \in 1..Len(got[r]) + Len(output)
                 PROVE  (got[r] \o o)[i] = (got[r] \o output)[i]
      OBVIOUS
    <2>1. CASE i <= Len(got[r])
      BY <2>1, <1>2, <1>3, <1>4, <1>6
    <2>2. CASE i > Len(got[r])
      <3>1. i - Len(got[r]) \in 1..Len(output)
        BY <2>2, <1>6
      <3>2. o[i - Len(got[r])] = output[i - Len(got[r])]
        BY <3>1, <1>2
      <3> QED
        BY <2>2, <3>2, <1>2, <1>3, <1>4, <1>6
    <2>3. i <= Len(got[r]) \/ i > Len(got[r])
      BY <1>6
    <2> QED
      BY <2>1, <2>2, <2>3, Zenon
  <1>8. (got[r] \o o)[Len(got[r]) + Len(output) + 1] = l
    BY <1>2, <1>4, <1>6
  <1> QED
    BY <1>2, <1>3, <1>4, <1>5, <1>6, <1>7, <1>8

\* A line that is read and kept only moves.
LEMMA WholeKept ==
  ASSUME NEW g \in Seq(Lines), NEW o \in Seq(Lines), o # <<>>
  PROVE  Append(g, Head(o)) \o Tail(o) = g \o o
PROOF
  <1> DEFINE h == Head(o)  t == Tail(o)  a == Append(g, h)
  <1>1. /\ h \in Lines /\ t \in Seq(Lines) /\ Len(t) = Len(o) - 1
        /\ \A i \in 1..Len(t) : t[i] = o[i + 1]
        /\ h = o[1]
    BY HeadTailProperties
  <1>2. /\ a \in Seq(Lines) /\ Len(a) = Len(g) + 1
        /\ \A i \in 1..Len(g) : a[i] = g[i]
        /\ a[Len(g) + 1] = h
    BY <1>1, AppendProperties
  <1>3. /\ a \o t \in Seq(Lines) /\ Len(a \o t) = Len(a) + Len(t)
        /\ \A i \in 1..Len(a) + Len(t) : (a \o t)[i] = IF i <= Len(a) THEN a[i] ELSE t[i - Len(a)]
    BY <1>1, <1>2, ConcatProperties
  <1>4. /\ g \o o \in Seq(Lines) /\ Len(g \o o) = Len(g) + Len(o)
        /\ \A i \in 1..Len(g) + Len(o) : (g \o o)[i] = IF i <= Len(g) THEN g[i] ELSE o[i - Len(g)]
    BY ConcatProperties
  <1>5. Len(g) \in Nat /\ Len(o) \in Nat
    BY LenProperties
  <1> HIDE DEF a, t, h
  <1>6. Len(a \o t) = Len(g \o o)
    BY <1>1, <1>2, <1>3, <1>4, <1>5
  <1>7. \A i \in 1..Len(a \o t) : (a \o t)[i] = (g \o o)[i]
    <2> SUFFICES ASSUME NEW i \in 1..Len(a \o t) PROVE (a \o t)[i] = (g \o o)[i]
      OBVIOUS
    <2>1. CASE i <= Len(g)
      BY <2>1, <1>1, <1>2, <1>3, <1>4, <1>5
    <2>2. CASE i = Len(g) + 1
      BY <2>2, <1>1, <1>2, <1>3, <1>4, <1>5
    <2>3. CASE i > Len(g) + 1
      <3>1. (a \o t)[i] = t[i - Len(a)] /\ i - Len(a) \in 1..Len(t)
        BY <2>3, <1>1, <1>2, <1>3, <1>5
      <3>2. \A j \in 1..Len(t) : t[j] = o[j + 1]
        BY <1>1
      <3>4. t[i - Len(a)] = o[i - Len(a) + 1]
        BY <3>1, <3>2
      <3>5. i - Len(a) + 1 = i - Len(g)
        BY <1>2, <1>5
      <3>3. (g \o o)[i] = o[i - Len(g)]
        BY <2>3, <1>1, <1>2, <1>3, <1>4, <1>5
      <3> QED
        BY <3>1, <3>3, <3>4, <3>5
    <2> QED
      BY <2>1, <2>2, <2>3, <1>3, <1>5, <1>1, <1>2
  <1>8. a \o t = g \o o
    BY <1>3, <1>4, <1>6, <1>7, SeqEqual
  <1> QED
    BY <1>8 DEF a, t, h

LEMMA LinesOfRuns == TypeOK => \A i \in DOMAIN output : output[i] \in Lines /\ output[i].of \in Runs
PROOF
  <1>1. TypeOK => \A i \in DOMAIN output : output[i] \in Lines
    BY DEF TypeOK
  <1>2. \A l \in Lines : l.of \in Runs
    BY DEF Lines
  <1> QED
    BY <1>1, <1>2

-----------------------------------------------------------------------------
\* A call that ends lets go of its lock, and has an outcome.
LEMMA ReturnInPlace ==
  ASSUME TypeOK, CallsInPlace, NEW c \in Calls, NEW what, Return(c, what),
         printed' = printed, \A r \in Runs : r # c => got'[r] = got[r]
  PROVE  CallsInPlace'
PROOF
  <1>1. /\ pc \in [Calls -> RunPlaces \cup ClosePlaces] /\ pc' = [pc EXCEPT ![c] = "done"]
        /\ outcome \in [Calls -> Outcomes] /\ outcome' = [outcome EXCEPT ![c] = what]
    BY DEF TypeOK, Return, Goto
  <1>2. \A d \in Calls : lock = d /\ d # c => lock' = d
    BY DEF Return, Release, Without
  <1>3. LockHeld'
    BY <1>1, <1>2 DEF CallsInPlace, LockHeld, Waiting
  <1>4. OutcomesAtEnd'
    BY <1>1 DEF CallsInPlace, OutcomesAtEnd
  <1>5. Unwritten'
    BY <1>1 DEF CallsInPlace, Unwritten
  <1> QED
    BY <1>3, <1>4, <1>5 DEF CallsInPlace

\* A call goes on to a place inside the lock when it takes the lock or has it.
LEMMA GotoInPlace ==
  ASSUME TypeOK, CallsInPlace, NEW c \in Calls, NEW place, Goto(c, place),
         UNCHANGED <<outcome, printed, got>>, pc[c] \notin {"reading", "done"},
         lock' = lock \/ (lock = NoCall /\ lock' = c),
         place \in {"reading", "write_exit", "shut"} \cup Waiting => lock' = c
  PROVE  CallsInPlace'
PROOF
  <1>1. pc \in [Calls -> RunPlaces \cup ClosePlaces] /\ pc' = [pc EXCEPT ![c] = place]
    BY DEF TypeOK, Goto
  <1>2. LockHeld'
    BY <1>1, CallsAssumption DEF CallsInPlace, LockHeld, Waiting
  <1>3. OutcomesAtEnd'
    BY <1>1 DEF CallsInPlace, OutcomesAtEnd
  <1>4. Unwritten'
    BY <1>1 DEF CallsInPlace, Unwritten
  <1> QED
    BY <1>2, <1>3, <1>4 DEF CallsInPlace

LEMMA NextCallsInPlace == RInv /\ [Next]_vars => CallsInPlace'
PROOF
  <1> SUFFICES ASSUME RInv, [Next]_vars PROVE CallsInPlace'
    OBVIOUS
  <1> USE CallsAssumption
  <1>t. TypeOK /\ CallsInPlace /\ PipesPending
    BY DEF RInv, LinesInPlace
  <1>w. Waiting = {"exiting", "terminated", "killed"}
    BY DEF Waiting
  <1>h. \A c \in Calls : pc[c] \in {"write_exit", "shut"} \cup Waiting => lock = c
    BY <1>t DEF CallsInPlace, LockHeld
  <1>1. ASSUME NEW c \in Calls, Begin(c) PROVE CallsInPlace'
    BY <1>1, <1>t, <1>w, GotoInPlace DEF Begin, locks, pipes
  <1>2. ASSUME NEW c \in Calls, Cancel(c) PROVE CallsInPlace'
    BY <1>2, <1>t, ReturnInPlace DEF Cancel, pipes
  <1>3. ASSUME NEW r \in Runs, StartBegin(r) PROVE CallsInPlace'
    <2>1. CASE closed
      BY <1>3, <1>t, <2>1, ReturnInPlace DEF StartBegin, pipes
    <2>2. CASE ~closed
      BY <1>3, <1>t, <1>w, <2>2, GotoInPlace DEF StartBegin, pipes, locks
    <2> QED
      BY <2>1, <2>2
  <1>4. ASSUME NEW r \in Runs, StartLocked(r) PROVE CallsInPlace'
    <2>1. CASE Return(r, "error")
      BY <1>4, <1>t, <2>1, ReturnInPlace DEF StartLocked, pipes
    <2>2. CASE Goto(r, "lock") /\ UNCHANGED <<locks, outcome>>
      BY <1>4, <1>t, <1>w, <2>2, GotoInPlace DEF StartLocked, locks, pipes
    <2>3. CASE Goto(r, "spawning") /\ UNCHANGED <<lock, outcome>>
      BY <1>4, <1>t, <1>w, <2>3, GotoInPlace DEF StartLocked, pipes
    <2> QED
      BY <1>4, <2>1, <2>2, <2>3 DEF StartLocked
  <1>5. ASSUME NEW r \in Runs, Spawn(r) PROVE CallsInPlace'
    <2>1. CASE Return(r, "error")
      BY <1>5, <1>t, <2>1, ReturnInPlace DEF Spawn, pipes
    <2>2. CASE Goto(r, "lock") /\ Release(r) /\ UNCHANGED outcome
      <3>1. pc[r] = "spawning" /\ UNCHANGED <<outcome, printed, got>>
        BY <1>5, <2>2 DEF Spawn, pipes
      <3>2. CASE lock = r
        <4>1. \A d \in Calls : d # r => pc[d] \notin {"reading", "write_exit", "shut"} \cup Waiting
          BY <1>t, <3>2 DEF CallsInPlace, LockHeld
        <4>2. pc' = [pc EXCEPT ![r] = "lock"]
          BY <2>2 DEF Goto
        <4>3. LockHeld'
          BY <1>t, <1>w, <4>1, <4>2 DEF LockHeld, TypeOK
        <4> QED
          BY <1>t, <3>1, <4>2, <4>3 DEF CallsInPlace, OutcomesAtEnd, Unwritten, TypeOK
      <3>3. CASE lock # r
        <4>1. lock' = lock
          BY <2>2, <3>3 DEF Release, Without
        <4> QED
          BY <1>t, <1>w, <2>2, <3>1, <4>1, GotoInPlace
      <3> QED
        BY <3>2, <3>3
    <2> QED
      BY <1>5, <2>1, <2>2 DEF Spawn
  <1>6. ASSUME NEW r \in Runs, RunBegin(r) PROVE CallsInPlace'
    <2>1. CASE IsRunning
      BY <1>6, <1>t, <1>w, <2>1, GotoInPlace DEF RunBegin, pipes, locks
    <2>2. CASE ~IsRunning
      BY <1>6, <1>t, <2>2, ReturnInPlace DEF RunBegin, pipes
    <2> QED
      BY <2>1, <2>2
  <1>7. ASSUME NEW r \in Runs, WriteFails(r) PROVE CallsInPlace'
    BY <1>7, <1>t, ReturnInPlace DEF WriteFails, pipes
  <1>8. ASSUME NEW r \in Runs, Write(r) PROVE CallsInPlace'
    BY <1>8, <1>t, GotoInPlace DEF Write
  <1>9. ASSUME NEW r \in Runs, ReadLine(r) PROVE CallsInPlace'
    <2>1. printed' = printed /\ \A q \in Runs : q # r => got'[q] = got[q]
      BY <1>9, <1>t DEF ReadLine, TypeOK
    <2>2. CASE \E what : Return(r, what)
      BY <1>t, <2>1, <2>2, ReturnInPlace
    <2>3. CASE UNCHANGED <<pc, locks, outcome>>
      BY <1>9, <1>t, <2>1, <2>3 DEF ReadLine, locks, CallsInPlace, LockHeld, OutcomesAtEnd, Unwritten
    <2> QED
      BY <1>9, <2>2, <2>3 DEF ReadLine
  <1>10. ASSUME NEW r \in Runs, EndOfFile(r) PROVE CallsInPlace'
    BY <1>10, <1>t, ReturnInPlace DEF EndOfFile, pipes
  <1>11. ASSUME NEW c \in Closers, CloseBegin(c) PROVE CallsInPlace'
    <2>1. CASE closed
      BY <1>11, <1>t, <2>1, ReturnInPlace DEF CloseBegin, pipes
    <2>2. CASE ~closed
      BY <1>11, <1>t, <1>w, <2>2, GotoInPlace DEF CloseBegin, pipes, locks
    <2> QED
      BY <2>1, <2>2
  <1>12. ASSUME NEW c \in Closers, CloseStartLocked(c) PROVE CallsInPlace'
    <2>1. CASE closed \/ shell = "none"
      BY <1>12, <1>t, <2>1, ReturnInPlace DEF CloseStartLocked, pipes
    <2>2. CASE ~(closed \/ shell = "none")
      BY <1>12, <1>t, <1>w, <2>2, GotoInPlace DEF CloseStartLocked, pipes
    <2> QED
      BY <2>1, <2>2
  <1>13. ASSUME NEW c \in Closers, CloseLocked(c) PROVE CallsInPlace'
    <2>1. CASE closed
      BY <1>13, <1>t, <2>1, ReturnInPlace DEF CloseLocked, pipes
    <2>2. CASE ~closed
      BY <1>13, <1>t, <2>2, GotoInPlace DEF CloseLocked, pipes
    <2> QED
      BY <2>1, <2>2
  <1>14. ASSUME NEW c \in Closers, WriteExit(c) PROVE CallsInPlace'
    BY <1>14, <1>t, <1>h, GotoInPlace DEF WriteExit, locks
  <1>15. ASSUME NEW c \in Closers, Exited(c) PROVE CallsInPlace'
    <2>1. lock = c /\ pc[c] \notin {"reading", "done"}
      BY <1>15, <1>h, <1>w DEF Exited
    <2> QED
      BY <1>15, <1>t, <2>1, GotoInPlace DEF Exited, locks, pipes
  <1>16. ASSUME NEW c \in Closers, WaitTimesOut(c) PROVE CallsInPlace'
    <2>1. lock = c /\ pc[c] \notin {"reading", "done"}
      BY <1>16, <1>h, <1>w DEF WaitTimesOut
    <2> QED
      BY <1>16, <1>t, <2>1, GotoInPlace DEF WaitTimesOut, locks, pipes
  <1>17. ASSUME NEW c \in Closers, Shut(c) PROVE CallsInPlace'
    BY <1>17, <1>t, ReturnInPlace DEF Shut, pipes
  <1>18. ASSUME Execute PROVE CallsInPlace'
    <2> DEFINE h == Head(input)
    <2>1. h \in Runs /\ pc[h] \in {"reading", "done"}
      <3>1. input \in Seq(Runs \cup {Exit}) /\ input # <<>> /\ h # Exit /\ shell # "dead"
        BY <1>18, <1>t DEF Execute, TypeOK
      <3>2. h = input[1] /\ 1 \in DOMAIN input /\ h \in Runs
        BY <3>1
      <3>3. Pending(h)
        BY <1>t, <3>1, <3>2 DEF PipesPending
      <3> QED
        BY <1>t, <3>2, <3>3, AbandonedAreDone DEF Pending
    <2>2. UNCHANGED <<pc, lock, outcome, got>> /\ \A r \in Runs : r # h => printed'[r] = printed[r]
      BY <1>18, <1>t DEF Execute, locks, TypeOK
    <2> HIDE DEF h
    <2> QED
      BY <1>t, <2>1, <2>2 DEF CallsInPlace, LockHeld, OutcomesAtEnd, Unwritten
  <1>19. ASSUME ShellEnds PROVE CallsInPlace'
    BY <1>19, <1>t DEF ShellEnds, locks, pipes, CallsInPlace, LockHeld, OutcomesAtEnd, Unwritten
  <1>20. CASE UNCHANGED vars
    BY <1>20, <1>t DEF vars, CallsInPlace, LockHeld, OutcomesAtEnd, Unwritten
  <1> QED
    BY <1>1, <1>2, <1>3, <1>4, <1>5, <1>6, <1>7, <1>8, <1>9, <1>10, <1>11, <1>12,
       <1>13, <1>14, <1>15, <1>16, <1>17, <1>18, <1>19, <1>20
       DEF Next, Run, Close, RInv

-----------------------------------------------------------------------------
\* A step that moves no line, and begins and completes no run.
LEMMA QuietKeepsLines ==
  ASSUME LinesInPlace, UNCHANGED <<input, output, printed, got>>, Abandoned \subseteq Abandoned',
         \A r \in Runs : pc'[r] = "reading" => pc[r] = "reading",
         \A r \in Runs : outcome'[r] = "ok" => outcome[r] = "ok",
         PipesPending'
  PROVE  LinesInPlace'
PROOF
  <1>1. \A r : Whole(r)' = Whole(r)
    BY DEF Whole
  <1>2. ReadersKeepStep'
    <2> SUFFICES ASSUME NEW r \in Runs, pc[r] = "reading"
                 PROVE  \E n \in 0..Len(Whole(r)) : Reads(r, n)'
      BY <1>1 DEF ReadersKeepStep
    <2>1. PICK n \in 0..Len(Whole(r)) : Reads(r, n)
      BY DEF LinesInPlace, ReadersKeepStep
    <2>2. After(r, Whole(r), n)'
      BY <1>1, <2>1 DEF Reads, After
    <2>3. Unanswered(r, n) => Unanswered(r, n)'
      BY <1>1 DEF Unanswered
    <2>4. Answered(r, n) => Answered(r, n)'
      BY <1>1 DEF Answered
    <2>5. Reads(r, n)'
      BY <2>1, <2>2, <2>3, <2>4 DEF Reads
    <2> QED
      BY <2>5
  <1>3. ResultsAreOwn'
    BY DEF LinesInPlace, ResultsAreOwn
  <1> QED
    BY <1>2, <1>3 DEF LinesInPlace

\* Who is abandoned, and whose lines may be in the pipes, when a call ends.
LEMMA ReturnAbandons ==
  ASSUME TypeOK, CallsInPlace, NEW c \in Calls, NEW what, Return(c, what), pc[c] # "done"
  PROVE  /\ Abandoned \subseteq Abandoned'
         /\ \A r \in Runs : pc'[r] = "reading" => pc[r] = "reading"
         /\ \A r \in Runs : outcome'[r] = "ok" => outcome[r] = "ok" \/ (r = c /\ what = "ok")
         /\ \A r \in Runs : Pending(r) => Pending(r)' \/ (r = c /\ pc[c] = "reading")
         /\ what \in {"raised", "canceled"} => \A r \in Runs : Pending(r) => Pending(r)'
PROOF
  <1>1. /\ pc \in [Calls -> RunPlaces \cup ClosePlaces] /\ pc' = [pc EXCEPT ![c] = "done"]
        /\ outcome \in [Calls -> Outcomes] /\ outcome' = [outcome EXCEPT ![c] = what]
    BY DEF TypeOK, Return, Goto
  <1>2. Abandoned \subseteq Abandoned' \ {c}
    BY <1>1 DEF Abandoned, CallsInPlace, OutcomesAtEnd
  <1>3. \A r \in Runs : Pending(r) => Pending(r)' \/ (r = c /\ pc[c] = "reading")
    BY <1>1, <1>2 DEF Pending
  <1>4. what \in {"raised", "canceled"} => \A r \in Runs : Pending(r) => Pending(r)'
    BY <1>1, <1>2 DEF Pending, Abandoned
  <1>5. \A r \in Runs : outcome'[r] = "ok" => outcome[r] = "ok" \/ (r = c /\ what = "ok")
    BY <1>1
  <1>6. \A r \in Runs : pc'[r] = "reading" => pc[r] = "reading"
    BY <1>1
  <1> QED
    BY <1>2, <1>3, <1>4, <1>5, <1>6, Zenon

\* A line belongs to whom it did.
LEMMA PipesStayPending ==
  ASSUME TypeOK, PipesPending, UNCHANGED <<input, output>>, shell' # "dead" => shell # "dead",
         \A r \in Runs : Pending(r) => Pending(r)'
  PROVE  PipesPending'
PROOF
  <1>1. \A i \in DOMAIN input : input[i] # Exit => input[i] \in Runs
    BY DEF TypeOK
  <1>2. \A i \in DOMAIN output : output[i].of \in Runs
    BY LinesOfRuns
  <1> QED
    BY <1>1, <1>2 DEF PipesPending

LEMMA ReturnKeepsLines ==
  ASSUME TypeOK, CallsInPlace, LinesInPlace, NEW c \in Calls, NEW what, Return(c, what),
         pc[c] # "done", UNCHANGED <<input, output, printed, got>>,
         shell' # "dead" => shell # "dead",
         what = "ok" => c \in Closers,
         pc[c] = "reading" => what \in {"raised", "canceled"}
  PROVE  LinesInPlace'
PROOF
  <1>1. /\ Abandoned \subseteq Abandoned'
        /\ \A r \in Runs : pc'[r] = "reading" => pc[r] = "reading"
        /\ \A r \in Runs : outcome'[r] = "ok" => outcome[r] = "ok" \/ (r = c /\ what = "ok")
        /\ \A r \in Runs : Pending(r) => Pending(r)'
    BY ReturnAbandons
  <1>2. PipesPending'
    BY <1>1, PipesStayPending DEF LinesInPlace
  <1>3. \A r \in Runs : outcome'[r] = "ok" => outcome[r] = "ok"
    BY <1>1, CallsAssumption
  <1> QED
    BY <1>1, <1>2, <1>3, QuietKeepsLines

LEMMA GotoKeepsLines ==
  ASSUME TypeOK, LinesInPlace, NEW c \in Calls, NEW place, Goto(c, place),
         pc[c] # "reading", place # "reading",
         UNCHANGED <<outcome, input, output, printed, got>>,
         shell' # "dead" => shell # "dead"
  PROVE  LinesInPlace'
PROOF
  <1>1. pc \in [Calls -> RunPlaces \cup ClosePlaces] /\ pc' = [pc EXCEPT ![c] = place]
    BY DEF TypeOK, Goto
  <1>2. Abandoned' = Abandoned /\ \A r \in Runs : pc'[r] = "reading" <=> pc[r] = "reading"
    BY <1>1 DEF Abandoned
  <1>3. PipesPending'
    BY <1>2, PipesStayPending DEF LinesInPlace, Pending
  <1> QED
    BY <1>2, <1>3, QuietKeepsLines

-----------------------------------------------------------------------------
\* What a run that has taken the lock finds: only lines of abandoned runs.
LEMMA WriteKeepsLines ==
  ASSUME RInv, NEW r \in Runs, Write(r)
  PROVE  LinesInPlace'
PROOF
  <1>t. TypeOK /\ CallsInPlace /\ LinesInPlace
    BY DEF RInv
  <1>1. /\ pc \in [Calls -> RunPlaces \cup ClosePlaces] /\ pc' = [pc EXCEPT ![r] = "reading"]
        /\ pc[r] = "lock" /\ lock = NoCall /\ shell # "dead" /\ input' = Append(input, r)
        /\ UNCHANGED <<shell, output, printed, got, outcome>>
    BY <1>t DEF Write, Goto, TypeOK, process
  <1>2. \A q \in Runs : pc[q] # "reading"
    BY <1>t, <1>1, CallsAssumption DEF CallsInPlace, LockHeld
  <1>3. Abandoned' = Abandoned /\ r \notin Abandoned
    BY <1>t, <1>1, AbandonedAreDone DEF Abandoned
  <1>4. /\ \A i \in DOMAIN input : input[i] # Exit => input[i] \in Abandoned
        /\ \A i \in DOMAIN output : output[i].of \in Abandoned
    <2>1. \A q : Pending(q) /\ q \in Runs => q \in Abandoned
      BY <1>2 DEF Pending
    <2>2. \A i \in DOMAIN input : input[i] # Exit => input[i] \in Runs
      BY <1>t DEF TypeOK
    <2>3. \A i \in DOMAIN output : output[i].of \in Runs
      BY <1>t, LinesOfRuns
    <2> QED
      BY <1>t, <1>1, <2>1, <2>2, <2>3 DEF LinesInPlace, PipesPending
  <1>5. /\ Len(input) \in Nat /\ Len(input') = Len(input) + 1 /\ input' # <<>>
        /\ input'[Len(input')] = r
        /\ \A i \in 1..Len(input) : input'[i] = input[i]
        /\ DOMAIN input = 1..Len(input) /\ DOMAIN input' = 1..Len(input')
    <2>1. input \in Seq(Runs \cup {Exit}) /\ r \in Runs \cup {Exit}
      BY <1>t DEF TypeOK
    <2>2. input' \in Seq(Runs \cup {Exit})
      BY <1>1, <2>1, AppendProperties
    <2> QED
      BY <1>1, <2>1, <2>2, AppendProperties, LenProperties
  <1>6. PipesPending'
    <2> DEFINE Now(q) == q \in Abandoned' \/ pc'[q] = "reading"
    <2>1. \A i \in DOMAIN input' : input'[i] # Exit => Now(input'[i])
      <3> SUFFICES ASSUME NEW i \in DOMAIN input', input'[i] # Exit PROVE Now(input'[i])
        OBVIOUS
      <3>1. CASE i = Len(input')
        BY <1>1, <1>5, <3>1
      <3>2. CASE i # Len(input')
        <4>1. i \in DOMAIN input /\ input'[i] = input[i]
          BY <1>5, <3>2
        <4> QED
          BY <1>3, <1>4, <4>1
      <3> QED
        BY <3>1, <3>2
    <2>2. \A i \in DOMAIN output : Now(output[i].of)
      BY <1>3, <1>4
    <2> QED
      BY <1>1, <2>1, <2>2 DEF PipesPending, Pending
  <1>7. ReadersKeepStep'
    <2>1. \A q \in Runs : pc'[q] = "reading" => q = r
      BY <1>1, <1>2
    <2> DEFINE n == Len(output)
    <2>2. Whole(r)' = output /\ n \in Nat
      <3>1. got[r] = <<>> /\ output \in Seq(Lines)
        BY <1>t, <1>1 DEF CallsInPlace, Unwritten, TypeOK
      <3> QED
        BY <1>1, <3>1, ConcatEmptySeq, LenProperties DEF Whole
    <2>3. After(r, Whole(r), n)'
      BY <1>1, <1>3, <1>4, <2>2 DEF After
    <2>4. Unanswered(r, n)'
      <3>1. printed'[r] = 0
        BY <1>t, <1>1 DEF CallsInPlace, Unwritten
      <3>2. \A i \in 1..Len(input') - 1 : input'[i] # r
        BY <1>3, <1>4, <1>5, CallsAssumption DEF Exit
      <3> QED
        BY <1>1, <1>5, <2>2, <3>1, <3>2 DEF Unanswered
    <2>5. Reads(r, n)' /\ n' = n /\ n \in 0..Len(Whole(r)')
      BY <1>1, <2>2, <2>3, <2>4 DEF Reads
    <2> QED
      BY <2>1, <2>5 DEF ReadersKeepStep
  <1>8. ResultsAreOwn'
    BY <1>t, <1>1, <1>3 DEF LinesInPlace, ResultsAreOwn
  <1> QED
    BY <1>6, <1>7, <1>8 DEF LinesInPlace

\* The command of the run that reads is the only one in the pipe, or waits for
\* those of abandoned runs.
LEMMA HeadIsPending ==
  ASSUME TypeOK, CallsInPlace, PipesPending, shell = "alive", input # <<>>, Head(input) # Exit
  PROVE  Head(input) \in Runs /\ Pending(Head(input))
PROOF
  <1>1. Head(input) = input[1] /\ 1 \in DOMAIN input /\ input[1] \in Runs
    BY DEF TypeOK
  <1> QED
    BY <1>1 DEF PipesPending

LEMMA ExecuteKeepsLines ==
  ASSUME RInv, Execute
  PROVE  LinesInPlace'
PROOF
  <1>t. TypeOK /\ CallsInPlace /\ LinesInPlace
    BY DEF RInv
  <1> DEFINE h == Head(input)
             l(b) == [of |-> h, end |-> b]
  <1>1. /\ shell = "alive" /\ input # <<>> /\ h # Exit
        /\ UNCHANGED <<lock, shell, got, pc, outcome>>
    BY DEF Execute, locks, process
  <1>2. h \in Runs /\ Pending(h)
    BY <1>t, <1>1, HeadIsPending DEF LinesInPlace
  <1>3. PICK b \in BOOLEAN :
          /\ output' = Append(output, l(b))
          /\ b => input' = Tail(input) /\ printed' = printed
          /\ ~b => input' = input /\ printed' = [printed EXCEPT ![h] = @ + 1]
    BY DEF Execute
  <1>4. l(b) \in Lines /\ l(b).of = h /\ l(b).end = b
    BY <1>2 DEF Lines
  <1>5. Abandoned' = Abandoned /\ \A r : Pending(r)' <=> Pending(r)
    BY <1>1 DEF Abandoned, Pending
  <1>s. input \in Seq(Runs \cup {Exit}) /\ output \in Seq(Lines)
    BY <1>t DEF TypeOK
  <1>6. /\ Len(input) \in Nat /\ Len(input) >= 1 /\ h = input[1] /\ DOMAIN input = 1..Len(input)
        /\ Len(Tail(input)) = Len(input) - 1
        /\ DOMAIN Tail(input) = 1..Len(input) - 1
        /\ \A i \in 1..Len(input) - 1 : Tail(input)[i] = input[i + 1]
    BY <1>1, <1>s, HeadTailProperties, LenProperties, EmptySeq
  <1>7. PipesPending'
    <2>1. \A i \in DOMAIN input' : input'[i] # Exit => Pending(input'[i])
      <3>1. \A i \in DOMAIN input : input[i] # Exit => Pending(input[i])
        BY <1>t, <1>1 DEF LinesInPlace, PipesPending
      <3>2. CASE b = TRUE
        BY <1>3, <1>6, <3>1, <3>2
      <3>3. CASE b = FALSE
        BY <1>3, <3>1, <3>3
      <3> QED
        BY <3>2, <3>3
    <2>2. \A i \in DOMAIN output' : Pending(output'[i].of)
      <3> SUFFICES ASSUME NEW i \in DOMAIN output' PROVE Pending(output'[i].of)
        OBVIOUS
      <3>1. /\ output' \in Seq(Lines) /\ Len(output') = Len(output) + 1 /\ Len(output) \in Nat
            /\ \A j \in 1..Len(output) : output'[j] = output[j]
            /\ output'[Len(output) + 1] = l(b)
        BY <1>3, <1>4, <1>s, AppendProperties, LenProperties
      <3>2. i \in 1..Len(output) + 1 /\ DOMAIN output = 1..Len(output)
        BY <3>1, <1>s, LenProperties
      <3>3. CASE i = Len(output) + 1
        BY <1>2, <1>4, <3>1, <3>3
      <3>4. CASE i \in 1..Len(output)
        BY <1>t, <3>1, <3>2, <3>4 DEF LinesInPlace, PipesPending
      <3> QED
        BY <3>1, <3>2, <3>3, <3>4
    <2> QED
      BY <1>1, <1>5, <2>1, <2>2 DEF PipesPending
  <1>8. ReadersKeepStep'
    <2> SUFFICES ASSUME NEW r \in Runs, pc[r] = "reading"
                 PROVE  \E n \in 0..Len(Whole(r)') : Reads(r, n)'
      BY <1>1 DEF ReadersKeepStep
    <2>1. PICK n \in 0..Len(Whole(r)) : Reads(r, n)
      BY <1>t DEF LinesInPlace, ReadersKeepStep
    <2>2. After(r, Whole(r), n) /\ Unanswered(r, n)
      BY <1>1, <2>1 DEF Reads, Answered
    <2>3. /\ Len(Whole(r)) \in Nat /\ Len(Whole(r)') = Len(Whole(r)) + 1
          /\ \A i \in 1..Len(Whole(r)) : (Whole(r)')[i] = Whole(r)[i]
          /\ (Whole(r)')[Len(Whole(r)) + 1] = l(b)
      BY <1>t, <1>1, <1>3, <1>4, WholeAppended
    <2> HIDE DEF l
    <2>p. printed \in [Runs -> 0..MaxLines] /\ printed[r] \in Nat /\ n \in Nat
      BY <1>t, <2>3, KindsAssumption DEF TypeOK
    <2>q. /\ Len(Whole(r)) = n + printed[r]
          /\ \A i \in n + 1..Len(Whole(r)) : ~Whole(r)[i].end
      BY <2>2 DEF Unanswered
    <2>4. CASE Len(input) = 1
      <3>1. h = r
        BY <1>6, <2>2, <2>4 DEF Unanswered
      <3>2. After(r, Whole(r), n)'
        BY <1>4, <1>5, <2>2, <2>3, <3>1 DEF After
      <3>3. CASE b = TRUE
        <4>1. input' = <<>>
          BY <1>3, <1>6, <1>s, <2>4, <3>3, <1>1, HeadTailProperties, EmptySeq
        <4>2. output' # <<>>
          BY <1>3, <1>4, <1>s, AppendProperties
        <4>3. printed'[r] = printed[r] /\ printed[r] \in Nat
          BY <1>3, <2>p, <3>3
        <4>4. Len(Whole(r)') = n + printed'[r] + 1
          BY <2>3, <2>q, <4>3
        <4>5. \A i \in n + 1..Len(Whole(r)) : ~(Whole(r)')[i].end
          BY <2>3, <2>p, <2>q
        <4>6. (Whole(r)')[Len(Whole(r)')].end
          BY <1>4, <2>3, <3>3
        <4>7. \A i \in n + 1..Len(Whole(r)') : (Whole(r)')[i].end <=> i = Len(Whole(r)')
          <5> SUFFICES ASSUME NEW i \in n + 1..Len(Whole(r)')
                       PROVE  (Whole(r)')[i].end <=> i = Len(Whole(r)')
            OBVIOUS
          <5>1. CASE i = Len(Whole(r)')
            BY <4>6, <5>1
          <5>2. CASE i # Len(Whole(r)')
            BY <2>1, <2>3, <4>5, <5>2
          <5> QED
            BY <5>1, <5>2
        <4>8. Answered(r, n)'
          BY <4>1, <4>2, <4>4, <4>7 DEF Answered
        <4> QED
          BY <2>1, <2>3, <3>2, <4>8 DEF Reads
      <3>4. CASE b = FALSE
        <4>1. input' = input /\ printed'[r] = printed[r] + 1 /\ printed[r] \in Nat
          BY <1>3, <2>p, <3>1, <3>4
        <4>2. Unanswered(r, n)'
          <5>1. ~(Whole(r)')[Len(Whole(r)')].end
            BY <1>4, <2>3, <3>4
          <5>4. \A i \in n + 1..Len(Whole(r)) : ~(Whole(r)')[i].end
            BY <2>3, <2>p, <2>q
          <5>2. \A i \in n + 1..Len(Whole(r)') : ~(Whole(r)')[i].end
            <6> SUFFICES ASSUME NEW i \in n + 1..Len(Whole(r)') PROVE ~(Whole(r)')[i].end
              OBVIOUS
            <6>1. CASE i = Len(Whole(r)')
              BY <5>1, <6>1
            <6>2. CASE i # Len(Whole(r)')
              BY <2>1, <2>3, <5>4, <6>2
            <6> QED
              BY <6>1, <6>2
          <5>3. Len(Whole(r)') = n + printed'[r]
            BY <2>3, <2>p, <2>q, <4>1
          <5>5. /\ input' # <<>> /\ input'[Len(input')] = r
                /\ \A i \in 1..Len(input') - 1 : input'[i] # r
                /\ ~(Len(input') > 1)
            <6>1. input # <<>> /\ input[Len(input)] = r /\ \A i \in 1..Len(input) - 1 : input[i] # r
              BY <2>2 DEF Unanswered
            <6>2. input' = input /\ ~(Len(input) > 1)
              BY <2>4, <4>1
            <6> QED
              BY <6>1, <6>2, Zenon
          <5> QED
            BY <5>2, <5>3, <5>5 DEF Unanswered
        <4> QED
          BY <2>1, <2>3, <3>2, <4>2 DEF Reads
      <3> QED
        BY <3>3, <3>4
    <2>5. CASE Len(input) # 1
      <3> DEFINE m == n + 1
      <3>1. n = Len(Whole(r)) /\ h # r
        BY <1>6, <2>2, <2>5 DEF Unanswered
      <3>2. h \in Abandoned
        <4>1. lock = r
          BY <1>t DEF CallsInPlace, LockHeld
        <4>2. pc[h] # "reading"
          BY <1>t, <1>2, <3>1, <4>1, OneReads
        <4> QED
          BY <1>2, <4>2 DEF Pending
      <3>3. After(r, Whole(r), m)'
        BY <1>4, <1>5, <2>2, <2>3, <3>1, <3>2 DEF After
      <3>4. printed'[r] = printed[r]
        BY <1>3, <2>p, <3>1
      <3>5. /\ input' # <<>> /\ input'[Len(input')] = r
            /\ \A i \in 1..Len(input') - 1 : input'[i] # r
        <4>1. CASE b = TRUE
          <5>1. input' = Tail(input)
            BY <1>3, <4>1
          <5>2. Len(input') = Len(input) - 1 /\ Len(input) >= 2
            BY <1>6, <2>5, <5>1
          <5>3. \A i \in 1..Len(input') : input'[i] = input[i + 1]
            BY <1>6, <5>1, <5>2
          <5>4. input' # <<>>
            BY <1>6, <5>2
          <5>5. input'[Len(input')] = input[Len(input)]
            BY <1>6, <5>2, <5>3
          <5>6. \A i \in 1..Len(input') - 1 : input'[i] # r
            BY <1>6, <2>2, <5>2, <5>3 DEF Unanswered
          <5> QED
            BY <2>2, <5>4, <5>5, <5>6 DEF Unanswered
        <4>2. CASE b = FALSE
          BY <1>3, <2>2, <4>2 DEF Unanswered
        <4> QED
          BY <4>1, <4>2
      <3>6. Unanswered(r, m)'
        <4>1. Len(Whole(r)) = n + printed[r] /\ printed[r] \in Nat /\ n \in Nat
          BY <2>2, <2>p, <3>1 DEF Unanswered
        <4>2. m = Len(Whole(r)') /\ printed'[r] = 0
          BY <2>3, <3>1, <3>4, <4>1
        <4>3. Len(Whole(r)') = m + printed'[r]
          BY <4>2, <4>1
        <4>4. \A i \in m + 1..Len(Whole(r)') : ~(Whole(r)')[i].end
          BY <4>1, <4>2
        <4> HIDE DEF m
        <4> QED
          BY <3>5, <4>2, <4>3, <4>4 DEF Unanswered
      <3>7. Reads(r, m)' /\ m \in 0..Len(Whole(r)')
        BY <2>3, <3>1, <3>3, <3>6 DEF Reads
      <3> QED
        BY <3>7
    <2> QED
      BY <2>4, <2>5
  <1>9. ResultsAreOwn'
    <2> SUFFICES ASSUME NEW r \in Runs, outcome[r] = "ok"
                 PROVE  \E n \in 0..Len(got[r]) :
                          /\ \A i \in 1..n : got[r][i].of \in Abandoned
                          /\ \A i \in n + 1..Len(got[r]) : got[r][i].of = r
                          /\ Len(got[r]) = n + printed'[r]
      BY <1>1, <1>5 DEF ResultsAreOwn
    <2>1. h # r
      BY <1>2, <1>t DEF Pending, Abandoned, CallsInPlace, OutcomesAtEnd
    <2>2. printed'[r] = printed[r]
      BY <1>3, <1>t, <2>1 DEF TypeOK
    <2> QED
      BY <1>t, <2>2 DEF LinesInPlace, ResultsAreOwn
  <1> QED
    BY <1>7, <1>8, <1>9 DEF LinesInPlace

-----------------------------------------------------------------------------
LEMMA EndOfFileKeepsLines ==
  ASSUME RInv, NEW r \in Runs, EndOfFile(r)
  PROVE  LinesInPlace'
PROOF
  <1>t. TypeOK /\ CallsInPlace /\ LinesInPlace
    BY DEF RInv
  <1>1. /\ pc[r] = "reading" /\ output = <<>> /\ shell = "dead" /\ Return(r, "error")
        /\ UNCHANGED <<shell, input, output, printed, got>>
    BY DEF EndOfFile, pipes, process
  <1>2. /\ Abandoned \subseteq Abandoned'
        /\ \A q \in Runs : pc'[q] = "reading" => pc[q] = "reading"
        /\ \A q \in Runs : outcome'[q] = "ok" => outcome[q] = "ok"
    BY <1>t, <1>1, ReturnAbandons
  <1>3. PipesPending'
    BY <1>1 DEF PipesPending
  <1> QED
    BY <1>t, <1>1, <1>2, <1>3, QuietKeepsLines

\* The exit command goes behind the commands of runs that are gone.
LEMMA WriteExitKeepsLines ==
  ASSUME RInv, NEW c \in Closers, WriteExit(c)
  PROVE  LinesInPlace'
PROOF
  <1>t. TypeOK /\ CallsInPlace /\ LinesInPlace
    BY DEF RInv
  <1>1. CASE UNCHANGED input
    <2>1. /\ pc[c] # "reading" /\ Goto(c, pc'[c]) /\ pc'[c] # "reading"
          /\ UNCHANGED <<outcome, input, output, printed, got, shell>>
      BY <1>t, <1>1 DEF WriteExit, Goto, TypeOK
    <2> QED
      BY <1>t, <2>1, GotoKeepsLines
  <1>2. CASE input' = Append(input, Exit)
    <2>1. /\ \A r \in Runs : pc'[r] = pc[r]
          /\ pc[c] = "write_exit" /\ UNCHANGED <<outcome, output, printed, got, shell>>
      BY <1>t, CallsAssumption DEF WriteExit, Goto, TypeOK
    <2>2. lock = c
      BY <1>t, <2>1 DEF CallsInPlace, LockHeld
    <2>3. \A r \in Runs : pc'[r] # "reading"
      BY <1>t, <2>1, <2>2, OneReads, CallsAssumption
    <2>4. /\ Abandoned' = Abandoned
          /\ \A q \in Runs : q \in Abandoned' \/ pc'[q] = "reading" <=> Pending(q)
      BY <2>1 DEF Abandoned, Pending
    <2>5. \A i \in DOMAIN input' : input'[i] = Exit \/ (i \in DOMAIN input /\ input'[i] = input[i])
      <3>1. input \in Seq(Runs \cup {Exit}) /\ Exit \in Runs \cup {Exit}
        BY <1>t DEF TypeOK
      <3>2. /\ input' \in Seq(Runs \cup {Exit}) /\ Len(input') = Len(input) + 1 /\ Len(input) \in Nat
            /\ \A i \in 1..Len(input) : input'[i] = input[i]
            /\ input'[Len(input) + 1] = Exit
        BY <1>2, <3>1, AppendProperties, LenProperties
      <3>3. DOMAIN input = 1..Len(input) /\ DOMAIN input' = 1..Len(input')
        BY <3>1, <3>2, LenProperties
      <3> QED
        BY <3>2, <3>3
    <2>6. PipesPending'
      <3>1. \A i \in DOMAIN input : input[i] # Exit => input[i] \in Runs
        BY <1>t DEF TypeOK
      <3>2. \A i \in DOMAIN output : output[i].of \in Runs
        BY <1>t, LinesOfRuns
      <3>3. shell' # "dead" => \A i \in DOMAIN input' : input'[i] # Exit =>
              input'[i] \in Abandoned' \/ pc'[input'[i]] = "reading"
        BY <1>t, <2>1, <2>4, <2>5, <3>1 DEF LinesInPlace, PipesPending
      <3>4. \A i \in DOMAIN output : output[i].of \in Abandoned' \/ pc'[output[i].of] = "reading"
        BY <1>t, <2>4, <3>2 DEF LinesInPlace, PipesPending
      <3> QED
        BY <2>1, <3>3, <3>4 DEF PipesPending, Pending
    <2>7. ReadersKeepStep'
      BY <2>3 DEF ReadersKeepStep
    <2>8. ResultsAreOwn'
      BY <1>t, <2>1, <2>4 DEF LinesInPlace, ResultsAreOwn
    <2> QED
      BY <2>6, <2>7, <2>8 DEF LinesInPlace
  <1> QED
    BY <1>1, <1>2 DEF WriteExit

\* The next line to read, in all that there is for a run to collect.
LEMMA HeadInWhole ==
  ASSUME TypeOK, NEW r \in Runs, output # <<>>
  PROVE  /\ Len(Whole(r)) = Len(got[r]) + Len(output)
         /\ Len(got[r]) \in Nat /\ Len(output) \in Nat /\ Len(output) >= 1
         /\ \A i \in 1..Len(got[r]) : Whole(r)[i] = got[r][i]
         /\ Whole(r)[Len(got[r]) + 1] = Head(output)
PROOF
  <1> DEFINE g == Len(got[r])
  <1>s. got[r] \in Seq(Lines) /\ output \in Seq(Lines)
    BY DEF TypeOK
  <1>1. Head(output) = output[1] /\ Len(output) \in Nat /\ Len(output) >= 1 /\ g \in Nat
    BY <1>s, EmptySeq, LenProperties
  <1>2. /\ Len(Whole(r)) = g + Len(output)
        /\ \A i \in 1..g + Len(output) :
             Whole(r)[i] = IF i <= g THEN got[r][i] ELSE output[i - g]
    BY <1>s, ConcatProperties DEF Whole
  <1>3. Whole(r)[g + 1] = output[1]
    BY <1>1, <1>2
  <1> QED
    BY <1>1, <1>2, <1>3

\* The run that reads its sentinel has read everything, and the rest is its own.
LEMMA SentinelComesLast ==
  ASSUME TypeOK, CallsInPlace, LinesInPlace, NEW r \in Runs, pc[r] = "reading", output # <<>>,
         IsSentinel(r, Head(output))
  PROVE  /\ Len(output) = 1 /\ input = <<>>
         /\ \E n \in 0..Len(got[r]) : After(r, got[r], n) /\ Len(got[r]) = n + printed[r]
PROOF
  <1>s. got[r] \in Seq(Lines) /\ output \in Seq(Lines)
    BY DEF TypeOK
  <1> DEFINE g == Len(got[r])
  <1>1. /\ Len(Whole(r)) = g + Len(output) /\ g \in Nat /\ Len(output) \in Nat /\ Len(output) >= 1
        /\ \A i \in 1..g : Whole(r)[i] = got[r][i]
        /\ Whole(r)[g + 1] = Head(output)
    BY HeadInWhole DEF g
  <1> HIDE DEF g
  <1>2. Head(output).end /\ Head(output).of = r
    BY DEF IsSentinel
  <1>3. PICK n \in 0..Len(Whole(r)) : Reads(r, n)
    BY DEF LinesInPlace, ReadersKeepStep
  <1>4. r \notin Abandoned
    BY AbandonedAreDone
  <1>5. n <= g
    <2> SUFFICES ASSUME n >= g + 1 PROVE FALSE
      BY <1>1
    <2>1. Whole(r)[g + 1].of \in Abandoned
      BY <1>1, <1>3 DEF Reads, After
    <2> QED
      BY <1>1, <1>2, <1>4, <2>1
  <1>6. g + 1 \in n + 1..Len(Whole(r))
    BY <1>1, <1>5
  <1>7. ~Unanswered(r, n)
    <2>1. Whole(r)[g + 1].end
      BY <1>1, <1>2
    <2> QED
      BY <1>6, <2>1 DEF Unanswered
  <1>8. Answered(r, n)
    BY <1>3, <1>7 DEF Reads
  <1>9. g + 1 = Len(Whole(r)) /\ Len(Whole(r)) = n + printed[r] + 1
    BY <1>1, <1>2, <1>6, <1>8 DEF Answered
  <1>10. After(r, got[r], n)
    <2>1. After(r, Whole(r), n)
      BY <1>3 DEF Reads
    <2>2. Len(got[r]) = g
      BY DEF g
    <2> QED
      BY <1>1, <1>5, <1>9, <2>1, <2>2 DEF After
  <1>11. printed[r] \in Nat
    BY KindsAssumption DEF TypeOK
  <1>12. Len(output) = 1 /\ n \in 0..g /\ g = n + printed[r]
    <2>1. g \in Nat /\ Len(output) \in Nat /\ n \in Nat /\ n <= g
      BY <1>1, <1>5
    <2>2. g + 1 = g + Len(output) /\ g + 1 = n + printed[r] + 1
      BY <1>1, <1>9
    <2>3. Len(output) = 1
      <3> DEFINE k == Len(output)
      <3>1. k \in Nat /\ g \in Nat /\ g + 1 = g + k
        BY <2>1, <2>2
      <3> HIDE DEF k
      <3>2. k = 1
        BY <3>1
      <3> QED
        BY <3>2 DEF k
    <2>4. g = n + printed[r]
      BY <2>1, <2>2, <1>11
    <2>5. n \in 0..g
      BY <2>1
    <2> QED
      BY <2>3, <2>4, <2>5
  <1>13. input = <<>>
    BY <1>8 DEF Answered
  <1>14. n \in 0..Len(got[r]) /\ Len(got[r]) = n + printed[r]
    BY <1>12 DEF g
  <1> QED
    BY <1>10, <1>12, <1>13, <1>14

LEMMA ReadLineKeepsLines ==
  ASSUME RInv, NEW r \in Runs, ReadLine(r)
  PROVE  LinesInPlace'
PROOF
  <1>t. TypeOK /\ CallsInPlace /\ LinesInPlace
    BY DEF RInv
  <1> DEFINE l == Head(output)
  <1>1. /\ pc[r] = "reading" /\ output # <<>> /\ output' = Tail(output)
        /\ UNCHANGED <<shell, input, printed>>
    BY DEF ReadLine, process
  <1>2. lock = r /\ \A q \in Runs : q # r => pc[q] # "reading"
    <2>1. lock = r
      BY <1>t, <1>1 DEF CallsInPlace, LockHeld
    <2> QED
      BY <1>t, <2>1, OneReads
  <1>3. /\ got \in [Runs -> Seq(Lines)] /\ output \in Seq(Lines) /\ output' \in Seq(Lines)
        /\ Len(output') = Len(output) - 1
        /\ DOMAIN output' = 1..Len(output) - 1 /\ DOMAIN output = 1..Len(output)
        /\ \A i \in DOMAIN output' : i + 1 \in DOMAIN output /\ output'[i] = output[i + 1]
    <2>1. got \in [Runs -> Seq(Lines)] /\ output \in Seq(Lines)
      BY <1>t DEF TypeOK
    <2>2. /\ output' \in Seq(Lines) /\ Len(output') = Len(output) - 1
          /\ \A i \in 1..Len(output') : output'[i] = output[i + 1]
      BY <1>1, <2>1, HeadTailProperties
    <2>3. DOMAIN output' = 1..Len(output') /\ DOMAIN output = 1..Len(output) /\ Len(output) \in Nat
      BY <2>1, <2>2, LenProperties
    <2> QED
      BY <2>1, <2>2, <2>3
  <1>4. ASSUME \A q \in Runs : Pending(q) => q \in Abandoned' \/ pc'[q] = "reading"
        PROVE  PipesPending'
    <2>1. \A i \in DOMAIN input : input[i] # Exit => input[i] \in Runs
      BY <1>t DEF TypeOK
    <2>2. \A i \in DOMAIN output : output[i].of \in Runs
      BY <1>t, LinesOfRuns
    <2>3. \A i \in DOMAIN output' : output'[i].of \in Runs /\ Pending(output'[i].of)
      BY <1>t, <1>3, <2>2 DEF LinesInPlace, PipesPending
    <2>4. \A i \in DOMAIN output' : output'[i].of \in Abandoned' \/ pc'[output'[i].of] = "reading"
      BY <1>4, <2>3
    <2>5. shell # "dead" => \A i \in DOMAIN input : input[i] # Exit =>
            input[i] \in Abandoned' \/ pc'[input[i]] = "reading"
      BY <1>4, <1>t, <2>1 DEF LinesInPlace, PipesPending
    <2> QED
      BY <1>1, <2>4, <2>5 DEF PipesPending, Pending
  <1>5. CASE IsSentinel(r, l)
    <2>1. Return(r, "ok") /\ UNCHANGED got
      BY <1>5 DEF ReadLine
    <2>2. PICK n \in 0..Len(got[r]) : After(r, got[r], n) /\ Len(got[r]) = n + printed[r]
      BY <1>t, <1>1, <1>5, SentinelComesLast
    <2>3. Len(output) = 1 /\ input = <<>>
      BY <1>t, <1>1, <1>5, SentinelComesLast
    <2>4. /\ Abandoned \subseteq Abandoned'
          /\ \A q \in Runs : outcome'[q] = "ok" => outcome[q] = "ok" \/ q = r
      BY <1>t, <1>1, <2>1, ReturnAbandons
    <2>5. pc \in [Calls -> RunPlaces \cup ClosePlaces] /\ pc' = [pc EXCEPT ![r] = "done"]
      BY <1>t, <2>1 DEF TypeOK, Return, Goto
    <2>6. PipesPending'
      BY <1>1, <1>3, <2>3, EmptySeq DEF PipesPending
    <2>7. ReadersKeepStep'
      BY <1>2, <2>5 DEF ReadersKeepStep
    <2>8. ResultsAreOwn'
      <3> SUFFICES ASSUME NEW q \in Runs, outcome'[q] = "ok"
                   PROVE  \E m \in 0..Len(got[q]) :
                            /\ \A i \in 1..m : got[q][i].of \in Abandoned'
                            /\ \A i \in m + 1..Len(got[q]) : got[q][i].of = q
                            /\ Len(got[q]) = m + printed[q]
        BY <1>1, <2>1 DEF ResultsAreOwn
      <3>1. CASE q = r
        BY <2>2, <2>4, <3>1 DEF After
      <3>2. CASE q # r
        BY <1>t, <2>4, <3>2 DEF LinesInPlace, ResultsAreOwn
      <3> QED
        BY <3>1, <3>2
    <2> QED
      BY <2>6, <2>7, <2>8 DEF LinesInPlace
  <1>6. CASE ~IsSentinel(r, l)
    <2>1. /\ got' = [got EXCEPT ![r] = Append(@, l)]
          /\ UNCHANGED <<pc, locks, outcome>> \/ Return(r, "raised")
      BY <1>6 DEF ReadLine
    <2>2. /\ Abandoned \subseteq Abandoned'
          /\ \A q \in Runs : pc'[q] = "reading" => pc[q] = "reading"
          /\ \A q \in Runs : outcome'[q] = "ok" => outcome[q] = "ok"
          /\ \A q \in Runs : Pending(q) => q \in Abandoned' \/ pc'[q] = "reading"
      <3>1. CASE UNCHANGED <<pc, locks, outcome>>
        BY <3>1 DEF Abandoned, Pending
      <3>2. CASE Return(r, "raised")
        BY <1>t, <1>1, <3>2, ReturnAbandons DEF Pending
      <3> QED
        BY <2>1, <3>1, <3>2
    <2>3. PipesPending'
      BY <1>4, <2>2 DEF Pending, Abandoned
    <2>4. ReadersKeepStep'
      <3> SUFFICES ASSUME NEW q \in Runs, pc'[q] = "reading"
                   PROVE  \E n \in 0..Len(Whole(q)') : Reads(q, n)'
        BY DEF ReadersKeepStep
      <3>1. q = r
        BY <1>2, <2>2
      <3>2. Whole(r)' = Whole(r)
        <4>1. got'[r] = Append(got[r], l)
          BY <1>3, <2>1
        <4> QED
          BY <1>1, <1>3, <4>1, WholeKept DEF Whole
      <3>3. PICK n \in 0..Len(Whole(r)) : Reads(r, n)
        BY <1>t, <1>1 DEF LinesInPlace, ReadersKeepStep
      <3>4. After(r, Whole(r), n)'
        BY <2>2, <3>2, <3>3 DEF Reads, After
      <3>5. Unanswered(r, n) => Unanswered(r, n)'
        BY <1>1, <3>2 DEF Unanswered
      <3>6. ASSUME Answered(r, n) PROVE Answered(r, n)'
        <4>1. output' # <<>>
          <5> SUFFICES ASSUME Len(output) = 1 PROVE FALSE
            <6>1. Len(output) \in Nat /\ Len(output) >= 1
              BY <1>1, <1>t, HeadInWhole
            <6>2. Len(output) # 1 => output' # <<>>
              BY <1>3, <6>1
            <6> QED
              BY <6>2
          <5>1. /\ Len(Whole(r)) = Len(got[r]) + 1 /\ Len(got[r]) \in Nat
                /\ Whole(r)[Len(Whole(r))] = l
            BY <1>1, <1>t, HeadInWhole
          <5>2. Len(Whole(r)) \in n + 1..Len(Whole(r))
            BY <3>3, <3>6, <5>1, <1>t, KindsAssumption DEF Answered, TypeOK
          <5>3. l.end /\ l.of = r
            BY <3>3, <3>6, <5>1, <5>2 DEF Answered, Reads, After
          <5> QED
            BY <1>6, <5>3 DEF IsSentinel
        <4> QED
          BY <1>1, <3>2, <3>6, <4>1 DEF Answered
      <3>7. Reads(r, n)'
        BY <3>3, <3>4, <3>5, <3>6 DEF Reads
      <3> QED
        BY <3>1, <3>2, <3>7
    <2>5. ResultsAreOwn'
      <3> SUFFICES ASSUME NEW q \in Runs, outcome'[q] = "ok"
                   PROVE  \E m \in 0..Len(got'[q]) :
                            /\ \A i \in 1..m : got'[q][i].of \in Abandoned'
                            /\ \A i \in m + 1..Len(got'[q]) : got'[q][i].of = q
                            /\ Len(got'[q]) = m + printed[q]
        BY <1>1 DEF ResultsAreOwn
      <3>1. q # r
        BY <1>t, <1>1, <2>2 DEF CallsInPlace, OutcomesAtEnd
      <3>2. got'[q] = got[q]
        BY <1>3, <2>1, <3>1
      <3> QED
        BY <1>t, <2>2, <3>2 DEF LinesInPlace, ResultsAreOwn
    <2> QED
      BY <2>3, <2>4, <2>5 DEF LinesInPlace
  <1> QED
    BY <1>5, <1>6

-----------------------------------------------------------------------------
LEMMA NextLinesInPlace == IInv /\ RInv /\ [Next]_vars => LinesInPlace'
PROOF
  <1> SUFFICES ASSUME IInv, RInv, [Next]_vars PROVE LinesInPlace'
    OBVIOUS
  <1> USE CallsAssumption
  <1>t. TypeOK /\ CallsInPlace /\ LinesInPlace
    BY DEF RInv
  <1>1. ASSUME NEW c \in Calls, Begin(c) PROVE LinesInPlace'
    BY <1>1, <1>t, GotoKeepsLines DEF Begin, pipes, process
  <1>2. ASSUME NEW c \in Calls, Cancel(c) PROVE LinesInPlace'
    <2>1. pc[c] # "done"
      BY <1>2 DEF Cancel, Suspended, Waiting
    <2> QED
      BY <1>2, <1>t, <2>1, ReturnKeepsLines DEF Cancel, pipes, process
  <1>3. ASSUME NEW r \in Runs, StartBegin(r) PROVE LinesInPlace'
    <2>1. CASE closed
      BY <1>3, <1>t, <2>1, ReturnKeepsLines DEF StartBegin, pipes, process
    <2>2. CASE ~closed
      BY <1>3, <1>t, <2>2, GotoKeepsLines DEF StartBegin, pipes, process
    <2> QED
      BY <2>1, <2>2
  <1>4. ASSUME NEW r \in Runs, StartLocked(r) PROVE LinesInPlace'
    <2>1. CASE Return(r, "error")
      BY <1>4, <1>t, <2>1, ReturnKeepsLines DEF StartLocked, pipes
    <2>2. CASE (Goto(r, "lock") \/ Goto(r, "spawning")) /\ UNCHANGED outcome
      BY <1>4, <1>t, <2>2, GotoKeepsLines DEF StartLocked, pipes
    <2> QED
      BY <1>4, <2>1, <2>2 DEF StartLocked
  <1>5. ASSUME NEW r \in Runs, Spawn(r) PROVE LinesInPlace'
    <2>1. CASE Return(r, "error") /\ UNCHANGED shell
      BY <1>5, <1>t, <2>1, ReturnKeepsLines DEF Spawn, pipes, process
    <2>2. CASE shell' = "alive" /\ Goto(r, "lock") /\ UNCHANGED outcome
      <3>1. shell = "none"
        BY <1>5 DEF Spawn, IInv, StartersHold
      <3> QED
        BY <1>5, <1>t, <2>2, <3>1, GotoKeepsLines DEF Spawn, pipes
    <2> QED
      BY <1>5, <2>1, <2>2 DEF Spawn
  <1>6. ASSUME NEW r \in Runs, RunBegin(r) PROVE LinesInPlace'
    <2>1. CASE IsRunning
      BY <1>6, <1>t, <2>1, GotoKeepsLines DEF RunBegin, pipes, process
    <2>2. CASE ~IsRunning
      BY <1>6, <1>t, <2>2, ReturnKeepsLines DEF RunBegin, pipes, process
    <2> QED
      BY <2>1, <2>2
  <1>7. ASSUME NEW r \in Runs, WriteFails(r) PROVE LinesInPlace'
    BY <1>7, <1>t, ReturnKeepsLines DEF WriteFails, pipes
  <1>8. ASSUME NEW r \in Runs, Write(r) PROVE LinesInPlace'
    BY <1>8, WriteKeepsLines
  <1>9. ASSUME NEW r \in Runs, ReadLine(r) PROVE LinesInPlace'
    BY <1>9, ReadLineKeepsLines
  <1>10. ASSUME NEW r \in Runs, EndOfFile(r) PROVE LinesInPlace'
    BY <1>10, EndOfFileKeepsLines
  <1>11. ASSUME NEW c \in Closers, CloseBegin(c) PROVE LinesInPlace'
    <2>1. CASE closed
      BY <1>11, <1>t, <2>1, ReturnKeepsLines DEF CloseBegin, pipes, process
    <2>2. CASE ~closed
      BY <1>11, <1>t, <2>2, GotoKeepsLines DEF CloseBegin, pipes, process
    <2> QED
      BY <2>1, <2>2
  <1>12. ASSUME NEW c \in Closers, CloseStartLocked(c) PROVE LinesInPlace'
    <2>1. CASE closed \/ shell = "none"
      BY <1>12, <1>t, <2>1, ReturnKeepsLines DEF CloseStartLocked, pipes, process
    <2>2. CASE ~(closed \/ shell = "none")
      BY <1>12, <1>t, <2>2, GotoKeepsLines DEF CloseStartLocked, pipes, process
    <2> QED
      BY <2>1, <2>2
  <1>13. ASSUME NEW c \in Closers, CloseLocked(c) PROVE LinesInPlace'
    <2>1. CASE closed
      BY <1>13, <1>t, <2>1, ReturnKeepsLines DEF CloseLocked, pipes, process
    <2>2. CASE ~closed
      BY <1>13, <1>t, <2>2, GotoKeepsLines DEF CloseLocked, pipes, process
    <2> QED
      BY <2>1, <2>2
  <1>14. ASSUME NEW c \in Closers, WriteExit(c) PROVE LinesInPlace'
    BY <1>14, WriteExitKeepsLines
  <1>15. ASSUME NEW c \in Closers, Exited(c) PROVE LinesInPlace'
    BY <1>15, <1>t, GotoKeepsLines DEF Exited, pipes, process, Waiting
  <1>16. ASSUME NEW c \in Closers, WaitTimesOut(c) PROVE LinesInPlace'
    BY <1>16, <1>t, GotoKeepsLines DEF WaitTimesOut, pipes, process
  <1>17. ASSUME NEW c \in Closers, Shut(c) PROVE LinesInPlace'
    BY <1>17, <1>t, ReturnKeepsLines DEF Shut, pipes
  <1>18. ASSUME Execute PROVE LinesInPlace'
    BY <1>18, ExecuteKeepsLines
  <1>19. ASSUME ShellEnds PROVE LinesInPlace'
    <2>1. /\ UNCHANGED <<input, output, printed, got, pc, outcome>>
          /\ shell = "alive"
      BY <1>19 DEF ShellEnds, pipes
    <2>2. Abandoned' = Abandoned /\ \A r : Pending(r) => Pending(r)'
      BY <2>1 DEF Abandoned, Pending
    <2>3. PipesPending'
      BY <1>t, <2>1, <2>2, PipesStayPending DEF LinesInPlace
    <2> QED
      BY <1>t, <2>1, <2>2, <2>3, QuietKeepsLines
  <1>20. CASE UNCHANGED vars
    <2>1. UNCHANGED <<input, output, printed, got, pc, outcome, shell>>
      BY <1>20 DEF vars
    <2>2. Abandoned' = Abandoned /\ \A r : Pending(r) => Pending(r)'
      BY <2>1 DEF Abandoned, Pending
    <2>3. PipesPending'
      BY <1>t, <2>1, <2>2, PipesStayPending DEF LinesInPlace
    <2> QED
      BY <1>t, <2>1, <2>2, <2>3, QuietKeepsLines
  <1> QED
    BY <1>1, <1>2, <1>3, <1>4, <1>5, <1>6, <1>7, <1>8, <1>9, <1>10, <1>11, <1>12,
       <1>13, <1>14, <1>15, <1>16, <1>17, <1>18, <1>19, <1>20
       DEF Next, Run, Close

\* A run that returns has all of its own lines, behind those of abandoned runs and
\* without any other, although callers give up and leave their output in the pipe.
THEOREM ProcessResultsAreOwn == Spec => []ResultsAreOwn
PROOF
  <1>1. IInv /\ RInv /\ [Next]_vars => RInv'
    BY NextTypeOK, NextCallsInPlace, NextLinesInPlace DEF RInv
  <1>2. RInv => ResultsAreOwn
    BY DEF RInv, LinesInPlace
  <1> QED
    BY <1>1, <1>2, InitIInv, NextIInv, InitRInv, PTL DEF Spec
=============================================================================
