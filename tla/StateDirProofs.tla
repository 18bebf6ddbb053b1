---------------------------- MODULE StateDirProofs ----------------------------
(***************************************************************************)
(* Theorems about StateDir, for any number of daemons of both kinds, all   *)
(* of which may be alive at a time, and any number of sessions and         *)
(* commands: what a daemon that is gone has left active is ended by the    *)
(* next one that starts, a stdio daemon that stops by itself leaves        *)
(* nothing active, whatever others do meanwhile.                           *)
(***************************************************************************)
EXTENDS StateDir, TLAPS

-----------------------------------------------------------------------------
USE NamesAssumption, KindsAssumption

\* What the argument needs of the types.
Typed ==
  /\ session \in [Sessions -> Tables!SessionRows]
  /\ command \in [Commands -> Tables!CommandRows]
  /\ pc \in [Daemons -> Pcs]
  /\ todo \in [Daemons -> SUBSET (Sessions \cup Commands)]
  /\ live \in [Daemons -> SUBSET Sessions]
  /\ owner \in [Sessions -> Daemons \cup {NoDaemon}]
  /\ opening \in [Sessions -> {"none", "row", "object"}]
  /\ before \in [Daemons -> SUBSET Daemons]

\* A daemon holds objects of its own sessions only, and what it holds, opens or
\* owns has a row.
LiveIsOwn ==
  /\ \A d \in Daemons : \A s \in live[d] : owner[s] = d /\ session[s].status # "absent"
  /\ \A s \in Sessions : session[s].status = "absent" => opening[s] = "none" /\ owner[s] = NoDaemon

LiveInv == Typed /\ LiveIsOwn

LEMMA InitLiveInv == Init => LiveInv
PROOF
  BY DEF Init, LiveInv, Typed, LiveIsOwn, Pcs, Tables!Init,
     Tables!SessionRows, Tables!CommandRows, Tables!NoSessionRow, Tables!NoCommandRow

-----------------------------------------------------------------------------
\* What a step may do to the session rows, and to the command rows: nothing, or
\* end one of them.
SessionEnds ==
  \/ session' = session
  \/ \E s \in Sessions, row \in Tables!SessionRows :
       /\ row.status \in {"closed", "crashed"}
       /\ session' = [session EXCEPT ![s] = row]
CommandEnds ==
  \/ command' = command
  \/ \E c \in Commands, row \in Tables!CommandRows :
       /\ row.session = command[c].session /\ row.status \in Tables!Terminal
       /\ command' = [command EXCEPT ![c] = row]

LEMMA EndSession ==
  ASSUME Typed, NEW s, NEW st \in {"closed", "crashed"}, Tables!UpdateSession(s, st, TRUE)
  PROVE  SessionEnds /\ command' = command /\ (s \in Sessions => ~IsOpen(s)')
PROOF
  <1>1. CASE s \in Sessions
    <2>1. [status |-> st, closedAt |-> session[s].closedAt \/ TRUE] \in Tables!SessionRows
      BY DEF Tables!SessionRows, Tables!SessionStatuses
    <2> QED
      BY <1>1, <2>1 DEF Tables!UpdateSession, SessionEnds, Typed, IsOpen, Open
  <1>2. CASE s \notin Sessions
    BY <1>2 DEF Tables!UpdateSession, SessionEnds, Typed
  <1> QED
    BY <1>1, <1>2

LEMMA EndCommandRow ==
  ASSUME Typed, NEW c, NEW st \in {"completed", "failed", "canceled"}, Tables!FinishCommand(c, st)
  PROVE  session' = session /\ CommandEnds /\ (c \in Commands => ~Tables!IsActive(c)')
PROOF
  <1>1. CASE Tables!IsTerminal(c)
    BY <1>1 DEF Tables!FinishCommand, Tables!tables, Tables!IsTerminal, Tables!IsActive,
       Tables!Terminal, Tables!Progress, CommandEnds
  <1>2. CASE ~Tables!IsTerminal(c) /\ c \in Commands
    <2>1. [status |-> st, endedAt |-> TRUE, session |-> command[c].session] \in Tables!CommandRows
      BY <1>2 DEF Typed, Tables!CommandRows, Tables!CommandStatuses, Tables!Terminal
    <2>2. /\ command' = [command EXCEPT ![c] =
                           [status |-> st, endedAt |-> TRUE, session |-> command[c].session]]
          /\ session' = session
      BY <1>2 DEF Tables!FinishCommand
    <2> QED
      BY <1>2, <2>1, <2>2 DEF Typed, CommandEnds, Tables!Terminal, Tables!IsActive, Tables!Progress
  <1>3. CASE ~Tables!IsTerminal(c) /\ c \notin Commands
    BY <1>3 DEF Tables!FinishCommand, Typed, CommandEnds
  <1> QED
    BY <1>1, <1>2, <1>3

\* Rows that end keep their types, and are there as before.
LEMMA EndsKeepRows ==
  ASSUME Typed, SessionEnds, CommandEnds
  PROVE  /\ session' \in [Sessions -> Tables!SessionRows]
         /\ command' \in [Commands -> Tables!CommandRows]
         /\ \A s \in Sessions : session[s].status # "absent" => session'[s].status # "absent"
         /\ \A s \in Sessions : IsOpen(s)' => IsOpen(s)
         /\ \A s \in Sessions : Tables!ActiveCommands(s)' \subseteq Tables!ActiveCommands(s)
PROOF
  <1>1. /\ session' \in [Sessions -> Tables!SessionRows]
        /\ command' \in [Commands -> Tables!CommandRows]
    BY DEF Typed, SessionEnds, CommandEnds
  <1>2. ASSUME NEW s \in Sessions
        PROVE  /\ session[s].status # "absent" => session'[s].status # "absent"
               /\ IsOpen(s)' => IsOpen(s)
    BY DEF Typed, SessionEnds, IsOpen, Open
  <1>3. \A c \in Commands : Tables!IsActive(c)' => /\ Tables!IsActive(c)
                                                  /\ command'[c].session = command[c].session
    BY DEF Typed, CommandEnds, Tables!IsActive, Tables!Terminal, Tables!Progress
  <1>4. ASSUME NEW s \in Sessions
        PROVE  Tables!ActiveCommands(s)' \subseteq Tables!ActiveCommands(s)
    BY <1>3 DEF Tables!ActiveCommands
  <1> QED
    BY <1>1, <1>2, <1>4

-----------------------------------------------------------------------------
\* What every step does for the rows of a daemon that is gone: it is gone for
\* good, its sessions stay its own, and none of its rows becomes active.
Abandons(e) ==
  pc[e] = "gone" =>
    /\ pc'[e] = "gone"
    /\ Owned(e)' = Owned(e)
    /\ \A s \in Owned(e) : /\ IsOpen(s)' => IsOpen(s)
                           /\ Tables!ActiveCommands(s)' \subseteq Tables!ActiveCommands(s)
Abandoned == \A e \in Daemons : Abandons(e)

\* Steps that end rows at most, and neither open nor adopt a session.
EndsAtMost(d) ==
  /\ pc[d] # "gone" /\ pc' = [pc EXCEPT ![d] = pc'[d]] /\ pc'[d] \in Pcs
  /\ SessionEnds /\ CommandEnds
  /\ UNCHANGED owner
  /\ \A x \in Daemons : live'[x] \subseteq live[x]
  /\ live' \in [Daemons -> SUBSET Sessions]
  /\ opening' \in [Sessions -> {"none", "row", "object"}]
  /\ \A s \in Sessions : opening'[s] # "none" => opening[s] # "none"

LEMMA EndingStep ==
  ASSUME LiveInv, NEW d \in Daemons, EndsAtMost(d), 
         todo' \in [Daemons -> SUBSET (Sessions \cup Commands)],
         before' \in [Daemons -> SUBSET Daemons]
  PROVE  LiveInv' /\ Abandoned
PROOF
  <1>1. /\ session' \in [Sessions -> Tables!SessionRows]
        /\ command' \in [Commands -> Tables!CommandRows]
        /\ \A s \in Sessions : session[s].status # "absent" => session'[s].status # "absent"
        /\ \A s \in Sessions : IsOpen(s)' => IsOpen(s)
        /\ \A s \in Sessions : Tables!ActiveCommands(s)' \subseteq Tables!ActiveCommands(s)
    BY EndsKeepRows DEF LiveInv, EndsAtMost
  <1>2. pc' \in [Daemons -> Pcs] /\ \A e \in Daemons : pc[e] = "gone" => pc'[e] = "gone"
    BY DEF LiveInv, Typed, EndsAtMost
  <1>3. \A e \in Daemons : Owned(e)' = Owned(e) /\ Owned(e) \subseteq Sessions
    BY DEF EndsAtMost, Owned
  <1>4. Typed'
    BY <1>1, <1>2 DEF LiveInv, Typed, EndsAtMost
  <1>5. LiveIsOwn'
    BY <1>1 DEF LiveInv, Typed, LiveIsOwn, EndsAtMost
  <1> QED
    BY <1>1, <1>2, <1>3, <1>4, <1>5 DEF LiveInv, Abandoned, Abandons

-----------------------------------------------------------------------------
(* Recovery *)

Served == {"listen", "serving", "final", "shutting"}

\* How far the recovery of d has brought the rows of e.
Orphaned(d, e) ==
  \A s \in Owned(e) :
    /\ pc[d] = "sessions" /\ IsOpen(s) => s \in todo[d]
    /\ pc[d] = "commands" => ~IsOpen(s) /\ Tables!ActiveCommands(s) \subseteq todo[d]
    /\ pc[d] \in Served => ~IsOpen(s) /\ Tables!ActiveCommands(s) = {}

\* What recovery has listed, in each half of it.
Listed ==
  \A d \in Daemons : /\ pc[d] = "sessions" => todo[d] \subseteq Sessions
                     /\ pc[d] = "commands" => todo[d] \subseteq Commands

Orphans == \A d \in Daemons : \A e \in before[d] : pc[e] = "gone" /\ Orphaned(d, e)

IInv == LiveInv /\ Listed /\ Orphans

\* A daemon that is not recovering, or rests.
Keeps(d) ==
  \/ pc'[d] = pc[d] /\ todo'[d] = todo[d]
  \/ pc[d] \in Served /\ pc'[d] \in Served
  \/ pc'[d] \in Pcs \ (Served \cup {"sessions", "commands"})

LEMMA KeepsOrphans ==
  ASSUME IInv, Abandoned, NEW d \in Daemons, Keeps(d), before'[d] = before[d]
  PROVE  /\ pc'[d] = "sessions" => todo'[d] \subseteq Sessions
         /\ pc'[d] = "commands" => todo'[d] \subseteq Commands
         /\ \A e \in before'[d] : pc'[e] = "gone" /\ Orphaned(d, e)'
PROOF
  <1>1. /\ pc'[d] = "sessions" => todo'[d] \subseteq Sessions
        /\ pc'[d] = "commands" => todo'[d] \subseteq Commands
    BY DEF IInv, Listed, Keeps, Served
  <1>2. ASSUME NEW e \in before'[d] PROVE pc'[e] = "gone" /\ Orphaned(d, e)'
    <2>1. e \in Daemons /\ e \in before[d] /\ pc[e] = "gone" /\ Orphaned(d, e)
      BY DEF IInv, LiveInv, Typed, Orphans
    <2>2. /\ pc'[e] = "gone" /\ Owned(e)' = Owned(e)
          /\ \A s \in Owned(e) : /\ IsOpen(s)' => IsOpen(s)
                                 /\ Tables!ActiveCommands(s)' \subseteq Tables!ActiveCommands(s)
      BY <2>1 DEF Abandoned, Abandons
    <2>3. Orphaned(d, e)'
      BY <2>1, <2>2 DEF Orphaned, Keeps, Served
    <2> QED
      BY <2>2, <2>3
  <1> QED
    BY <1>1, <1>2

\* A step that is no step of a recovery.
LEMMA OtherStep ==
  ASSUME IInv, LiveInv', Abandoned, UNCHANGED before, \A d \in Daemons : Keeps(d)
  PROVE  IInv'
PROOF
  <1>1. ASSUME NEW d \in Daemons
        PROVE  /\ pc'[d] = "sessions" => todo'[d] \subseteq Sessions
               /\ pc'[d] = "commands" => todo'[d] \subseteq Commands
               /\ \A e \in before'[d] : pc'[e] = "gone" /\ Orphaned(d, e)'
    BY KeepsOrphans
  <1> QED
    BY <1>1 DEF IInv, Listed, Orphans

-----------------------------------------------------------------------------
(* The steps *)

\* A step outside a recovery that ends rows at most.
LEMMA QuietStep ==
  ASSUME IInv, NEW d \in Daemons, EndsAtMost(d), UNCHANGED before,
         todo' = [todo EXCEPT ![d] = todo'[d]], todo'[d] \subseteq Sessions \cup Commands, Keeps(d)
  PROVE  IInv'
PROOF
  <1>1. LiveInv' /\ Abandoned
    BY EndingStep DEF IInv, LiveInv, Typed
  <1>2. \A x \in Daemons : Keeps(x)
    BY DEF IInv, LiveInv, Typed, EndsAtMost, Keeps
  <1> QED
    BY <1>1, <1>2, OtherStep

\* The rows of the tables, and what of them is in memory, stay as they are.
LEMMA UntouchedStep ==
  ASSUME IInv, NEW d \in Daemons, UNCHANGED <<session, command, live, opening, owner>>,
         pc[d] # "gone", NEW place \in Pcs, pc' = [pc EXCEPT ![d] = place]
  PROVE  EndsAtMost(d)
PROOF
  BY DEF IInv, LiveInv, Typed, LiveIsOwn, EndsAtMost, SessionEnds, CommandEnds

LEMMA VanishStep ==
  ASSUME IInv, NEW d \in Daemons, pc[d] # "gone", Vanish(d),
         UNCHANGED <<session, command, owner, before>>
  PROVE  IInv'
PROOF
  <1>1. /\ pc' = [pc EXCEPT ![d] = "gone"] /\ live' = [live EXCEPT ![d] = {}]
        /\ todo' = [todo EXCEPT ![d] = {}]
        /\ opening' = [s \in Sessions |-> IF owner[s] = d THEN "none" ELSE opening[s]]
    BY DEF Vanish, Goto
  <1>2. EndsAtMost(d)
    BY <1>1 DEF IInv, LiveInv, Typed, EndsAtMost, SessionEnds, CommandEnds, Pcs
  <1>3. Keeps(d) /\ todo' = [todo EXCEPT ![d] = todo'[d]] /\ todo'[d] = {}
    BY <1>1 DEF IInv, LiveInv, Typed, Keeps, Pcs, Served
  <1> QED
    BY <1>2, <1>3, QuietStep

\* Start-up but for recovery, and the loops and the end of the main thread.
LEMMA MainStep ==
  ASSUME IInv, NEW d \in Daemons,
         \/ Start(d) \/ ClearMarker(d) \/ WriteState(d) \/ Listen(d) \/ BindFails(d)
         \/ LoopSeesRequest(d) \/ LoopEnds(d) \/ ShutDownAtEnd(d)
  PROVE  IInv'
PROOF
  <1>1. PICK place \in Pcs :
          /\ pc' = [pc EXCEPT ![d] = place] /\ pc[d] # "gone"
          /\ UNCHANGED <<session, command, live, opening, owner, todo, before>>
          /\ \/ pc[d] \in Served /\ place \in Served
             \/ place \in {"unmark", "write", "list_sessions"}
    BY DEF Start, ClearMarker, WriteState, Listen, BindFails, LoopSeesRequest, LoopEnds,
       ShutDownAtEnd, Goto, tables, files, histories, Pcs, Served
  <1>2. EndsAtMost(d)
    BY <1>1, UntouchedStep
  <1>3. Keeps(d) /\ todo' = [todo EXCEPT ![d] = todo'[d]] /\ todo'[d] \subseteq Sessions \cup Commands
    BY <1>1 DEF IInv, LiveInv, Typed, Keeps, Served, Pcs
  <1> QED
    BY <1>1, <1>2, <1>3, QuietStep

\* Rows end while the main thread is where it is.
LEMMA RowsStep ==
  ASSUME IInv, NEW d \in Daemons, pc[d] # "gone", SessionEnds, CommandEnds,
         UNCHANGED <<pc, todo, before, owner>>,
         UNCHANGED live \/ \E s : live' = [live EXCEPT ![d] = @ \ {s}],
         \/ UNCHANGED opening
         \/ \E s \in Sessions : opening' = [opening EXCEPT ![s] = "none"]
  PROVE  IInv'
PROOF
  <1>1. EndsAtMost(d)
    BY DEF IInv, LiveInv, Typed, EndsAtMost
  <1>2. Keeps(d) /\ todo' = [todo EXCEPT ![d] = todo'[d]] /\ todo'[d] \subseteq Sessions \cup Commands
    BY DEF IInv, LiveInv, Typed, Keeps
  <1> QED
    BY <1>1, <1>2, QuietStep

LEMMA ServiceEnds ==
  ASSUME IInv, NEW d \in Daemons,
         \/ \E s \in Sessions : CreateFails(d, s) \/ GiveUp(d, s)
         \/ \E c \in Commands : EndCommand(d, c)
         \/ MarkClosed(d) \/ CancelCommand(d) \/ SessionClosed(d) \/ TakeSession(d)
         \/ WriteMarker(d) \/ CollectLive(d) \/ AllClosed(d) \/ RequestShutdown(d)
  PROVE  IInv'
PROOF
  <1>t. Typed
    BY DEF IInv, LiveInv
  <1> USE DEF tables, files, histories
  <1>1. ASSUME NEW s \in Sessions, CreateFails(d, s) PROVE IInv'
    <2>1. /\ pc[d] # "gone" /\ Tables!UpdateSession(s, "crashed", TRUE)
          /\ opening' = [opening EXCEPT ![s] = "none"]
          /\ UNCHANGED <<pc, todo, before, owner, live>>
      BY <1>1 DEF CreateFails, Alive
    <2>2. SessionEnds /\ CommandEnds
      BY <1>t, <2>1, EndSession DEF CommandEnds
    <2> QED
      BY <2>1, <2>2, RowsStep
  <1>2. ASSUME NEW s \in Sessions, GiveUp(d, s) PROVE IInv'
    <2>1. /\ pc[d] # "gone" /\ Tables!UpdateSession(s, "closed", TRUE)
          /\ live' = [live EXCEPT ![d] = @ \ {s}]
          /\ UNCHANGED <<pc, todo, before, owner, opening>>
      BY <1>2 DEF GiveUp, Alive
    <2>2. SessionEnds /\ CommandEnds
      BY <1>t, <2>1, EndSession DEF CommandEnds
    <2> QED
      BY <2>1, <2>2, RowsStep
  <1>3. ASSUME NEW c, EndCommand(d, c) \/ CancelCommand(d) PROVE IInv'
    <2>1. \E x : \E st \in {"completed", "failed", "canceled"} : Tables!FinishCommand(x, st)
      <3>1. CASE EndCommand(d, c)
        <4>1. Tables!FinishCommand(c, IF command[c].status = "queued" THEN "canceled" ELSE "completed")
          BY <3>1 DEF EndCommand
        <4> QED
          BY <4>1
      <3>2. CASE CancelCommand(d)
        <4>1. \E x \in stop[d].victims : Tables!FinishCommand(x, "canceled")
          BY <3>2 DEF CancelCommand
        <4> QED
          BY <4>1
      <3> QED
        BY <1>3, <3>1, <3>2
    <2>2. SessionEnds /\ CommandEnds
      BY <1>t, <2>1, EndCommandRow DEF SessionEnds
    <2>3. pc[d] # "gone" /\ UNCHANGED <<pc, todo, before, owner, live, opening>>
      BY <1>3 DEF EndCommand, CancelCommand, Alive
    <2> QED
      BY <2>2, <2>3, RowsStep
  <1>4. ASSUME MarkClosed(d) \/ SessionClosed(d) PROVE IInv'
    <2>1. /\ pc[d] # "gone" /\ Tables!UpdateSession(stop[d].session, "closed", TRUE)
          /\ UNCHANGED <<pc, todo, before, owner, live, opening>>
      BY <1>4 DEF MarkClosed, SessionClosed, Alive
    <2>2. SessionEnds /\ CommandEnds
      BY <1>t, <2>1, EndSession DEF CommandEnds
    <2> QED
      BY <2>1, <2>2, RowsStep
  <1>5. ASSUME TakeSession(d) PROVE IInv'
    <2>1. PICK s \in stop[d].todo : live' = [live EXCEPT ![d] = @ \ {s}]
      BY <1>5 DEF TakeSession, Takes
    <2>2. /\ pc[d] # "gone" /\ SessionEnds /\ CommandEnds
          /\ UNCHANGED <<pc, todo, before, owner, opening>>
      BY <1>5 DEF TakeSession, Takes, Alive, SessionEnds, CommandEnds
    <2> QED
      BY <2>1, <2>2, RowsStep
  <1>6. ASSUME WriteMarker(d) \/ CollectLive(d) \/ AllClosed(d) \/ RequestShutdown(d) PROVE IInv'
    <2>1. /\ pc[d] # "gone" /\ SessionEnds /\ CommandEnds
          /\ UNCHANGED <<pc, todo, before, owner, opening, live>>
      BY <1>6 DEF WriteMarker, CollectLive, AllClosed, RequestShutdown, TakesRequests, Alive,
         SessionEnds, CommandEnds
    <2> QED
      BY <2>1, RowsStep
  <1> QED
    BY <1>1, <1>2, <1>3, <1>4, <1>5, <1>6

\* A session is opened, adopted or set to running, and a command created or taken
\* on, by a daemon that is alive, and of its own.
LEMMA ServiceOpens ==
  ASSUME IInv, NEW d \in Daemons,
         \/ \E s \in Sessions : OpenSession(d, s) \/ Adopt(d, s) \/ SetRunning(d, s)
         \/ \E c \in Commands : \/ StartCommand(d, c)
                                \/ \E st \in Tables!Progress : Progress(d, c, st)
  PROVE  IInv'
PROOF
  <1>t. Typed /\ LiveIsOwn
    BY DEF IInv, LiveInv
  <1>k. ASSUME LiveInv', Abandoned, UNCHANGED <<pc, todo, before>> PROVE IInv'
    BY <1>k, OtherStep DEF Keeps
  <1> USE DEF tables, files, histories
  <1>1. ASSUME NEW s \in Sessions, OpenSession(d, s) PROVE IInv'
    <2>1. /\ pc[d] # "gone" /\ session[s].status = "absent"
          /\ session' = [session EXCEPT ![s] = [status |-> "starting", closedAt |-> FALSE]]
          /\ owner' = [owner EXCEPT ![s] = d] /\ opening' = [opening EXCEPT ![s] = "row"]
          /\ UNCHANGED <<command, pc, todo, before, live>>
      BY <1>1 DEF OpenSession, TakesRequests, Tables!CreateSession
    <2>2. [status |-> "starting", closedAt |-> FALSE] \in Tables!SessionRows
      BY DEF Tables!SessionRows, Tables!SessionStatuses
    <2>3. LiveInv'
      BY <1>t, <2>1, <2>2 DEF LiveInv, Typed, LiveIsOwn
    <2>4. Abandoned
      <3>1. \A e \in Daemons : pc[e] = "gone" => Owned(e)' = Owned(e) /\ s \notin Owned(e)
        BY <1>t, <2>1 DEF Owned, Typed, LiveIsOwn
      <3>2. \A x \in Sessions : /\ x # s => (IsOpen(x)' <=> IsOpen(x))
                               /\ Tables!ActiveCommands(x)' = Tables!ActiveCommands(x)
        BY <1>t, <2>1 DEF Typed, IsOpen, Tables!ActiveCommands, Tables!IsActive
      <3> QED
        BY <2>1, <3>1, <3>2 DEF Abandoned, Abandons, Owned
    <2> QED
      BY <1>k, <2>1, <2>3, <2>4
  <1>2. ASSUME NEW s \in Sessions, Adopt(d, s) PROVE IInv'
    <2>1. /\ owner[s] = d /\ opening[s] = "row"
          /\ live' = [live EXCEPT ![d] = @ \cup {s}] /\ opening' = [opening EXCEPT ![s] = "object"]
          /\ UNCHANGED <<session, command, pc, todo, before, owner>>
      BY <1>2 DEF Adopt
    <2>2. LiveInv'
      BY <1>t, <2>1 DEF LiveInv, Typed, LiveIsOwn
    <2>3. Abandoned
      BY <2>1 DEF Abandoned, Abandons, Owned, IsOpen, Tables!ActiveCommands, Tables!IsActive
    <2> QED
      BY <1>k, <2>1, <2>2, <2>3
  <1>3. ASSUME NEW s \in Sessions, SetRunning(d, s) PROVE IInv'
    <2>1. /\ pc[d] # "gone" /\ owner[s] = d /\ session[s].status # "absent"
          /\ opening' = [opening EXCEPT ![s] = "none"]
          /\ UNCHANGED <<command, pc, todo, before, owner, live>>
      BY <1>3, <1>t DEF SetRunning, LiveIsOwn, Alive, Tables!UpdateSession
    <2>2. PICK row \in Tables!SessionRows :
            row.status # "absent" /\ session' = [session EXCEPT ![s] = row]
      <3>1. /\ [status |-> "running", closedAt |-> session[s].closedAt \/ FALSE] \in Tables!SessionRows
            /\ [status |-> "crashed", closedAt |-> session[s].closedAt \/ TRUE] \in Tables!SessionRows
        BY <1>t DEF Typed, Tables!SessionRows, Tables!SessionStatuses
      <3> QED
        BY <1>3, <3>1 DEF SetRunning, Tables!UpdateSession
    <2>3. LiveInv'
      BY <1>t, <2>1, <2>2 DEF LiveInv, Typed, LiveIsOwn
    <2>4. Abandoned
      BY <1>t, <2>1, <2>2 DEF Abandoned, Abandons, Owned, IsOpen, Tables!ActiveCommands,
         Tables!IsActive, Typed
    <2> QED
      BY <1>k, <2>1, <2>3, <2>4
  <1>4. ASSUME NEW c \in Commands,
               StartCommand(d, c) \/ \E st \in Tables!Progress : Progress(d, c, st)
        PROVE  IInv'
    <2>1. PICK row \in Tables!CommandRows :
            /\ pc[d] # "gone" /\ row.session \in live[d]
            /\ command' = [command EXCEPT ![c] = row]
            /\ UNCHANGED <<session, pc, todo, before, owner, live, opening>>
      <3>1. CASE StartCommand(d, c)
        <4>1. PICK s \in live[d] : Tables!CreateCommand(c, s)
          BY <3>1 DEF StartCommand
        <4>2. [status |-> "queued", endedAt |-> FALSE, session |-> s] \in Tables!CommandRows
          BY <1>t, <4>1 DEF Typed, Tables!CommandRows, Tables!CommandStatuses
        <4> QED
          BY <3>1, <4>1, <4>2 DEF StartCommand, TakesRequests, Tables!CreateCommand
      <3>2. CASE \E st \in Tables!Progress : Progress(d, c, st)
        <4>1. PICK st \in Tables!Progress : Progress(d, c, st)
          BY <3>2
        <4>2. [status |-> st, endedAt |-> command[c].endedAt, session |-> command[c].session]
                \in Tables!CommandRows
          BY <1>t, <4>1 DEF Typed, Tables!CommandRows, Tables!CommandStatuses
        <4> QED
          BY <4>1, <4>2 DEF Progress, Alive, Tables!UpdateCommand
      <3> QED
        BY <1>4, <3>1, <3>2
    <2>2. LiveInv'
      BY <1>t, <2>1 DEF LiveInv, Typed, LiveIsOwn
    <2>3. ASSUME NEW e \in Daemons, pc[e] = "gone" PROVE Abandons(e)
      <3>1. d # e /\ \A s \in Owned(e) : s \notin live[d]
        BY <1>t, <2>1, <2>3 DEF LiveIsOwn, Owned
      <3>2. \A x \in Commands : \A s \in Owned(e) :
              Tables!IsActive(x)' /\ command'[x].session = s =>
                Tables!IsActive(x) /\ command[x].session = s
        BY <1>t, <2>1, <3>1 DEF Typed, Tables!IsActive
      <3> QED
        BY <2>1, <2>3, <3>2 DEF Abandons, Owned, IsOpen, Tables!ActiveCommands
    <2>4. Abandoned
      BY <2>3 DEF Abandoned, Abandons
    <2> QED
      BY <1>k, <2>1, <2>2, <2>4
  <1> QED
    BY <1>1, <1>2, <1>3, <1>4

\* The others keep what their recovery has done when one goes a step on in its own.
LEMMA RecoveryStep ==
  ASSUME IInv, NEW d \in Daemons, pc[d] # "gone", NEW place \in Pcs,
         pc' = [pc EXCEPT ![d] = place],
         NEW rows \in SUBSET (Sessions \cup Commands), todo' = [todo EXCEPT ![d] = rows],
         NEW gone \in SUBSET Daemons, before' = [before EXCEPT ![d] = gone],
         UNCHANGED <<live, opening, owner>>, SessionEnds, CommandEnds,
         place = "sessions" => rows \subseteq Sessions,
         place = "commands" => rows \subseteq Commands,
         \A e \in gone : pc[e] = "gone" /\ Orphaned(d, e)'
  PROVE  IInv'
PROOF
  <1>1. EndsAtMost(d)
    BY DEF IInv, LiveInv, Typed, EndsAtMost
  <1>2. LiveInv' /\ Abandoned
    BY <1>1, EndingStep DEF IInv, LiveInv, Typed
  <1>3. ASSUME NEW x \in Daemons, x # d
        PROVE  /\ pc'[x] = "sessions" => todo'[x] \subseteq Sessions
               /\ pc'[x] = "commands" => todo'[x] \subseteq Commands
               /\ \A e \in before'[x] : pc'[e] = "gone" /\ Orphaned(x, e)'
    <2>1. Keeps(x) /\ before'[x] = before[x]
      BY <1>3 DEF IInv, LiveInv, Typed, Keeps
    <2> QED
      BY <1>2, <2>1, KeepsOrphans
  <1>4. /\ pc'[d] = "sessions" => todo'[d] \subseteq Sessions
        /\ pc'[d] = "commands" => todo'[d] \subseteq Commands
        /\ \A e \in before'[d] : pc'[e] = "gone" /\ Orphaned(d, e)'
    BY <1>2 DEF IInv, LiveInv, Typed, Abandoned, Abandons
  <1> QED
    BY <1>2, <1>3, <1>4 DEF IInv, Listed, Orphans

LEMMA Recovers ==
  ASSUME IInv, NEW d \in Daemons,
         \/ ListSessions(d) \/ RecoverSession(d) \/ ListCommands(d) \/ RecoverCommand(d)
         \/ Recovered(d)
  PROVE  IInv'
PROOF
  <1>t. /\ Typed /\ Listed /\ before[d] \subseteq Daemons /\ todo[d] \subseteq Sessions \cup Commands
        /\ pc = [pc EXCEPT ![d] = pc[d]] /\ before = [before EXCEPT ![d] = before[d]]
    BY DEF IInv, LiveInv, Typed
  <1>o. \A e \in before[d] : e \in Daemons /\ pc[e] = "gone" /\ Orphaned(d, e)
    BY <1>t DEF IInv, Orphans
  <1>s. \A e \in Daemons : Owned(e) \subseteq Sessions
    BY DEF Owned
  <1> USE DEF tables, files, histories
  <1>1. CASE ListSessions(d)
    <2> DEFINE rows == {s \in Sessions : IsOpen(s)}
               gone == {e \in Daemons : pc[e] = "gone"}
    <2>1. /\ pc[d] = "list_sessions" /\ pc' = [pc EXCEPT ![d] = "sessions"]
          /\ todo' = [todo EXCEPT ![d] = rows] /\ before' = [before EXCEPT ![d] = gone]
          /\ UNCHANGED <<session, command, live, opening, owner>>
      BY <1>1 DEF ListSessions, Lists, Goto
    <2>2. pc'[d] = "sessions" /\ todo'[d] = rows
      BY <1>t, <2>1 DEF Typed
    <2>3. \A e \in gone : Orphaned(d, e)'
      BY <1>s, <2>1, <2>2 DEF Orphaned, IsOpen, Owned, Served
    <2>4. SessionEnds /\ CommandEnds /\ rows \subseteq Sessions /\ "sessions" \in Pcs
      BY <2>1 DEF SessionEnds, CommandEnds, Pcs
    <2> QED
      BY <2>1, <2>3, <2>4, RecoveryStep
  <1>2. CASE RecoverSession(d)
    <2>1. PICK s \in todo[d] : /\ Tables!UpdateSession(s, "crashed", TRUE)
                              /\ todo' = [todo EXCEPT ![d] = todo[d] \ {s}]
      BY <1>2 DEF RecoverSession
    <2>2. /\ pc[d] = "sessions" /\ UNCHANGED <<pc, before, live, opening, owner>>
          /\ todo[d] \subseteq Sessions
      BY <1>2, <1>t DEF RecoverSession, Listed
    <2>3. SessionEnds /\ CommandEnds /\ ~IsOpen(s)'
      BY <1>t, <2>1, <2>2, EndSession DEF CommandEnds
    <2>4. \A x \in Sessions : IsOpen(x)' => IsOpen(x)
      BY <1>t, <2>3, EndsKeepRows
    <2>5. pc'[d] = "sessions" /\ todo'[d] = todo[d] \ {s}
      BY <1>t, <2>1, <2>2 DEF Typed
    <2>6. ASSUME NEW e \in before[d] PROVE Orphaned(d, e)'
      <3>1. \A x \in Owned(e) : IsOpen(x) => x \in todo[d]
        BY <1>o, <2>2 DEF Orphaned
      <3>2. Owned(e)' = Owned(e)
        BY <2>2 DEF Owned
      <3>3. \A x \in Owned(e) : IsOpen(x)' => x \in todo'[d]
        BY <1>o, <1>s, <2>3, <2>4, <2>5, <3>1
      <3> QED
        BY <2>5, <3>2, <3>3 DEF Orphaned, Served
    <2>7. /\ pc' = [pc EXCEPT ![d] = "sessions"] /\ before' = [before EXCEPT ![d] = before[d]]
          /\ "sessions" \in Pcs
      BY <1>t, <2>2 DEF Pcs
    <2>8. \A e \in before[d] : pc[e] = "gone" /\ Orphaned(d, e)'
      BY <1>o, <2>6
    <2> DEFINE rows == todo[d] \ {s}
    <2>9. /\ rows \subseteq Sessions /\ todo' = [todo EXCEPT ![d] = rows]
          /\ pc[d] # "gone" /\ SessionEnds /\ CommandEnds
          /\ UNCHANGED <<live, opening, owner>> /\ before[d] \subseteq Daemons
      BY <1>t, <2>1, <2>2, <2>3
    <2> HIDE DEF rows
    <2> QED
      BY <2>7, <2>8, <2>9, RecoveryStep
  <1>3. CASE ListCommands(d)
    <2> DEFINE rows == {c \in Commands : Tables!IsActive(c)}
    <2>1. /\ pc[d] = "sessions" /\ todo[d] = {} /\ pc' = [pc EXCEPT ![d] = "commands"]
          /\ todo' = [todo EXCEPT ![d] = rows]
          /\ UNCHANGED <<session, command, before, live, opening, owner>>
      BY <1>3 DEF ListCommands, Goto
    <2>2. pc'[d] = "commands" /\ todo'[d] = rows
      BY <1>t, <2>1 DEF Typed
    <2>3. ASSUME NEW e \in before[d] PROVE Orphaned(d, e)'
      <3>1. \A x \in Owned(e) : ~IsOpen(x)
        BY <1>o, <2>1 DEF Orphaned
      <3>2. Owned(e)' = Owned(e)
        BY <2>1 DEF Owned
      <3>3. \A x \in Owned(e) : ~IsOpen(x)' /\ Tables!ActiveCommands(x)' \subseteq rows
        BY <2>1, <3>1 DEF IsOpen, Tables!ActiveCommands, Tables!IsActive
      <3> QED
        BY <2>2, <3>2, <3>3 DEF Orphaned, Served
    <2>4. /\ SessionEnds /\ CommandEnds /\ "commands" \in Pcs
          /\ rows \subseteq Commands /\ rows \subseteq Sessions \cup Commands
      BY <2>1 DEF SessionEnds, CommandEnds, Pcs
    <2>5. /\ pc[d] # "gone" /\ pc' = [pc EXCEPT ![d] = "commands"]
          /\ todo' = [todo EXCEPT ![d] = rows] /\ UNCHANGED <<live, opening, owner>>
          /\ before' = [before EXCEPT ![d] = before[d]] /\ before[d] \subseteq Daemons
      BY <1>t, <1>o, <2>1
    <2>6. \A e \in before[d] : pc[e] = "gone" /\ Orphaned(d, e)'
      BY <1>o, <2>3
    <2> HIDE DEF rows
    <2> QED
      BY <2>4, <2>5, <2>6, RecoveryStep
  <1>4. CASE RecoverCommand(d)
    <2>1. PICK c \in todo[d] : /\ Tables!FinishCommand(c, "failed")
                              /\ todo' = [todo EXCEPT ![d] = todo[d] \ {c}]
      BY <1>4 DEF RecoverCommand
    <2>2. /\ pc[d] = "commands" /\ UNCHANGED <<pc, before, live, opening, owner>>
          /\ todo[d] \subseteq Commands
      BY <1>4, <1>t DEF RecoverCommand, Listed
    <2>3. SessionEnds /\ CommandEnds /\ ~Tables!IsActive(c)'
      BY <1>t, <2>1, <2>2, EndCommandRow DEF SessionEnds
    <2>4. \A x \in Sessions : /\ IsOpen(x)' => IsOpen(x)
                             /\ Tables!ActiveCommands(x)' \subseteq Tables!ActiveCommands(x) \ {c}
      BY <1>t, <2>3, EndsKeepRows DEF Tables!ActiveCommands
    <2>5. pc'[d] = "commands" /\ todo'[d] = todo[d] \ {c}
      BY <1>t, <2>1, <2>2 DEF Typed
    <2>6. ASSUME NEW e \in before[d] PROVE Orphaned(d, e)'
      <3>1. \A x \in Owned(e) : ~IsOpen(x) /\ Tables!ActiveCommands(x) \subseteq todo[d]
        BY <1>o, <2>2 DEF Orphaned
      <3>2. Owned(e)' = Owned(e)
        BY <2>2 DEF Owned
      <3>3. \A x \in Owned(e) : ~IsOpen(x)' /\ Tables!ActiveCommands(x)' \subseteq todo'[d]
        BY <1>o, <1>s, <2>4, <2>5, <3>1
      <3> QED
        BY <2>5, <3>2, <3>3 DEF Orphaned, Served
    <2>7. /\ pc' = [pc EXCEPT ![d] = "commands"] /\ before' = [before EXCEPT ![d] = before[d]]
          /\ "commands" \in Pcs
      BY <1>t, <2>2 DEF Pcs
    <2>8. \A e \in before[d] : pc[e] = "gone" /\ Orphaned(d, e)'
      BY <1>o, <2>6
    <2> DEFINE rows == todo[d] \ {c}
    <2>9. /\ rows \subseteq Commands /\ todo' = [todo EXCEPT ![d] = rows]
          /\ pc[d] # "gone" /\ SessionEnds /\ CommandEnds
          /\ UNCHANGED <<live, opening, owner>> /\ before[d] \subseteq Daemons
      BY <1>t, <2>1, <2>2, <2>3
    <2> HIDE DEF rows
    <2> QED
      BY <2>7, <2>8, <2>9, RecoveryStep
  <1>5. CASE Recovered(d)
    <2>1. PICK place \in {"listen", "serving"} :
            /\ pc[d] = "commands" /\ todo[d] = {} /\ pc' = [pc EXCEPT ![d] = place]
            /\ UNCHANGED <<session, command, todo, before, live, opening, owner>>
      BY <1>5 DEF Recovered, Goto
    <2>2. pc'[d] = place
      BY <1>t, <2>1 DEF Typed
    <2>3. ASSUME NEW e \in before[d] PROVE Orphaned(d, e)'
      <3>1. \A x \in Owned(e) : ~IsOpen(x) /\ Tables!ActiveCommands(x) = {}
        BY <1>o, <2>1 DEF Orphaned
      <3>2. Owned(e)' = Owned(e)
        BY <2>1 DEF Owned
      <3>3. \A x \in Owned(e) : ~IsOpen(x)' /\ Tables!ActiveCommands(x)' = {}
        BY <2>1, <3>1 DEF IsOpen, Tables!ActiveCommands, Tables!IsActive
      <3> QED
        BY <2>1, <2>2, <3>2, <3>3 DEF Orphaned
    <2>4. /\ SessionEnds /\ CommandEnds /\ place \in Pcs /\ place \notin {"sessions", "commands"}
          /\ todo' = [todo EXCEPT ![d] = {}]
      BY <1>t, <2>1 DEF SessionEnds, CommandEnds, Pcs, Typed
    <2>5. \A e \in before[d] : pc[e] = "gone" /\ Orphaned(d, e)'
      BY <1>o, <2>3
    <2>6. /\ pc[d] # "gone" /\ pc' = [pc EXCEPT ![d] = place] /\ UNCHANGED <<live, opening, owner>>
          /\ before' = [before EXCEPT ![d] = before[d]] /\ before[d] \subseteq Daemons
          /\ {} \subseteq Sessions \cup Commands
      BY <1>o, <1>t, <2>1
    <2> QED
      BY <2>4, <2>5, <2>6, RecoveryStep
  <1> QED
    BY <1>1, <1>2, <1>3, <1>4, <1>5

-----------------------------------------------------------------------------
LEMMA InitIInv == Init => IInv
PROOF
  BY InitLiveInv DEF Init, IInv, Listed, Orphans

LEMMA NextIInv == IInv /\ [Next]_vars => IInv'
PROOF
  <1> SUFFICES ASSUME IInv, [Next]_vars PROVE IInv'
    OBVIOUS
  <1>1. ASSUME NEW d \in Daemons, Start(d) \/ StartUp(d) \/ BindFails(d) PROVE IInv'
    BY <1>1, MainStep, Recovers DEF StartUp
  <1>2. ASSUME NEW d \in Daemons, Serves(d) PROVE IInv'
    BY <1>2, ServiceOpens, ServiceEnds DEF Serves
  <1>3. ASSUME NEW d \in Daemons, RequestShutdown(d) \/ ShutsDown(d) PROVE IInv'
    BY <1>3, ServiceEnds DEF ShutsDown
  <1>4. ASSUME NEW d \in Daemons, Exit(d) \/ ExitAtEnd(d) \/ Crash(d) PROVE IInv'
    BY <1>4, VanishStep DEF Exit, ExitAtEnd, Crash, Alive, tables, files, histories
  <1>5. ASSUME NEW d \in Daemons, LoopEnds(d) \/ LoopSeesRequest(d) \/ ShutDownAtEnd(d) PROVE IInv'
    BY <1>5, MainStep
  <1>6. ASSUME UNCHANGED <<session, command, pc, todo, live, owner, opening, before>> PROVE IInv'
    BY <1>6 DEF IInv, LiveInv, Typed, LiveIsOwn, Listed, Orphans, Orphaned, Owned, IsOpen,
       Tables!ActiveCommands, Tables!IsActive
  <1>7. CASE OperatorMarks \/ UNCHANGED vars
    BY <1>6, <1>7 DEF OperatorMarks, vars, tables, files, histories
  <1> QED
    BY <1>1, <1>2, <1>3, <1>4, <1>5, <1>7 DEF Next, Ends

\* However many daemons crash, recover and serve on one state directory at a
\* time, none that serves sees an active row of one that was gone when it
\* started.
THEOREM StateDirOrphansAreEnded == Spec => []OrphansAreEnded
PROOF
  <1>1. IInv => OrphansAreEnded
    BY DEF IInv, Orphans, Orphaned, OrphansAreEnded, Served
  <1> QED
    BY <1>1, InitIInv, NextIInv, PTL DEF Spec

-----------------------------------------------------------------------------
(* The types *)

\* What TypeOK says of the variables that are not in Typed, and why a daemon
\* with an address serves a socket.
Rest ==
  /\ marker \in Daemons \cup {NoDaemon, "operator"}
  /\ state \in [daemon : Daemons \cup {NoDaemon}, port : BOOLEAN]
  /\ state.port => state.daemon \in Tcp
  /\ bound \subseteq Tcp
  /\ stop \in [Daemons -> Stops]
  /\ stoppedBy \in [Daemons -> Daemons \cup {"nobody", "operator"}]
  /\ dropped \subseteq Sessions
  /\ \A d \in Daemons : pc[d] = "listen" => d \in Tcp

\* The invariant of the store, which CommandStoreProofs shows of every use of it.
StoreProofs == INSTANCE CommandStoreProofs WITH MaxSeq <- 1, MaxBatch <- 1
Stored == StoreProofs!IInv

LEMMA StoreBounds == StoreProofs!NoSessionAssumption /\ StoreProofs!BoundsAssumption
PROOF
  BY DEF StoreProofs!NoSessionAssumption, StoreProofs!BoundsAssumption

\* What a step does to the tables: one transaction at most.
Transaction ==
  \/ \E s \in Sessions :
       \/ Tables!CreateSession(s)
       \/ Tables!UpdateSession(s, "running", FALSE)
       \/ \E st \in {"closed", "crashed"} : Tables!UpdateSession(s, st, TRUE)
  \/ \E c \in Commands :
       \/ \E s \in Sessions : Tables!CreateCommand(c, s)
       \/ \E st \in {"starting", "running"} : Tables!UpdateCommand(c, st)
       \/ \E st \in {"completed", "failed", "canceled"} : Tables!FinishCommand(c, st)
  \/ UNCHANGED <<session, command, events>>

LEMMA SameTables ==
  /\ Tables!Init => StoreProofs!Init
  /\ StoreProofs!TypeOK => Tables!TypeOK
  /\ \A s : Tables!CreateSession(s) => StoreProofs!CreateSession(s)
  /\ \A s, st, closes : Tables!UpdateSession(s, st, closes) => StoreProofs!UpdateSession(s, st, closes)
  /\ \A c, s : Tables!CreateCommand(c, s) => StoreProofs!CreateCommand(c, s)
  /\ \A c, st : Tables!UpdateCommand(c, st) => StoreProofs!UpdateCommand(c, st)
  /\ \A c, st : Tables!FinishCommand(c, st) => StoreProofs!FinishCommand(c, st)
PROOF
  <1> USE DEF Tables!SessionStatuses, StoreProofs!SessionStatuses,
              Tables!Progress, StoreProofs!Progress,
              Tables!Terminal, StoreProofs!Terminal,
              Tables!CommandStatuses, StoreProofs!CommandStatuses,
              Tables!OutputEvents, StoreProofs!OutputEvents,
              Tables!TerminalEvent, StoreProofs!TerminalEvent
  <1>1. Tables!TerminalEvents = StoreProofs!TerminalEvents
    BY DEF Tables!TerminalEvents, StoreProofs!TerminalEvents
  <1>2. Tables!EventTypes = StoreProofs!EventTypes
    BY <1>1 DEF Tables!EventTypes, StoreProofs!EventTypes
  <1>3. /\ Tables!SessionRows = StoreProofs!SessionRows
        /\ Tables!CommandRows = StoreProofs!CommandRows
        /\ Tables!EventRows = StoreProofs!EventRows
    BY <1>2
    DEF Tables!SessionRows, StoreProofs!SessionRows, Tables!CommandRows, StoreProofs!CommandRows,
        Tables!EventRows, StoreProofs!EventRows
  <1>4. /\ Tables!NoSessionRow = StoreProofs!NoSessionRow
        /\ Tables!NoCommandRow = StoreProofs!NoCommandRow
    BY DEF Tables!NoSessionRow, StoreProofs!NoSessionRow, Tables!NoCommandRow, StoreProofs!NoCommandRow
  <1>5. \A c : Tables!NextSeq(c) = StoreProofs!NextSeq(c)
    BY DEF Tables!NextSeq, StoreProofs!NextSeq, Tables!Max, StoreProofs!Max
  <1>6. \A c : Tables!IsTerminal(c) <=> StoreProofs!IsTerminal(c)
    BY DEF Tables!IsTerminal, StoreProofs!IsTerminal
  <1>7. Tables!Init => StoreProofs!Init
    BY <1>4 DEF Tables!Init, StoreProofs!Init
  <1>8. StoreProofs!TypeOK => Tables!TypeOK
    BY <1>3, <1>4 DEF Tables!TypeOK, StoreProofs!TypeOK
  <1>9. \A s : Tables!CreateSession(s) => StoreProofs!CreateSession(s)
    BY DEF Tables!CreateSession, StoreProofs!CreateSession
  <1>10. \A s, st, closes : Tables!UpdateSession(s, st, closes) => StoreProofs!UpdateSession(s, st, closes)
    BY DEF Tables!UpdateSession, StoreProofs!UpdateSession, Tables!EndedSession, StoreProofs!EndedSession,
           Tables!CanUpdateSession, StoreProofs!CanUpdateSession
  <1>11. \A c, s : Tables!CreateCommand(c, s) => StoreProofs!CreateCommand(c, s)
    BY DEF Tables!CreateCommand, StoreProofs!CreateCommand
  <1>12. \A c, st : Tables!UpdateCommand(c, st) => StoreProofs!UpdateCommand(c, st)
    BY DEF Tables!UpdateCommand, StoreProofs!UpdateCommand,
           Tables!CanUpdateCommand, StoreProofs!CanUpdateCommand
  <1>13. \A c, st : Tables!FinishCommand(c, st) => StoreProofs!FinishCommand(c, st)
    BY <1>5, <1>6
    DEF Tables!FinishCommand, StoreProofs!FinishCommand, Tables!tables, StoreProofs!tables
  <1> QED
    BY <1>7, <1>8, <1>9, <1>10, <1>11, <1>12, <1>13

LEMMA StoredKept ==
  ASSUME Stored, Transaction
  PROVE  Stored'
PROOF
  <1>1. CASE \E s \in Sessions :
               \/ Tables!CreateSession(s)
               \/ Tables!UpdateSession(s, "running", FALSE)
               \/ \E st \in {"closed", "crashed"} : Tables!UpdateSession(s, st, TRUE)
    <2>1. PICK s \in Sessions :
            \/ StoreProofs!CreateSession(s)
            \/ StoreProofs!UpdateSession(s, "running", FALSE)
            \/ \E st \in StoreProofs!EndedSession : StoreProofs!UpdateSession(s, st, TRUE)
      BY <1>1, SameTables DEF StoreProofs!EndedSession
    <2> QED
      BY <2>1, StoreBounds, StoreProofs!SessionStep DEF Stored
  <1>2. ASSUME NEW c \in Commands,
               \/ \E s \in Sessions : Tables!CreateCommand(c, s)
               \/ \E st \in {"starting", "running"} : Tables!UpdateCommand(c, st)
        PROVE  Stored'
    <2>1. \/ \E s \in Sessions : StoreProofs!CreateCommand(c, s)
          \/ \E st \in StoreProofs!Progress : StoreProofs!UpdateCommand(c, st)
      BY <1>2, SameTables DEF StoreProofs!Progress
    <2> QED
      BY <2>1, StoreBounds, StoreProofs!CommandStep DEF Stored
  <1>3. ASSUME NEW c \in Commands, NEW st \in {"completed", "failed", "canceled"},
               Tables!FinishCommand(c, st)
        PROVE  Stored'
    <2>1. StoreProofs!FinishCommand(c, st) /\ st \in StoreProofs!Terminal
      BY <1>3, SameTables DEF StoreProofs!Terminal
    <2> QED
      BY <2>1, StoreBounds, StoreProofs!FinishStep DEF Stored
  <1>4. CASE UNCHANGED <<session, command, events>>
    BY <1>4 DEF Stored, StoreProofs!IInv, StoreProofs!TypeOK, StoreProofs!Numbered,
       StoreProofs!TerminalEventMatchesStatus, StoreProofs!EndMarksMatchStatus,
       StoreProofs!IsTerminal
  <1> QED
    BY <1>1, <1>2, <1>3, <1>4 DEF Transaction

\* Every step of a daemon is a transaction: no row is changed in two of them, or
\* outside one.
LEMMA StepsTransact ==
  ASSUME IInv, Rest, Next
  PROVE  Transaction
PROOF
  <1>t. Typed /\ Listed
    BY DEF IInv, LiveInv
  <1>u. ASSUME NEW s, NEW st \in {"closed", "crashed"}, Tables!UpdateSession(s, st, TRUE)
        PROVE  Transaction
    <2>1. CASE s \in Sessions
      BY <1>u, <2>1 DEF Transaction
    <2>2. CASE s \notin Sessions
      <3>1. PICK row : session' = [session EXCEPT ![s] = row]
        BY <1>u DEF Tables!UpdateSession
      <3>2. session = [x \in Sessions |-> session[x]]
        BY <1>t DEF Typed
      <3>3. session' = session
        BY <2>2, <3>1, <3>2
      <3>4. UNCHANGED <<command, events>>
        BY <1>u DEF Tables!UpdateSession
      <3> QED
        BY <3>3, <3>4 DEF Transaction
    <2> QED
      BY <2>1, <2>2
  <1>f. ASSUME NEW c \in Commands, NEW st \in {"completed", "failed", "canceled"},
               Tables!FinishCommand(c, st)
        PROVE  Transaction
    BY <1>f DEF Transaction
  <1> USE DEF tables
  <1>1. ASSUME NEW d \in Daemons, Start(d) \/ StartUp(d) \/ BindFails(d) PROVE Transaction
    <2>1. CASE RecoverSession(d)
      BY <1>u, <2>1 DEF RecoverSession
    <2>2. CASE RecoverCommand(d)
      <3>1. PICK c \in todo[d] : pc[d] = "commands" /\ Tables!FinishCommand(c, "failed")
        BY <2>2 DEF RecoverCommand
      <3>2. c \in Commands
        BY <1>t, <3>1 DEF Listed
      <3> QED
        BY <1>f, <3>1, <3>2
    <2>3. CASE \/ Start(d) \/ BindFails(d) \/ ClearMarker(d) \/ WriteState(d) \/ ListSessions(d)
               \/ ListCommands(d) \/ Recovered(d) \/ Listen(d)
      BY <2>3 DEF Start, BindFails, ClearMarker, WriteState, ListSessions, Lists, ListCommands,
         Recovered, Listen, Transaction
    <2> QED
      BY <1>1, <2>1, <2>2, <2>3 DEF StartUp
  <1>2. ASSUME NEW d \in Daemons, NEW s \in Sessions,
               \/ OpenSession(d, s) \/ Adopt(d, s) \/ SetRunning(d, s) \/ CreateFails(d, s)
               \/ GiveUp(d, s)
        PROVE  Transaction
    BY <1>2, <1>u DEF OpenSession, Adopt, SetRunning, CreateFails, GiveUp, Transaction
  <1>3. ASSUME NEW d \in Daemons, NEW c \in Commands,
               \/ StartCommand(d, c) \/ EndCommand(d, c)
               \/ \E st \in Tables!Progress : Progress(d, c, st)
        PROVE  Transaction
    <2>1. CASE StartCommand(d, c)
      BY <1>t, <2>1 DEF StartCommand, Transaction, Typed
    <2>2. CASE EndCommand(d, c)
      <3>1. Tables!FinishCommand(c, IF command[c].status = "queued" THEN "canceled" ELSE "completed")
        BY <2>2 DEF EndCommand
      <3> QED
        BY <1>f, <3>1
    <2>3. CASE \E st \in Tables!Progress : Progress(d, c, st)
      BY <2>3 DEF Progress, Tables!Progress, Transaction
    <2> QED
      BY <1>3, <2>1, <2>2, <2>3
  <1>4. ASSUME NEW d \in Daemons, ShutsDown(d) PROVE Transaction
    <2>1. CASE MarkClosed(d) \/ SessionClosed(d)
      BY <1>u, <2>1 DEF MarkClosed, SessionClosed
    <2>2. CASE CancelCommand(d)
      <3>1. PICK c \in stop[d].victims : Tables!FinishCommand(c, "canceled")
        BY <2>2 DEF CancelCommand
      <3>2. c \in Commands
        BY <3>1 DEF Rest, Stops
      <3> QED
        BY <1>f, <3>1, <3>2
    <2>3. CASE WriteMarker(d) \/ CollectLive(d) \/ TakeSession(d) \/ AllClosed(d)
      BY <2>3 DEF WriteMarker, CollectLive, TakeSession, Takes, AllClosed, Transaction
    <2> QED
      BY <1>4, <2>1, <2>2, <2>3 DEF ShutsDown
  <1>5. ASSUME NEW d \in Daemons, RequestShutdown(d) \/ LoopEnds(d) \/ Ends(d) \/ Crash(d)
        PROVE  Transaction
    BY <1>5 DEF RequestShutdown, LoopEnds, Ends, LoopSeesRequest, Exit, ShutDownAtEnd, ExitAtEnd,
       Crash, Transaction
  <1>6. CASE OperatorMarks
    BY <1>6 DEF OperatorMarks, Transaction
  <1> QED
    BY <1>1, <1>2, <1>3, <1>4, <1>5, <1>6 DEF Next, Serves

\* A step that leaves most of it alone.
LEMMA RestStep ==
  ASSUME IInv, Rest, Next, UNCHANGED marker \/ marker' \in Daemons \cup {NoDaemon, "operator"},
         \/ UNCHANGED state
         \/ \E d \in Daemons, port \in BOOLEAN :
              /\ state' = [daemon |-> d, port |-> port]
              /\ port => d \in Tcp,
         bound' \subseteq Tcp, stop' \in [Daemons -> Stops],
         \/ UNCHANGED stoppedBy
         \/ \E d \in Daemons, who \in Daemons \cup {"nobody", "operator"} :
              stoppedBy' = [stoppedBy EXCEPT ![d] = who],
         dropped' \subseteq Sessions,
         \/ UNCHANGED pc
         \/ \E d \in Daemons, place \in Pcs :
              /\ pc' = [pc EXCEPT ![d] = place]
              /\ place = "listen" => d \in Tcp
  PROVE  Rest'
PROOF
  <1>1. marker' \in Daemons \cup {NoDaemon, "operator"}
    BY DEF Rest
  <1>2. /\ state' \in [daemon : Daemons \cup {NoDaemon}, port : BOOLEAN]
        /\ state'.port => state'.daemon \in Tcp
    <2>1. CASE UNCHANGED state
      BY <2>1 DEF Rest
    <2>2. ASSUME NEW d \in Daemons, NEW port \in BOOLEAN, port => d \in Tcp,
                 state' = [daemon |-> d, port |-> port]
          PROVE  /\ state' \in [daemon : Daemons \cup {NoDaemon}, port : BOOLEAN]
                 /\ state'.port => state'.daemon \in Tcp
      BY <2>2
    <2> QED
      BY <2>1, <2>2
  <1>3. stoppedBy' \in [Daemons -> Daemons \cup {"nobody", "operator"}]
    BY DEF Rest
  <1>4. ASSUME NEW d \in Daemons, pc'[d] = "listen" PROVE d \in Tcp
    <2>1. pc \in [Daemons -> Pcs] /\ (pc[d] = "listen" => d \in Tcp)
      BY DEF Rest, IInv, LiveInv, Typed
    <2> QED
      BY <1>4, <2>1
  <1> QED
    BY <1>1, <1>2, <1>3, <1>4 DEF Rest

LEMMA RestKept ==
  ASSUME IInv, Rest, Next
  PROVE  Rest'
PROOF
  <1> USE DEF files, histories, Goto
  <1>s. /\ stop \in [Daemons -> Stops] /\ bound \subseteq Tcp /\ dropped \subseteq Sessions
        /\ live \in [Daemons -> SUBSET Sessions]
        /\ marker \in Daemons \cup {NoDaemon, "operator"}
    BY DEF Rest, IInv, LiveInv, Typed
  <1>p. ASSUME NEW d \in Daemons, NEW to \in StopPcs, StopGoto(d, to)
        PROVE  stop' \in [Daemons -> Stops]
    BY <1>s, <1>p DEF StopGoto, Stops
  <1>1. ASSUME NEW d \in Daemons, StartUp(d) PROVE Rest'
    <2>1. CASE ClearMarker(d) \/ WriteState(d)
      BY <1>s, <2>1, RestStep DEF ClearMarker, WriteState, Pcs
    <2>2. CASE ListSessions(d) \/ ListCommands(d) \/ Recovered(d)
      BY <1>s, <2>2, RestStep DEF ListSessions, Lists, ListCommands, Recovered, Pcs
    <2>3. CASE RecoverSession(d) \/ RecoverCommand(d)
      BY <1>s, <2>3, RestStep DEF RecoverSession, RecoverCommand
    <2>4. CASE Listen(d)
      <3>1. d \in Tcp
        BY <2>4 DEF Listen, Rest
      <3> QED
        BY <1>s, <2>4, <3>1, RestStep DEF Listen, Pcs
    <2> QED
      BY <1>1, <2>1, <2>2, <2>3, <2>4 DEF StartUp
  <1>2. ASSUME NEW d \in Daemons, Start(d) \/ BindFails(d) \/ LoopEnds(d) PROVE Rest'
    BY <1>s, <1>2, RestStep DEF Start, BindFails, LoopEnds, Pcs
  <1>3. ASSUME NEW d \in Daemons, Serves(d) PROVE Rest'
    <2>1. /\ UNCHANGED <<files, pc, bound, stop, stoppedBy>>
          /\ dropped' \subseteq Sessions
      BY <1>s, <1>3 DEF Serves, OpenSession, Adopt, SetRunning, CreateFails, GiveUp, StartCommand,
         EndCommand, Progress
    <2> QED
      BY <1>s, <2>1, RestStep
  <1>4. ASSUME NEW d \in Daemons, RequestShutdown(d) PROVE Rest'
    BY <1>s, <1>p, <1>4, RestStep DEF RequestShutdown, StopPcs
  <1>5. ASSUME NEW d \in Daemons, ShutsDown(d) PROVE Rest'
    <2>1. CASE WriteMarker(d)
      BY <1>s, <1>p, <2>1, RestStep DEF WriteMarker, StopPcs
    <2>2. CASE CollectLive(d)
      <3>1. [NoStop EXCEPT !.pc = "close", !.todo = live[d]] \in Stops
        BY <1>s DEF NoStop, Stops, StopPcs
      <3> QED
        BY <1>s, <2>2, <3>1, RestStep DEF CollectLive
    <2>3. CASE TakeSession(d)
      <3>1. PICK s \in stop[d].todo :
              stop' = [stop EXCEPT ![d] =
                         [NoStop EXCEPT !.pc = "cancel", !.todo = stop[d].todo \ {s}, !.session = s,
                            !.victims = [x \in Sessions |-> Tables!ActiveCommands(x)][s]]]
        BY <2>3 DEF TakeSession, Takes
      <3>2. s \in Sessions /\ stop[d].todo \subseteq Sessions
            /\ Tables!ActiveCommands(s) \subseteq Commands
        BY <1>s, <3>1 DEF Stops, Tables!ActiveCommands
      <3>3. [NoStop EXCEPT !.pc = "cancel", !.todo = stop[d].todo \ {s}, !.session = s,
               !.victims = [x \in Sessions |-> Tables!ActiveCommands(x)][s]] \in Stops
        BY <3>2 DEF NoStop, Stops, StopPcs
      <3>4. stop' \in [Daemons -> Stops]
        BY <1>s, <3>1, <3>3
      <3> QED
        BY <1>s, <2>3, <3>4, RestStep DEF TakeSession, Takes
    <2>4. CASE MarkClosed(d)
      BY <1>s, <1>p, <2>4, RestStep DEF MarkClosed, StopPcs
    <2>5. CASE CancelCommand(d)
      <3>1. PICK c \in stop[d].victims :
              stop' = [stop EXCEPT ![d].pc = "cancel", ![d].victims = @ \ {c}]
        BY <2>5 DEF CancelCommand
      <3>2. stop \in [Daemons -> Stops] /\ stop[d] \in Stops
        BY <1>s
      <3>3. [stop[d] EXCEPT !.pc = "cancel", !.victims = stop[d].victims \ {c}] \in Stops
        BY <3>2 DEF Stops, StopPcs
      <3>4. stop' = [stop EXCEPT ![d] = [stop[d] EXCEPT !.pc = "cancel",
                                                      !.victims = stop[d].victims \ {c}]]
        BY <3>1, <3>2
      <3>5. stop' \in [Daemons -> Stops]
        BY <3>2, <3>3, <3>4
      <3> QED
        BY <1>s, <2>5, <3>5, RestStep DEF CancelCommand
    <2>6. CASE SessionClosed(d)
      <3>1. stop' = [stop EXCEPT ![d].pc = "close", ![d].session = NoSession]
        BY <2>6 DEF SessionClosed
      <3>2. stop \in [Daemons -> Stops] /\ stop[d] \in Stops
        BY <1>s
      <3>3. [stop[d] EXCEPT !.pc = "close", !.session = NoSession] \in Stops
        BY <3>2 DEF Stops, StopPcs
      <3>4. stop' = [stop EXCEPT ![d] = [stop[d] EXCEPT !.pc = "close", !.session = NoSession]]
        BY <3>1, <3>2
      <3>5. stop' \in [Daemons -> Stops]
        BY <3>2, <3>3, <3>4
      <3> QED
        BY <1>s, <2>6, <3>5, RestStep DEF SessionClosed
    <2>7. CASE AllClosed(d)
      <3>0. state' = [daemon |-> d, port |-> d \in bound]
        BY <2>7 DEF AllClosed
      <3>1. PICK port \in BOOLEAN : state' = [daemon |-> d, port |-> port] /\ (port => d \in Tcp)
        <4>1. CASE d \in bound
          <5>1. (d \in bound) = TRUE
            BY <4>1
          <5> QED
            BY <1>s, <3>0, <4>1, <5>1
        <4>2. CASE d \notin bound
          <5>1. (d \in bound) = FALSE
            BY <4>2
          <5> QED
            BY <3>0, <5>1
        <4> QED
          BY <4>1, <4>2
      <3>2. stop' \in [Daemons -> Stops]
        BY <1>p, <2>7 DEF AllClosed, StopPcs
      <3> QED
        BY <1>s, <2>7, <3>1, <3>2, RestStep DEF AllClosed
    <2> QED
      BY <1>5, <2>1, <2>2, <2>3, <2>4, <2>5, <2>6, <2>7 DEF ShutsDown
  <1>6. ASSUME NEW d \in Daemons, LoopSeesRequest(d) PROVE Rest'
    <2>1. PICK who \in Daemons \cup {"nobody", "operator"} :
            stoppedBy' = [stoppedBy EXCEPT ![d] = who]
      <3>1. (IF Asked(d) THEN d ELSE marker) \in Daemons \cup {"nobody", "operator"}
        <4>1. CASE d \in Tcp
          BY <1>s, <1>6, <4>1 DEF LoopSeesRequest, ShutdownRequested
        <4>2. CASE d \notin Tcp
          BY <1>6, <4>2 DEF LoopSeesRequest, Asked
        <4> QED
          BY <4>1, <4>2
      <3> QED
        BY <1>6, <3>1 DEF LoopSeesRequest
    <2> QED
      BY <1>s, <1>6, <2>1, RestStep DEF LoopSeesRequest, Pcs
  <1>7. ASSUME NEW d \in Daemons, ShutDownAtEnd(d) PROVE Rest'
    BY <1>s, <1>p, <1>7, RestStep DEF ShutDownAtEnd, Pcs, StopPcs
  <1>8. ASSUME NEW d \in Daemons, Vanish(d), UNCHANGED <<files, dropped>>,
               \/ UNCHANGED stoppedBy
               \/ \E who \in Daemons \cup {"nobody", "operator"} :
                    stoppedBy' = [stoppedBy EXCEPT ![d] = who]
        PROVE  Rest'
    <2>1. stop' \in [Daemons -> Stops] /\ bound' \subseteq Tcp
      BY <1>s, <1>8 DEF Vanish, NoStop, Stops, StopPcs
    <2> QED
      BY <1>s, <1>8, <2>1, RestStep DEF Vanish, Pcs
  <1>9. ASSUME NEW d \in Daemons, Exit(d) \/ ExitAtEnd(d) \/ Crash(d) PROVE Rest'
    BY <1>8, <1>9 DEF Exit, ExitAtEnd, Crash
  <1>10. CASE OperatorMarks
    BY <1>s, <1>10, RestStep DEF OperatorMarks
  <1> QED
    BY <1>1, <1>2, <1>3, <1>4, <1>5, <1>6, <1>7, <1>9, <1>10 DEF Next, Ends

TInv == IInv /\ Rest /\ Stored

LEMMA InitTInv == Init => TInv
PROOF
  <1> SUFFICES ASSUME Init PROVE TInv
    OBVIOUS
  <1>1. Rest
    BY DEF Init, Rest, NoStop, Stops, StopPcs
  <1>2. Stored
    BY StoreBounds, SameTables, StoreProofs!InitIInv DEF Init, Stored
  <1> QED
    BY <1>1, <1>2, InitIInv DEF TInv

LEMMA NextTInv == TInv /\ [Next]_vars => TInv'
PROOF
  <1> SUFFICES ASSUME TInv, [Next]_vars PROVE TInv'
    OBVIOUS
  <1>1. IInv'
    BY NextIInv DEF TInv
  <1>2. CASE Next
    <2>1. Rest'
      BY <1>2, RestKept DEF TInv
    <2>2. Stored'
      BY <1>2, StepsTransact, StoredKept DEF TInv
    <2> QED
      BY <1>1, <2>1, <2>2 DEF TInv
  <1>3. CASE UNCHANGED vars
    <2>1. Rest'
      BY <1>3 DEF TInv, Rest, vars, files, histories
    <2>2. Stored'
      BY <1>3, StoredKept DEF TInv, Transaction, vars, tables
    <2> QED
      BY <1>1, <2>1, <2>2 DEF TInv
  <1> QED
    BY <1>2, <1>3

LEMMA TInvTypes == TInv => TypeOK
PROOF
  <1> SUFFICES ASSUME TInv PROVE TypeOK
    OBVIOUS
  <1>1. Tables!TypeOK
    BY SameTables DEF TInv, Stored, StoreProofs!IInv
  <1> QED
    BY <1>1 DEF TInv, IInv, LiveInv, Typed, Rest, TypeOK

\* The tables that several daemons write, the files they share and what each has
\* in memory are always of their types; only a socket daemon gives a port.
THEOREM StateDirTypeOK == Spec => []TypeOK
PROOF
  BY InitTInv, NextTInv, TInvTypes, PTL DEF Spec

-----------------------------------------------------------------------------
(* What a stdio daemon closes *)

Settled(s) == ~IsOpen(s) /\ (s \notin dropped => Tables!ActiveCommands(s) = {})

\* The session that the shutdown of d has in hand, and the commands it has still
\* to cancel in it.
BeingClosed(d, s) ==
  /\ stop[d].session = s
  /\ stop[d].pc \in {"cancel", "finish"}
  /\ Tables!ActiveCommands(s) \subseteq stop[d].victims

\* A session that is being created has no commands, and is not running.
Fresh ==
  \A s \in Sessions : opening[s] # "none" =>
    session[s].status # "running" /\ Tables!ActiveCommands(s) = {}

\* No session of d gets out of its memory without being ended.
Handled(d) ==
  pc[d] # "gone" => \A s \in Owned(d) :
    \/ opening[s] = "row"
    \/ s \in live[d]
    \/ opening[s] = "none" /\ (Settled(s) \/ BeingClosed(d, s))

\* No session is in the making once d has been asked to stop, or has stopped
\* reading requests.
Quiet(d) ==
  Asked(d) \/ pc[d] \in {"final", "shutting"} => \A s \in Owned(d) : opening[s] = "none"

\* What the shutdown has collected is all there is to close.
Collected(d) ==
  /\ stop[d].pc \in {"close", "cancel", "finish", "done"} => live[d] \subseteq stop[d].todo
  /\ stop[d].pc = "done" => stop[d].todo = {}

Stopped(d) ==
  stoppedBy[d] = d =>
    \/ pc[d] = "final" /\ stop[d].pc = "done"
    \/ pc[d] = "gone" /\ \A s \in Owned(d) : Settled(s)

Closes(d) == Handled(d) /\ Quiet(d) /\ Collected(d) /\ Stopped(d)
Stdio == Daemons \ Tcp
AllClose == \A d \in Stdio : Closes(d)

CInv == TInv /\ Fresh /\ AllClose

\* What CInv needs of the types.
LEMMA CTypes ==
  ASSUME TInv
  PROVE  /\ Typed /\ LiveIsOwn /\ Rest
         /\ \A c \in Commands : Tables!IsActive(c) =>
              command[c].session \in Sessions /\ session[command[c].session].status # "absent"
         /\ \A d \in Daemons : Owned(d) \subseteq Sessions /\ stop[d] \in Stops
PROOF
  <1>1. Tables!TypeOK
    BY TInvTypes DEF TypeOK
  <1>2. \A c \in Commands : Tables!IsActive(c) =>
          command[c].session \in Sessions /\ session[command[c].session].status # "absent"
    BY <1>1 DEF Tables!TypeOK, Tables!IsActive, Tables!Progress
  <1>3. \A d \in Daemons : Owned(d) \subseteq Sessions /\ stop[d] \in Stops
    BY DEF TInv, Rest, Owned
  <1> QED
    BY <1>2, <1>3 DEF TInv, IInv, LiveInv

-----------------------------------------------------------------------------
\* The rows of s become no more active than they were.
Subsides(s) ==
  /\ IsOpen(s)' => IsOpen(s)
  /\ Tables!ActiveCommands(s)' \subseteq Tables!ActiveCommands(s)

LEMMA EndsSubside ==
  ASSUME Typed, SessionEnds, CommandEnds, NEW s \in Sessions
  PROVE  Subsides(s)
PROOF
  BY EndsKeepRows DEF Subsides

\* The main thread of d goes on through its start, if at all.
Starting(d) ==
  \/ pc'[d] = pc[d]
  \/ pc[d] \notin {"final", "gone"} /\ pc'[d] \notin {"final", "shutting", "gone"}

\* A step that leaves the shutdown of d, and the sessions it has to close, as they
\* are.
Undisturbed(d) ==
  /\ Starting(d)
  /\ live'[d] = live[d] /\ stop'[d] = stop[d] /\ stoppedBy'[d] = stoppedBy[d]
  /\ Owned(d)' = Owned(d)
  /\ \A s \in Owned(d) : opening'[s] = opening[s] /\ Subsides(s)
  /\ dropped \subseteq dropped'

LEMMA SettledStays ==
  ASSUME NEW s, Settled(s), Subsides(s), dropped \subseteq dropped'
  PROVE  Settled(s)'
PROOF
  BY DEF Settled, Subsides

LEMMA UndisturbedCloses ==
  ASSUME NEW d, Closes(d), Undisturbed(d)
  PROVE  Closes(d)'
PROOF
  <1>1. Handled(d)'
    <2> SUFFICES ASSUME pc'[d] # "gone", NEW s \in Owned(d)
                 PROVE  \/ opening'[s] = "row"
                        \/ s \in live'[d]
                        \/ opening'[s] = "none" /\ (Settled(s)' \/ BeingClosed(d, s)')
      BY DEF Handled, Undisturbed
    <2>1. /\ pc[d] # "gone" /\ Subsides(s) /\ opening'[s] = opening[s] /\ live'[d] = live[d]
          /\ stop'[d] = stop[d] /\ dropped \subseteq dropped'
      BY DEF Undisturbed, Starting
    <2>2. BeingClosed(d, s) => BeingClosed(d, s)'
      BY <2>1 DEF BeingClosed, Subsides
    <2> QED
      BY <2>1, <2>2, SettledStays DEF Closes, Handled
  <1>2. Quiet(d)'
    BY DEF Closes, Quiet, Asked, Undisturbed, Starting
  <1>3. Collected(d)'
    BY DEF Closes, Collected, Undisturbed
  <1>4. Stopped(d)'
    BY SettledStays DEF Closes, Stopped, Undisturbed, Starting
  <1> QED
    BY <1>1, <1>2, <1>3, <1>4 DEF Closes

\* What a step of d leaves alone of the other daemons.
Private(d) ==
  /\ \A x \in Daemons \ {d} :
       /\ pc'[x] = pc[x] /\ live'[x] = live[x] /\ stop'[x] = stop[x] /\ stoppedBy'[x] = stoppedBy[x]
       /\ Owned(x)' = Owned(x)
       /\ \A s \in Owned(x) : opening'[s] = opening[s]
  /\ dropped \subseteq dropped'

LEMMA CStep ==
  ASSUME CInv, TInv', NEW d \in Daemons, Private(d),
         \A x \in Daemons \ {d} : \A s \in Owned(x) : Subsides(s),
         Fresh', d \in Stdio => Closes(d)'
  PROVE  CInv'
PROOF
  <1>1. ASSUME NEW x \in Stdio, x # d PROVE Closes(x)'
    <2>1. Closes(x) /\ Undisturbed(x)
      BY <1>1 DEF CInv, AllClose, Stdio, Private, Undisturbed, Starting
    <2> QED
      BY <2>1, UndisturbedCloses
  <1>2. AllClose'
    BY <1>1 DEF AllClose, Stdio
  <1> QED
    BY <1>2 DEF CInv

\* A step of d that ends rows at most.
LEMMA CEndStep ==
  ASSUME CInv, TInv', NEW d \in Daemons, Private(d), SessionEnds, CommandEnds,
         \A s \in Sessions : opening'[s] # "none" => opening[s] # "none",
         d \in Stdio => Closes(d)'
  PROVE  CInv'
PROOF
  <1>1. \A s \in Sessions : Subsides(s)
    BY EndsSubside, CTypes DEF CInv
  <1>2. \A x \in Daemons : Owned(x) \subseteq Sessions
    BY DEF Owned
  <1>3. \A s \in Sessions : session'[s].status = "running" => session[s].status = "running"
    BY CTypes DEF CInv, SessionEnds, Typed
  <1>4. Fresh'
    BY <1>1, <1>3 DEF CInv, Fresh, Subsides
  <1> QED
    BY <1>1, <1>2, <1>4, CStep

\* Such a step leaves the shutdown of d alone as well.
LEMMA CQuietStep ==
  ASSUME CInv, TInv', NEW d \in Daemons, SessionEnds, CommandEnds,
         UNCHANGED <<live, stop, stoppedBy, owner, opening, dropped>>,
         \/ UNCHANGED pc
         \/ \E place \in Pcs \ {"final", "shutting", "gone"} :
              pc[d] \notin {"final", "gone"} /\ pc' = [pc EXCEPT ![d] = place]
  PROVE  CInv'
PROOF
  <1>1. pc \in [Daemons -> Pcs] /\ \A x \in Daemons : Owned(x) \subseteq Sessions
    BY CTypes DEF CInv, Typed
  <1>2. Private(d)
    BY <1>1 DEF Private, Owned
  <1>3. \A s \in Sessions : Subsides(s)
    BY EndsSubside, CTypes DEF CInv
  <1>4. Starting(d)
    BY <1>1 DEF Starting
  <1>5. Undisturbed(d)
    BY <1>1, <1>3, <1>4 DEF Undisturbed, Owned
  <1>6. d \in Stdio => Closes(d)'
    BY <1>5, UndisturbedCloses DEF CInv, AllClose
  <1> QED
    BY <1>2, <1>6, CEndStep

LEMMA CStarts ==
  ASSUME CInv, TInv', NEW d \in Daemons,
         Start(d) \/ StartUp(d) \/ (\E c \in Commands : EndCommand(d, c))
  PROVE  CInv'
PROOF
  <1>t. Typed /\ Rest
    BY CTypes DEF CInv
  <1> USE DEF tables, files, histories, Goto
  <1>1. CASE RecoverSession(d)
    <2>1. PICK s \in todo[d] : Tables!UpdateSession(s, "crashed", TRUE)
      BY <1>1 DEF RecoverSession
    <2>2. SessionEnds /\ CommandEnds
      BY <1>t, <2>1, EndSession DEF CommandEnds
    <2> QED
      BY <1>1, <2>2, CQuietStep DEF RecoverSession
  <1>2. CASE RecoverCommand(d)
    <2>1. PICK c \in todo[d] : Tables!FinishCommand(c, "failed")
      BY <1>2 DEF RecoverCommand
    <2>2. SessionEnds /\ CommandEnds
      BY <1>t, <2>1, EndCommandRow DEF SessionEnds
    <2> QED
      BY <1>2, <2>2, CQuietStep DEF RecoverCommand
  <1>3. ASSUME NEW c \in Commands, EndCommand(d, c) PROVE CInv'
    <2>1. Tables!FinishCommand(c, IF command[c].status = "queued" THEN "canceled" ELSE "completed")
      BY <1>3 DEF EndCommand
    <2>2. SessionEnds /\ CommandEnds
      BY <1>t, <2>1, EndCommandRow DEF SessionEnds
    <2> QED
      BY <1>3, <2>2, CQuietStep DEF EndCommand
  <1>4. CASE \/ Start(d) \/ ClearMarker(d) \/ WriteState(d) \/ ListSessions(d) \/ ListCommands(d)
             \/ Recovered(d) \/ Listen(d)
    <2>1. PICK place \in Pcs \ {"final", "shutting", "gone"} :
            /\ pc[d] \notin {"final", "gone"} /\ pc' = [pc EXCEPT ![d] = place]
            /\ UNCHANGED <<session, command, live, stop, stoppedBy, owner, opening, dropped>>
      BY <1>4 DEF Start, ClearMarker, WriteState, ListSessions, Lists, ListCommands, Recovered,
         Listen, Pcs
    <2>2. SessionEnds /\ CommandEnds
      BY <2>1 DEF SessionEnds, CommandEnds
    <2> QED
      BY <2>1, <2>2, CQuietStep
  <1> QED
    BY <1>1, <1>2, <1>3, <1>4 DEF StartUp

-----------------------------------------------------------------------------
\* A step of the service of d.
LEMMA CServeStep ==
  ASSUME CInv, TInv', NEW d \in Daemons, Alive(d), UNCHANGED <<pc, stop, stoppedBy>>,
         \A x \in Daemons \ {d} : /\ live'[x] = live[x] /\ Owned(x)' = Owned(x)
                                  /\ \A s \in Owned(x) : opening'[s] = opening[s] /\ Subsides(s),
         dropped \subseteq dropped', Fresh',
         d \in Stdio => Handled(d)' /\ Quiet(d)' /\ (Asked(d) => live'[d] \subseteq live[d])
  PROVE  CInv'
PROOF
  <1>1. Private(d)
    BY DEF Private
  <1>2. ASSUME d \in Stdio PROVE Closes(d)'
    <2>1. Collected(d) /\ Stopped(d) /\ stop'[d] = stop[d] /\ pc'[d] = pc[d] /\ pc[d] # "gone"
      BY <1>2 DEF CInv, AllClose, Closes, Alive
    <2>2. Collected(d)'
      BY <1>2, <2>1 DEF Collected, Asked
    <2>3. Stopped(d)'
      BY <2>1 DEF Stopped
    <2> QED
      BY <1>2, <2>2, <2>3 DEF Closes
  <1> QED
    BY <1>1, <1>2, CStep

\* One session of d goes a step on.
OneSession(d, s) ==
  /\ Alive(d) /\ UNCHANGED <<pc, stop, stoppedBy>> /\ dropped \subseteq dropped'
  /\ owner'[s] = d /\ \A x \in Daemons \ {d} : s \notin Owned(x)
  /\ live' = [live EXCEPT ![d] = live'[d]]
  /\ live'[d] \in {live[d], live[d] \cup {s}, live[d] \ {s}}
  /\ \A x \in Sessions \ {s} : /\ owner'[x] = owner[x] /\ opening'[x] = opening[x]
                              /\ session'[x] = session[x] /\ Subsides(x)
  /\ opening'[s] # "none" => session'[s].status # "running" /\ Tables!ActiveCommands(s)' = {}

\* What a stdio daemon makes sure of for that session.
StaysHandled(d, s) ==
  /\ opening'[s] = "row" \/ s \in live'[d] \/ (opening'[s] = "none" /\ Settled(s)')
  /\ Asked(d) => opening'[s] = "none" /\ live'[d] \subseteq live[d]
  /\ pc[d] \in {"final", "shutting"} => opening'[s] = "none"

LEMMA COneSession ==
  ASSUME CInv, TInv', NEW d \in Daemons, NEW s \in Sessions, OneSession(d, s),
         d \in Stdio => StaysHandled(d, s)
  PROVE  CInv'
PROOF
  <1> USE DEF OneSession, StaysHandled
  <1>t. Typed
    BY CTypes DEF CInv
  <1>1. \A x \in Daemons \ {d} :
          /\ live'[x] = live[x] /\ Owned(x)' = Owned(x)
          /\ \A y \in Owned(x) : opening'[y] = opening[y] /\ Subsides(y)
    BY <1>t DEF Owned, Typed
  <1>2. \A y \in Sessions : y \in Owned(d)' => y \in Owned(d) \/ y = s
    BY DEF Owned
  <1>3. Fresh'
    BY DEF CInv, Fresh, Subsides
  <1>4. ASSUME d \in Stdio PROVE Handled(d)' /\ Quiet(d)'
    <2>1. /\ Handled(d) /\ Quiet(d) /\ pc[d] # "gone" /\ stop'[d] = stop[d]
          /\ \A y \in Owned(d)' : y \in Sessions
      BY <1>4 DEF CInv, AllClose, Closes, Alive, Owned
    <2>2. ASSUME NEW y \in Owned(d)', y # s
          PROVE  \/ opening'[y] = "row" \/ y \in live'[d]
                 \/ opening'[y] = "none" /\ (Settled(y)' \/ BeingClosed(d, y)')
      <3>1. /\ opening'[y] = opening[y] /\ Subsides(y) /\ (y \in live[d] <=> y \in live'[d])
            /\ y \in Owned(d)
        BY <1>2, <2>1, <2>2
      <3>2. BeingClosed(d, y) => BeingClosed(d, y)'
        BY <2>1, <3>1 DEF BeingClosed, Subsides
      <3> QED
        BY <2>1, <3>1, <3>2, SettledStays DEF Handled
    <2>3. \/ opening'[s] = "row" \/ s \in live'[d]
          \/ opening'[s] = "none" /\ Settled(s)'
      BY <1>4
    <2>4. Handled(d)'
      BY <2>2, <2>3 DEF Handled
    <2>5. Quiet(d)'
      BY <1>2, <1>4, <2>1 DEF Quiet, Asked, Owned
    <2> QED
      BY <2>4, <2>5
  <1> QED
    BY <1>1, <1>3, <1>4, CServeStep

LEMMA CServes ==
  ASSUME CInv, TInv', NEW d \in Daemons, Serves(d)
  PROVE  CInv'
PROOF
  <1>t. /\ Typed /\ LiveIsOwn /\ Rest /\ Fresh
        /\ \A c \in Commands : Tables!IsActive(c) => session[command[c].session].status # "absent"
        /\ d \in Stdio => Handled(d) /\ Quiet(d)
    BY CTypes DEF CInv, AllClose, Closes
  <1>q. d \in Stdio => \A s \in Sessions : owner[s] = d /\ opening[s] # "none" =>
          ~Asked(d) /\ pc[d] \notin {"final", "shutting"}
    BY <1>t DEF Quiet, Owned
  <1>r. ASSUME d \in Stdio, TakesRequests(d) PROVE ~Asked(d) /\ pc[d] \notin {"final", "shutting"}
    BY <1>r DEF TakesRequests, Stdio
  <1> USE DEF tables, files, histories
  <1>1. ASSUME NEW s \in Sessions, OpenSession(d, s) PROVE CInv'
    <2>1. /\ TakesRequests(d) /\ session[s].status = "absent"
          /\ session' = [session EXCEPT ![s] = [status |-> "starting", closedAt |-> FALSE]]
          /\ owner' = [owner EXCEPT ![s] = d] /\ opening' = [opening EXCEPT ![s] = "row"]
          /\ UNCHANGED <<command, pc, stop, stoppedBy, live, dropped>>
      BY <1>1 DEF OpenSession, Tables!CreateSession
    <2>2. Alive(d)
      BY <2>1 DEF Alive, TakesRequests
    <2>3. \A x \in Sessions : Tables!ActiveCommands(x)' = Tables!ActiveCommands(x)
      BY <2>1 DEF Tables!ActiveCommands, Tables!IsActive
    <2>4. Tables!ActiveCommands(s) = {}
      BY <1>t, <2>1 DEF Tables!ActiveCommands
    <2>5. \A x \in Sessions \ {s} : opening'[x] = opening[x] /\ Subsides(x) /\ session'[x] = session[x]
      BY <1>t, <2>1, <2>3 DEF Subsides, IsOpen, Typed
    <2>6. /\ opening'[s] = "row" /\ session'[s].status = "starting" /\ owner'[s] = d
          /\ \A x \in Sessions \ {s} : owner'[x] = owner[x]
          /\ \A x \in Daemons : s \notin Owned(x)
      BY <1>t, <2>1 DEF Typed, LiveIsOwn, Owned
    <2>7. d \in Stdio => ~Asked(d) /\ pc[d] \notin {"final", "shutting"}
      BY <1>r, <2>1
    <2>8. live' = [live EXCEPT ![d] = live'[d]] /\ live'[d] = live[d]
      BY <1>t, <2>1 DEF Typed
    <2>9. OneSession(d, s)
      BY <2>1, <2>2, <2>3, <2>4, <2>5, <2>6, <2>7, <2>8 DEF OneSession
    <2>10. d \in Stdio => StaysHandled(d, s)
      BY <2>1, <2>2, <2>3, <2>4, <2>5, <2>6, <2>7, <2>8 DEF StaysHandled
    <2> QED
      BY <2>9, <2>10, COneSession
  <1>2. ASSUME NEW s \in Sessions, Adopt(d, s) PROVE CInv'
    <2>1. /\ Alive(d) /\ owner[s] = d /\ opening[s] = "row"
          /\ live' = [live EXCEPT ![d] = @ \cup {s}] /\ opening' = [opening EXCEPT ![s] = "object"]
          /\ UNCHANGED <<session, command, pc, stop, stoppedBy, owner, dropped>>
      BY <1>2 DEF Adopt
    <2>2. \A x \in Sessions : /\ Tables!ActiveCommands(x)' = Tables!ActiveCommands(x)
                             /\ IsOpen(x)' = IsOpen(x)
      BY <2>1 DEF Tables!ActiveCommands, Tables!IsActive, IsOpen
    <2>3. session[s].status # "running" /\ Tables!ActiveCommands(s) = {}
      BY <1>t, <2>1 DEF Fresh
    <2>4. \A x \in Sessions \ {s} : opening'[x] = opening[x] /\ Subsides(x) /\ session'[x] = session[x]
      BY <1>t, <2>1, <2>2 DEF Subsides, Typed
    <2>5. d \in Stdio => ~Asked(d) /\ pc[d] \notin {"final", "shutting"}
      BY <1>q, <2>1
    <2>6. /\ live' = [live EXCEPT ![d] = live'[d]] /\ live'[d] = live[d] \cup {s}
          /\ \A x \in Daemons \ {d} : s \notin Owned(x)
      BY <1>t, <2>1 DEF Typed, Owned
    <2>7. OneSession(d, s)
      BY <2>1, <2>2, <2>3, <2>4, <2>5, <2>6 DEF OneSession
    <2>8. d \in Stdio => StaysHandled(d, s)
      BY <2>1, <2>2, <2>3, <2>4, <2>5, <2>6 DEF StaysHandled
    <2> QED
      BY <2>7, <2>8, COneSession
  <1>3. ASSUME NEW s \in Sessions, SetRunning(d, s) PROVE CInv'
    <2>1. /\ Alive(d) /\ owner[s] = d /\ opening[s] = "object"
          /\ opening' = [opening EXCEPT ![s] = "none"]
          /\ UNCHANGED <<command, live, pc, stop, stoppedBy, owner, dropped>>
          /\ \E row : session' = [session EXCEPT ![s] = row]
      BY <1>3 DEF SetRunning, Tables!UpdateSession
    <2>2. \A x \in Sessions \ {s} : opening'[x] = opening[x] /\ Subsides(x) /\ session'[x] = session[x]
      BY <1>t, <2>1 DEF Subsides, IsOpen, Tables!ActiveCommands, Tables!IsActive, Typed
    <2>3. /\ live' = [live EXCEPT ![d] = live'[d]] /\ live'[d] = live[d] /\ opening'[s] = "none"
          /\ \A x \in Daemons \ {d} : s \notin Owned(x)
      BY <1>t, <2>1 DEF Typed, Owned
    <2>4. d \in Stdio => s \in live[d]
      BY <1>t, <2>1 DEF Handled, Owned, Alive
    <2>5. OneSession(d, s)
      BY <2>1, <2>2, <2>3, <2>4 DEF OneSession
    <2>6. d \in Stdio => StaysHandled(d, s)
      BY <2>1, <2>2, <2>3, <2>4 DEF StaysHandled
    <2> QED
      BY <2>5, <2>6, COneSession
  <1>4. ASSUME NEW s \in Sessions, CreateFails(d, s) PROVE CInv'
    <2>1. /\ Alive(d) /\ owner[s] = d /\ opening[s] = "row" /\ Tables!UpdateSession(s, "crashed", TRUE)
          /\ opening' = [opening EXCEPT ![s] = "none"]
          /\ UNCHANGED <<command, live, pc, stop, stoppedBy, owner, dropped>>
      BY <1>4 DEF CreateFails, Tables!UpdateSession
    <2>2. SessionEnds /\ CommandEnds /\ ~IsOpen(s)'
      BY <1>t, <2>1, EndSession DEF CommandEnds
    <2>3. \A x \in Sessions \ {s} : opening'[x] = opening[x] /\ Subsides(x) /\ session'[x] = session[x]
      BY <1>t, <2>1, <2>2, EndsSubside DEF Typed, Tables!UpdateSession
    <2>4. /\ live' = [live EXCEPT ![d] = live'[d]] /\ live'[d] = live[d] /\ opening'[s] = "none"
          /\ \A x \in Daemons \ {d} : s \notin Owned(x)
      BY <1>t, <2>1 DEF Typed, Owned
    <2>5. Tables!ActiveCommands(s)' = {}
      BY <1>t, <2>1 DEF Fresh, Tables!ActiveCommands, Tables!IsActive
    <2>6. Settled(s)'
      BY <2>2, <2>5 DEF Settled
    <2>7. OneSession(d, s)
      BY <2>1, <2>2, <2>3, <2>4, <2>5, <2>6 DEF OneSession
    <2>8. d \in Stdio => StaysHandled(d, s)
      BY <2>1, <2>2, <2>3, <2>4, <2>5, <2>6 DEF StaysHandled
    <2> QED
      BY <2>7, <2>8, COneSession
  <1>5. ASSUME NEW s \in Sessions, GiveUp(d, s) PROVE CInv'
    <2>1. /\ Alive(d) /\ s \in live[d] /\ Tables!UpdateSession(s, "closed", TRUE)
          /\ Tables!ActiveCommands(s) # {}
          /\ live' = [live EXCEPT ![d] = @ \ {s}] /\ dropped' = dropped \cup {s}
          /\ UNCHANGED <<command, opening, pc, stop, stoppedBy, owner>>
      BY <1>5 DEF GiveUp, Tables!UpdateSession
    <2>2. SessionEnds /\ CommandEnds /\ ~IsOpen(s)'
      BY <1>t, <2>1, EndSession DEF CommandEnds
    <2>3. \A x \in Sessions \ {s} : opening'[x] = opening[x] /\ Subsides(x) /\ session'[x] = session[x]
      BY <1>t, <2>1, <2>2, EndsSubside DEF Typed, Tables!UpdateSession
    <2>4. /\ live' = [live EXCEPT ![d] = live'[d]] /\ live'[d] = live[d] \ {s} /\ owner[s] = d
          /\ \A x \in Daemons \ {d} : s \notin Owned(x)
      BY <1>t, <2>1 DEF Typed, Owned, LiveIsOwn
    <2>5. opening'[s] = "none"
      BY <1>t, <2>1 DEF Fresh
    <2>6. Settled(s)'
      BY <2>1, <2>2 DEF Settled
    <2>7. OneSession(d, s)
      BY <2>1, <2>2, <2>3, <2>4, <2>5, <2>6 DEF OneSession
    <2>8. d \in Stdio => StaysHandled(d, s)
      BY <2>1, <2>2, <2>3, <2>4, <2>5, <2>6 DEF StaysHandled
    <2> QED
      BY <2>7, <2>8, COneSession
  <1>6. ASSUME NEW c \in Commands, NEW s \in live[d], Alive(d), opening[s] = "none",
               NEW row, row.session = s, command' = [command EXCEPT ![c] = row],
               UNCHANGED <<session, live, opening, pc, stop, stoppedBy, owner, dropped>>,
               command[c].session = s \/ ~Tables!IsActive(c)
        PROVE  CInv'
    <2>1. s \in Sessions /\ owner[s] = d /\ \A x \in Daemons \ {d} : s \notin Owned(x)
      BY <1>t DEF Typed, LiveIsOwn, Owned
    <2>2. \A x \in Sessions \ {s} : Subsides(x)
      BY <1>t, <1>6 DEF Subsides, IsOpen, Tables!ActiveCommands, Tables!IsActive, Typed
    <2>3. live' = [live EXCEPT ![d] = live'[d]] /\ live'[d] = live[d] /\ opening'[s] = "none"
      BY <1>t, <1>6 DEF Typed
    <2>4. OneSession(d, s)
      BY <1>6, <2>1, <2>2, <2>3 DEF OneSession
    <2>5. d \in Stdio => StaysHandled(d, s)
      BY <1>6, <2>1, <2>2, <2>3 DEF StaysHandled
    <2> QED
      BY <2>1, <2>4, <2>5, COneSession
  <1>7. ASSUME NEW c \in Commands, StartCommand(d, c) PROVE CInv'
    <2>1. PICK s \in live[d] :
            /\ session[s].status = "running" /\ command[c].status = "absent"
            /\ command' = [command EXCEPT ![c] =
                             [status |-> "queued", endedAt |-> FALSE, session |-> s]]
      BY <1>7 DEF StartCommand, Tables!CreateCommand
    <2>2. /\ Alive(d)
          /\ UNCHANGED <<session, live, opening, pc, stop, stoppedBy, owner, dropped>>
      BY <1>7 DEF StartCommand, Tables!CreateCommand, TakesRequests, Alive
    <2>3. opening[s] = "none" /\ ~Tables!IsActive(c)
      BY <1>t, <2>1 DEF Fresh, Typed, Tables!IsActive, Tables!Progress
    <2> QED
      BY <1>6, <2>1, <2>2, <2>3
  <1>8. ASSUME NEW c \in Commands, NEW st \in Tables!Progress, Progress(d, c, st) PROVE CInv'
    <2>1. /\ Alive(d) /\ command[c].session \in live[d] /\ command[c].status \in {"queued", "starting"}
          /\ command' = [command EXCEPT ![c] = [status |-> st, endedAt |-> command[c].endedAt,
                                                session |-> command[c].session]]
          /\ UNCHANGED <<session, live, opening, pc, stop, stoppedBy, owner, dropped>>
      BY <1>8 DEF Progress, Tables!UpdateCommand
    <2>2. c \in Tables!ActiveCommands(command[c].session)
      BY <2>1 DEF Tables!ActiveCommands, Tables!IsActive, Tables!Progress
    <2>3. opening[command[c].session] = "none"
      BY <1>t, <2>1, <2>2 DEF Fresh, Typed
    <2> QED
      BY <1>6, <2>1, <2>3
  <1>9. ASSUME NEW c \in Commands, EndCommand(d, c) PROVE CInv'
    BY <1>9, CStarts
  <1> QED
    BY <1>1, <1>2, <1>3, <1>4, <1>5, <1>7, <1>8, <1>9 DEF Serves

-----------------------------------------------------------------------------
\* A step of the shutdown of d, which moves sessions from its memory to its hand,
\* and ends there what it has in hand.
HandsOver(d, s) ==
  /\ s \in live[d] => s \in live'[d] \/ BeingClosed(d, s)'
  /\ BeingClosed(d, s) => BeingClosed(d, s)' \/ Settled(s)'

ShutStep(d) ==
  /\ Alive(d) /\ UNCHANGED <<pc, stoppedBy, owner, opening, dropped>>
  /\ stop' = [stop EXCEPT ![d] = stop'[d]]
  /\ live' = [live EXCEPT ![d] = live'[d]]
  /\ SessionEnds /\ CommandEnds

LEMMA CShutStep ==
  ASSUME CInv, TInv', NEW d \in Daemons, ShutStep(d),
         d \in Stdio =>
           /\ \/ stop[d].pc \notin {"no", "done"}
              \/ pc[d] = "serving" /\ \A s \in Owned(d) : opening[s] = "none"
           /\ Collected(d)' /\ \A s \in Owned(d) : HandsOver(d, s)
  PROVE  CInv'
PROOF
  <1> USE DEF ShutStep
  <1>t. Typed /\ Rest
    BY CTypes DEF CInv
  <1>1. Private(d)
    BY <1>t DEF Private, Owned, Typed, Rest
  <1>2. ASSUME d \in Stdio PROVE Closes(d)'
    <2>1. /\ Handled(d) /\ Quiet(d) /\ Stopped(d) /\ pc[d] # "gone" /\ Owned(d)' = Owned(d)
          /\ Owned(d) \subseteq Sessions
      BY <1>2 DEF CInv, AllClose, Closes, Alive, Owned
    <2>2. \A s \in Owned(d) : opening'[s] = "none"
      BY <1>2, <2>1 DEF Quiet, Asked
    <2>3. ASSUME NEW s \in Owned(d)
          PROVE  s \in live'[d] \/ Settled(s)' \/ BeingClosed(d, s)'
      <3>1. Settled(s) => Settled(s)'
        BY <1>t, <2>1, EndsSubside, SettledStays
      <3>2. s \in live[d] \/ Settled(s) \/ BeingClosed(d, s)
        BY <2>1, <2>2 DEF Handled
      <3> QED
        BY <1>2, <3>1, <3>2 DEF HandsOver
    <2>4. Handled(d)'
      BY <2>1, <2>2, <2>3 DEF Handled
    <2>5. Quiet(d)'
      BY <2>1, <2>2 DEF Quiet
    <2>6. Stopped(d)'
      BY <1>2, <2>1 DEF Stopped
    <2> QED
      BY <1>2, <2>4, <2>5, <2>6 DEF Closes
  <1> QED
    BY <1>1, <1>2, CEndStep

LEMMA CShutsDown ==
  ASSUME CInv, TInv', NEW d \in Daemons, RequestShutdown(d) \/ ShutsDown(d)
  PROVE  CInv'
PROOF
  <1>t. Typed /\ Rest /\ stop[d] \in Stops
    BY CTypes DEF CInv
  <1>c. d \in Stdio => Collected(d)
    BY DEF CInv, AllClose, Closes
  <1> USE DEF tables, files, histories
  <1>1. ASSUME NEW to \in {"mark", "collect", "done"}, StopGoto(d, to), Alive(d),
               UNCHANGED <<session, command, pc, live, stoppedBy, owner, opening, dropped>>,
               stop[d].pc \notin {"cancel", "finish"}, to = "done" => stop[d].todo = {} /\ stop[d].pc = "close",
               d \in Stdio =>
                 \/ stop[d].pc \notin {"no", "done"}
                 \/ pc[d] = "serving" /\ \A s \in Owned(d) : opening[s] = "none"
        PROVE  CInv'
    <2>1. stop' = [stop EXCEPT ![d] = stop'[d]] /\ stop'[d] = [stop[d] EXCEPT !.pc = to]
      BY <1>t, <1>1 DEF StopGoto, Rest
    <2>2. ShutStep(d)
      BY <1>t, <1>1, <2>1 DEF ShutStep, SessionEnds, CommandEnds, Typed
    <2>3. d \in Stdio => Collected(d)'
      BY <1>c, <1>t, <1>1, <2>1 DEF Collected, Stops
    <2>4. \A s \in Owned(d) : HandsOver(d, s)
      BY <1>1 DEF HandsOver, BeingClosed
    <2> QED
      BY <1>1, <2>2, <2>3, <2>4, CShutStep
  <1>2. CASE RequestShutdown(d)
    BY <1>1, <1>2 DEF RequestShutdown, Asked, TakesRequests, Alive, Stdio
  <1>3. CASE WriteMarker(d)
    BY <1>1, <1>3 DEF WriteMarker
  <1>4. CASE AllClosed(d)
    BY <1>1, <1>4 DEF AllClosed
  <1>5. CASE CollectLive(d)
    <2>1. /\ stop' = [stop EXCEPT ![d] = stop'[d]] /\ stop'[d].pc = "close" /\ stop'[d].todo = live[d]
          /\ Alive(d) /\ stop[d].pc = "collect"
          /\ UNCHANGED <<session, command, pc, live, stoppedBy, owner, opening, dropped>>
      BY <1>5, <1>t DEF CollectLive, NoStop, Rest
    <2>2. ShutStep(d)
      BY <1>t, <2>1 DEF ShutStep, SessionEnds, CommandEnds, Typed
    <2>3. Collected(d)'
      BY <2>1 DEF Collected
    <2>4. \A s \in Owned(d) : HandsOver(d, s)
      BY <2>1 DEF HandsOver, BeingClosed
    <2> QED
      BY <2>1, <2>2, <2>3, <2>4, CShutStep
  <1>6. CASE TakeSession(d)
    <2>1. PICK s \in stop[d].todo :
            /\ live' = [live EXCEPT ![d] = @ \ {s}]
            /\ stop' = [stop EXCEPT ![d] =
                          [NoStop EXCEPT !.pc = "cancel", !.todo = stop[d].todo \ {s}, !.session = s,
                             !.victims = [x \in Sessions |-> Tables!ActiveCommands(x)][s]]]
      BY <1>6 DEF TakeSession, Takes
    <2>2. /\ Alive(d) /\ stop[d].pc = "close" /\ s \in Sessions
          /\ UNCHANGED <<session, command, pc, stoppedBy, owner, opening, dropped>>
      BY <1>t, <1>6 DEF TakeSession, Takes, Stops
    <2>3. /\ stop' = [stop EXCEPT ![d] = stop'[d]] /\ live' = [live EXCEPT ![d] = live'[d]]
          /\ stop'[d].pc = "cancel" /\ stop'[d].todo = stop[d].todo \ {s} /\ stop'[d].session = s
          /\ stop'[d].victims = Tables!ActiveCommands(s) /\ live'[d] = live[d] \ {s}
      BY <1>t, <2>1, <2>2 DEF NoStop, Rest, Typed
    <2>4. ShutStep(d)
      BY <2>2, <2>3 DEF ShutStep, SessionEnds, CommandEnds
    <2>5. d \in Stdio => Collected(d)'
      BY <1>c, <2>2, <2>3 DEF Collected
    <2>6. BeingClosed(d, s)'
      BY <2>2, <2>3 DEF BeingClosed, Tables!ActiveCommands, Tables!IsActive
    <2>7. \A x \in Owned(d) : HandsOver(d, x)
      BY <2>2, <2>3, <2>6 DEF HandsOver, BeingClosed
    <2> QED
      BY <2>2, <2>4, <2>5, <2>7, CShutStep
  <1>7. CASE MarkClosed(d)
    <2>1. /\ Alive(d) /\ stop[d].pc = "cancel" /\ Tables!UpdateSession(stop[d].session, "closed", TRUE)
          /\ stop' = [stop EXCEPT ![d].pc = "finish"]
          /\ UNCHANGED <<command, pc, live, stoppedBy, owner, opening, dropped>>
      BY <1>7 DEF MarkClosed, StopGoto, Tables!UpdateSession
    <2>2. SessionEnds /\ CommandEnds
      BY <1>t, <2>1, EndSession DEF CommandEnds
    <2>3. /\ stop' = [stop EXCEPT ![d] = stop'[d]] /\ live' = [live EXCEPT ![d] = live'[d]]
          /\ stop'[d] = [stop[d] EXCEPT !.pc = "finish"]
      BY <1>t, <2>1 DEF Rest, Typed
    <2>4. ShutStep(d)
      BY <2>1, <2>2, <2>3 DEF ShutStep
    <2>5. d \in Stdio => Collected(d)'
      BY <1>c, <1>t, <2>1, <2>3 DEF Collected, Stops
    <2>6. \A s \in Owned(d) : HandsOver(d, s)
      BY <1>t, <2>1, <2>3 DEF HandsOver, BeingClosed, Stops, Tables!ActiveCommands, Tables!IsActive
    <2> QED
      BY <2>1, <2>4, <2>5, <2>6, CShutStep
  <1>8. CASE CancelCommand(d)
    <2>1. PICK c \in stop[d].victims :
            /\ Tables!FinishCommand(c, "canceled")
            /\ stop' = [stop EXCEPT ![d].pc = "cancel", ![d].victims = @ \ {c}]
      BY <1>8 DEF CancelCommand
    <2>2. /\ Alive(d) /\ stop[d].pc = "finish" /\ c \in Commands
          /\ UNCHANGED <<pc, live, stoppedBy, owner, opening, dropped>>
      BY <1>t, <1>8 DEF CancelCommand, Stops
    <2>3. SessionEnds /\ CommandEnds /\ ~Tables!IsActive(c)'
      BY <1>t, <2>1, <2>2, EndCommandRow DEF SessionEnds
    <2>4. /\ stop' = [stop EXCEPT ![d] = stop'[d]] /\ live' = [live EXCEPT ![d] = live'[d]]
          /\ stop'[d] = [stop[d] EXCEPT !.pc = "cancel", !.victims = stop[d].victims \ {c}]
      BY <1>t, <2>1, <2>2 DEF Rest, Typed
    <2>5. ShutStep(d)
      BY <2>2, <2>3, <2>4 DEF ShutStep
    <2>6. d \in Stdio => Collected(d)'
      BY <1>c, <1>t, <2>2, <2>4 DEF Collected, Stops
    <2>7. ASSUME NEW s \in Owned(d) PROVE HandsOver(d, s)
      <3>1. Tables!ActiveCommands(s)' \subseteq Tables!ActiveCommands(s) \ {c}
        BY <1>t, <2>3, EndsKeepRows DEF Tables!ActiveCommands, Owned
      <3> QED
        BY <1>t, <2>2, <2>4, <3>1 DEF HandsOver, BeingClosed, Stops
    <2> QED
      BY <2>2, <2>5, <2>6, <2>7, CShutStep
  <1>9. CASE SessionClosed(d)
    <2>1. /\ Alive(d) /\ stop[d].pc = "cancel" /\ stop[d].victims = {}
          /\ Tables!UpdateSession(stop[d].session, "closed", TRUE)
          /\ stop' = [stop EXCEPT ![d].pc = "close", ![d].session = NoSession]
          /\ UNCHANGED <<command, pc, live, stoppedBy, owner, opening, dropped>>
      BY <1>9 DEF SessionClosed, Tables!UpdateSession
    <2>2. SessionEnds /\ CommandEnds
      BY <1>t, <2>1, EndSession DEF CommandEnds
    <2>3. /\ stop' = [stop EXCEPT ![d] = stop'[d]] /\ live' = [live EXCEPT ![d] = live'[d]]
          /\ stop'[d].pc = "close" /\ stop'[d].todo = stop[d].todo
      <3>1. stop \in [Daemons -> Stops] /\ live \in [Daemons -> SUBSET Sessions]
        BY <1>t DEF Rest, Typed
      <3>2. stop' = [stop EXCEPT ![d] = [stop[d] EXCEPT !.pc = "close", !.session = NoSession]]
        BY <2>1, <3>1
      <3>3. stop'[d] = [stop[d] EXCEPT !.pc = "close", !.session = NoSession]
        BY <3>1, <3>2
      <3>4. stop[d] \in [pc : StopPcs, todo : SUBSET Sessions,
                       session : Sessions \cup {NoSession}, victims : SUBSET Commands]
        BY <1>t DEF Stops
      <3> QED
        BY <2>1, <3>1, <3>2, <3>3, <3>4
    <2>4. ShutStep(d)
      BY <2>1, <2>2, <2>3 DEF ShutStep
    <2>5. d \in Stdio => Collected(d)'
      BY <1>c, <2>1, <2>3 DEF Collected
    <2>6. ASSUME NEW s \in Owned(d) PROVE HandsOver(d, s)
      <3>1. ASSUME BeingClosed(d, s) PROVE Settled(s)'
        <4>1. s \in Sessions /\ s = stop[d].session /\ Tables!ActiveCommands(s) = {}
          BY <2>1, <3>1 DEF BeingClosed, Owned
        <4>2. ~IsOpen(s)'
          <5>1. session' = [session EXCEPT ![s] = [status |-> "closed", closedAt |-> session[s].closedAt \/ TRUE]]
            BY <2>1, <4>1 DEF Tables!UpdateSession
          <5> QED
            BY <1>t, <4>1, <5>1 DEF IsOpen, Open, Typed
        <4>3. Tables!ActiveCommands(s)' = {}
          BY <2>1, <4>1 DEF Tables!ActiveCommands, Tables!IsActive
        <4> QED
          BY <4>2, <4>3 DEF Settled
      <3> QED
        BY <2>1, <3>1 DEF HandsOver
    <2> QED
      BY <2>1, <2>4, <2>5, <2>6, CShutStep
  <1> QED
    BY <1>2, <1>3, <1>4, <1>5, <1>6, <1>7, <1>8, <1>9 DEF ShutsDown

-----------------------------------------------------------------------------
\* The process of d ends: it is at the end of its shutdown if it did that itself.
LEMMA CVanishes ==
  ASSUME CInv, TInv', NEW d \in Daemons, Alive(d), Vanish(d),
         UNCHANGED <<session, command, owner, dropped>>,
         NEW who, stoppedBy' = [stoppedBy EXCEPT ![d] = who],
         d \in Stdio /\ who = d => stop[d].pc = "done" /\ pc[d] \in {"final", "shutting"}
  PROVE  CInv'
PROOF
  <1>t. Typed /\ Rest
    BY CTypes DEF CInv
  <1>1. /\ pc' = [pc EXCEPT ![d] = "gone"] /\ live' = [live EXCEPT ![d] = {}]
        /\ stop' = [stop EXCEPT ![d] = NoStop]
        /\ opening' = [s \in Sessions |-> IF owner[s] = d THEN "none" ELSE opening[s]]
    BY DEF Vanish, Goto
  <1>2. SessionEnds /\ CommandEnds /\ \A s \in Sessions : opening'[s] # "none" => opening[s] # "none"
    BY <1>1 DEF SessionEnds, CommandEnds
  <1>3. Private(d)
    BY <1>t, <1>1 DEF Private, Owned, Typed, Rest
  <1>4. ASSUME d \in Stdio PROVE Closes(d)'
    <2>1. /\ pc'[d] = "gone" /\ stop'[d] = NoStop /\ live'[d] = {} /\ stoppedBy'[d] = who
          /\ Owned(d)' = Owned(d) /\ Owned(d) \subseteq Sessions
      BY <1>t, <1>1 DEF Typed, Rest, Owned
    <2>2. ASSUME who = d, NEW s \in Owned(d) PROVE Settled(s)'
      <3>1. opening[s] = "none" /\ s \notin live[d] /\ ~BeingClosed(d, s) /\ pc[d] # "gone"
        BY <1>4, <2>2 DEF CInv, AllClose, Closes, Quiet, Collected, BeingClosed
      <3>2. Settled(s)
        BY <1>4, <3>1 DEF CInv, AllClose, Closes, Handled
      <3>3. Subsides(s)
        BY <1>t, <1>2, <2>1, EndsSubside
      <3> QED
        BY <3>2, <3>3, SettledStays
    <2>3. Handled(d)' /\ Quiet(d)' /\ Collected(d)'
      BY <2>1 DEF Handled, Quiet, Collected, Asked, NoStop
    <2>4. Stopped(d)'
      BY <2>1, <2>2 DEF Stopped
    <2> QED
      BY <2>3, <2>4 DEF Closes
  <1> QED
    BY <1>2, <1>3, <1>4, CEndStep

LEMMA CEnds ==
  ASSUME CInv, TInv', NEW d \in Daemons,
         BindFails(d) \/ LoopEnds(d) \/ Ends(d) \/ Crash(d)
  PROVE  CInv'
PROOF
  <1>t. Typed /\ Rest
    BY CTypes DEF CInv
  <1>c. d \in Stdio => Closes(d)
    BY DEF CInv, AllClose
  <1> USE DEF tables, files, histories, Goto
  <1>1. ASSUME NEW place \in {"final", "shutting"}, pc' = [pc EXCEPT ![d] = place],
               UNCHANGED <<session, command, live, owner, opening, dropped>>,
               stop' = [stop EXCEPT ![d] = stop'[d]], stop'[d].pc \in {stop[d].pc, "mark"},
               stop'[d].todo = stop[d].todo, stop'[d].session = stop[d].session,
               stop'[d].victims = stop[d].victims,
               NEW who, stoppedBy' = [stoppedBy EXCEPT ![d] = who],
               d \in Stdio =>
                 /\ stop[d].pc \in {"no", "done"} /\ pc[d] # "gone"
                 /\ \A s \in Owned(d) : opening[s] = "none"
                 /\ who = d => place = "final" /\ stop'[d].pc = "done"
        PROVE  CInv'
    <2>1. SessionEnds /\ CommandEnds /\ \A s \in Sessions : opening'[s] # "none" => opening[s] # "none"
      BY <1>1 DEF SessionEnds, CommandEnds
    <2>2. Private(d)
      BY <1>t, <1>1 DEF Private, Owned, Typed, Rest
    <2>3. ASSUME d \in Stdio PROVE Closes(d)'
      <3>1. /\ pc'[d] = place /\ stoppedBy'[d] = who /\ Owned(d)' = Owned(d) /\ Owned(d) \subseteq Sessions
        BY <1>t, <1>1 DEF Typed, Rest, Owned
      <3>2. ASSUME NEW s \in Owned(d) PROVE opening'[s] = "none" /\ (s \in live'[d] \/ Settled(s)')
        <4>1. opening[s] = "none" /\ ~BeingClosed(d, s)
          BY <1>1, <2>3 DEF BeingClosed
        <4>2. s \in live[d] \/ Settled(s)
          BY <1>1, <1>c, <2>3, <4>1 DEF Closes, Handled
        <4> QED
          BY <1>1, <1>t, <2>1, <3>1, <4>1, <4>2, EndsSubside, SettledStays
      <3>3. Handled(d)' /\ Quiet(d)'
        BY <3>1, <3>2 DEF Handled, Quiet
      <3>4. Collected(d)'
        BY <1>1, <1>c, <2>3 DEF Closes, Collected
      <3>5. Stopped(d)'
        BY <1>1, <2>3, <3>1 DEF Stopped
      <3> QED
        BY <3>3, <3>4, <3>5 DEF Closes
    <2> QED
      BY <2>1, <2>2, <2>3, CEndStep
  <1>s. /\ stop = [stop EXCEPT ![d] = stop[d]]
        /\ stoppedBy = [stoppedBy EXCEPT ![d] = stoppedBy[d]]
        /\ stop[d] \in Stops
    BY <1>t DEF Rest
  <1>2. CASE BindFails(d)
    <2>1. d \notin Stdio
      BY <1>2, <1>t DEF BindFails, Rest, Stdio
    <2> QED
      BY <1>1, <1>2, <1>s, <2>1 DEF BindFails
  <1>3. CASE LoopEnds(d)
    <2>1. ASSUME d \in Stdio
          PROVE  /\ stop[d].pc = "no" /\ pc[d] = "serving" /\ stoppedBy[d] # d
                 /\ \A s \in Owned(d) : opening[s] = "none"
      BY <1>3, <1>c, <2>1 DEF LoopEnds, TakesRequests, Asked, Closes, Stopped, Stdio
    <2> QED
      BY <1>1, <1>3, <1>s, <2>1 DEF LoopEnds
  <1>4. CASE LoopSeesRequest(d)
    <2>1. ASSUME d \in Stdio
          PROVE  /\ stop[d].pc = "done" /\ pc[d] = "serving"
                 /\ \A s \in Owned(d) : opening[s] = "none"
      BY <1>4, <1>c, <2>1 DEF LoopSeesRequest, Asked, Closes, Quiet, Stdio
    <2> QED
      BY <1>1, <1>4, <1>s, <2>1 DEF LoopSeesRequest
  <1>5. CASE ShutDownAtEnd(d)
    <2>1. /\ pc[d] = "final" /\ stop[d].pc = "no" /\ stop' = [stop EXCEPT ![d].pc = "mark"]
          /\ pc' = [pc EXCEPT ![d] = "shutting"]
          /\ UNCHANGED <<session, command, live, owner, opening, dropped, stoppedBy>>
      BY <1>5 DEF ShutDownAtEnd, ShutdownRequested, Asked, StopGoto
    <2>2. stop' = [stop EXCEPT ![d] = stop'[d]] /\ stop'[d] = [stop[d] EXCEPT !.pc = "mark"]
      BY <1>s, <2>1, <1>t DEF Rest
    <2>3. /\ stop'[d].pc = "mark" /\ stop'[d].todo = stop[d].todo
          /\ stop'[d].session = stop[d].session /\ stop'[d].victims = stop[d].victims
      BY <1>s, <2>2 DEF Stops
    <2>4. ASSUME d \in Stdio
          PROVE  stoppedBy[d] # d /\ \A s \in Owned(d) : opening[s] = "none"
      BY <1>c, <2>1, <2>4 DEF Closes, Stopped, Quiet
    <2> QED
      BY <1>1, <1>s, <2>1, <2>2, <2>3, <2>4
  <1>6. CASE Exit(d)
    <2>1. d \in Stdio /\ stoppedBy[d] = d => stop[d].pc = "done"
      BY <1>6, <1>c DEF Exit, Closes, Stopped
    <2> QED
      BY <1>6, <1>s, <2>1, CVanishes DEF Exit, Alive
  <1>7. CASE ExitAtEnd(d)
    BY <1>7, CVanishes DEF ExitAtEnd, Alive
  <1>8. CASE Crash(d)
    BY <1>8, CVanishes DEF Crash
  <1> QED
    BY <1>2, <1>3, <1>4, <1>5, <1>6, <1>7, <1>8 DEF Ends

LEMMA InitCInv == Init => CInv
PROOF
  <1> SUFFICES ASSUME Init PROVE CInv
    OBVIOUS
  <1>1. TInv
    BY InitTInv
  <1>2. Fresh
    BY DEF Init, Fresh
  <1>3. AllClose
    BY DEF Init, AllClose, Stdio, Closes, Handled, Quiet, Collected, Stopped, Owned, Asked, NoStop
  <1> QED
    BY <1>1, <1>2, <1>3 DEF CInv

LEMMA NextCInv == CInv /\ [Next]_vars => CInv'
PROOF
  <1> SUFFICES ASSUME CInv, [Next]_vars PROVE CInv'
    OBVIOUS
  <1>1. TInv'
    BY NextTInv DEF CInv
  <1>2. ASSUME UNCHANGED <<session, command, live, stop, stoppedBy, owner, opening, dropped, pc>>
        PROVE  CInv'
    <2>1. Fresh'
      BY <1>2 DEF CInv, Fresh, Tables!ActiveCommands, Tables!IsActive
    <2>2. ASSUME NEW d \in Stdio PROVE Closes(d)'
      <3>1. Undisturbed(d)
        BY <1>2 DEF Undisturbed, Starting, Owned, Subsides, IsOpen, Tables!ActiveCommands,
           Tables!IsActive
      <3> QED
        BY <3>1, UndisturbedCloses DEF CInv, AllClose
    <2> QED
      BY <1>1, <2>1, <2>2 DEF CInv, AllClose
  <1>3. CASE OperatorMarks \/ UNCHANGED vars
    BY <1>2, <1>3 DEF OperatorMarks, vars, tables, files, histories
  <1> QED
    BY <1>1, <1>3, CStarts, CServes, CShutsDown, CEnds DEF Next

\* Whatever the other daemons on its state directory do to the same tables in the
\* meantime, and however many they are, a stdio daemon that stops by its own
\* shutdown leaves no session of its own open, nor a command of one that it held
\* to the end active.
THEOREM StateDirStdioStopsClean == Spec => []StdioStopsClean
PROOF
  <1>1. CInv => StdioStopsClean
    BY DEF CInv, AllClose, Closes, Stopped, Settled, StdioStopsClean, StoppedItself, Stdio
  <1> QED
    BY <1>1, InitCInv, NextCInv, PTL DEF Spec
=============================================================================
