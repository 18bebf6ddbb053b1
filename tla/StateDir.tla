------------------------------ MODULE StateDir -------------------------------
(***************************************************************************)
(* Daemons and CLI calls that share one state directory: the tables, the   *)
(* file daemon.json, the marker daemon.shutdown.json.  LiveShellService of *)
(* src/src/liveshell/daemon.py from __init__ to the end of its process,    *)
(* with serve_socket, serve_stdio, and daemon start and stop of cli.py.    *)
(*                                                                         *)
(* A daemon is one incarnation of the process, and may crash between any   *)
(* two steps.  Start-up, shutdown and exit are modelled one transaction,   *)
(* file access or region under the lock a step.  What a daemon does while  *)
(* it serves is coarser than in Service, whose subject it is: only the     *)
(* steps that change which rows are active or which sessions are live,     *)
(* with the reads they depend on merged into them, and no close by a       *)
(* client.                                                                 *)
(*                                                                         *)
(* Left out: recover=False (no command of the CLI passes it), failures to  *)
(* write a file (ignored by the code), pids, and daemon.lock, which is     *)
(* written with daemon.json and decides nothing.                           *)
(* A definition marked as a fault is the mutated form of the one after it. *)
(***************************************************************************)
EXTENDS Integers, FiniteSets

CONSTANTS Daemons, Sessions, Commands, NoSession, NoDaemon,
          Tcp,    \* the daemons that serve a socket; the others serve stdio
          Used,   \* bound of the model: the daemons clients open sessions on
          MaxAlive,  \* bound of the model: daemons alive at a time
          Marked     \* bound of the model: whether operators write the marker

ASSUME NamesAssumption ==
  /\ NoSession \notin Sessions
  /\ Daemons \cap {NoDaemon, "nobody", "operator"} = {}
ASSUME KindsAssumption ==
  Tcp \subseteq Daemons /\ Used \subseteq Daemons /\ MaxAlive \in Nat /\ Marked \in BOOLEAN

VARIABLES session, command, events,  \* the tables of the store
          marker,     \* who wrote daemon.shutdown.json
          state,      \* daemon.json: who wrote it, and if with a port
          pc,         \* the main thread of each daemon
          todo,       \* rows its recovery has listed and not yet changed
          live,       \* self._sessions
          owner,      \* daemon_id in the metadata of a session
          opening,    \* how far create_session is
          bound,      \* daemons whose service has a socket address
          stop,       \* the run of request_shutdown of each daemon
          before,     \* history: the daemons gone when recovery listed sessions
          stoppedBy,  \* history: whose request ended the loop of a daemon
          dropped     \* history: sessions a worker gave up

tables == <<session, command, events>>
files == <<marker, state>>
histories == <<before, stoppedBy, dropped>>
vars == <<tables, files, pc, todo, live, bound, owner, opening, stop, histories>>

Tables == INSTANCE CommandStore WITH MaxSeq <- 1, MaxBatch <- 1

-----------------------------------------------------------------------------
Pcs == {"absent", "unmark", "write", "list_sessions", "sessions", "commands",
        "listen", "serving", "final", "shutting", "gone"}
StopPcs == {"no", "mark", "collect", "close", "cancel", "finish", "done"}
Stops == [pc : StopPcs, todo : SUBSET Sessions, session : Sessions \cup {NoSession},
          victims : SUBSET Commands]
NoStop == [pc |-> "no", todo |-> {}, session |-> NoSession, victims |-> {}]

Open == {"starting", "running"}
IsOpen(s) == session[s].status \in Open
Owned(d) == {s \in Sessions : owner[s] = d}
Alive(d) == pc[d] \notin {"absent", "gone"}

\* Another process finds the port of the last daemon that wrote daemon.json,
\* and is served there.
Reachable == state.port /\ pc[state.daemon] = "serving"

\* The flag of this service is set first thing by request_shutdown.
Asked(d) == stop[d].pc # "no"

ShutdownRequested(d) == Asked(d) \/ marker # NoDaemon

\* A connection thread of a socket daemon takes requests until the process
\* ends; the one thread of a stdio daemon takes the next when it has answered
\* the last, and none after a shutdown.
TakesRequests(d) ==
  IF d \in Tcp THEN d \in bound /\ pc[d] \in {"serving", "final", "shutting"}
  ELSE pc[d] = "serving" /\ ~Asked(d) /\ \A s \in Owned(d) : opening[s] = "none"

Goto(d, place) == pc' = [pc EXCEPT ![d] = place]
StopGoto(d, place) == stop' = [stop EXCEPT ![d].pc = place]

\* The process ends: every thread of it, and all it had in memory.
Vanish(d) ==
  /\ Goto(d, "gone")
  /\ live' = [live EXCEPT ![d] = {}]
  /\ todo' = [todo EXCEPT ![d] = {}]
  /\ stop' = [stop EXCEPT ![d] = NoStop]
  /\ bound' = bound \ {d}
  /\ opening' = [s \in Sessions |-> IF owner[s] = d THEN "none" ELSE opening[s]]

Init ==
  /\ Tables!Init
  /\ marker = NoDaemon
  /\ state = [daemon |-> NoDaemon, port |-> FALSE]
  /\ pc = [d \in Daemons |-> "absent"]
  /\ todo = [d \in Daemons |-> {}]
  /\ live = [d \in Daemons |-> {}]
  /\ bound = {}
  /\ owner = [s \in Sessions |-> NoDaemon]
  /\ opening = [s \in Sessions |-> "none"]
  /\ stop = [d \in Daemons |-> NoStop]
  /\ before = [d \in Daemons |-> {}]
  /\ stoppedBy = [d \in Daemons |-> "nobody"]
  /\ dropped = {}

-----------------------------------------------------------------------------
(* Start *)

\* daemon start spawns nothing while the daemon of daemon.json answers; a
\* client, or liveshell run, spawns its stdio daemon without looking.
Start(d) ==
  /\ pc[d] = "absent"
  /\ d \in Tcp => ~Reachable
  /\ Cardinality({e \in Daemons : Alive(e)}) < MaxAlive
  /\ Goto(d, "unmark")
  /\ UNCHANGED <<tables, files, todo, live, bound, owner, opening, stop, histories>>

ClearMarker(d) ==
  /\ pc[d] = "unmark"
  /\ marker' = NoDaemon
  /\ Goto(d, "write")
  /\ UNCHANGED <<tables, state, todo, live, bound, owner, opening, stop, histories>>

WriteState(d) ==
  /\ pc[d] = "write"
  /\ state' = [daemon |-> d, port |-> FALSE]
  /\ Goto(d, "list_sessions")
  /\ UNCHANGED <<tables, marker, todo, live, bound, owner, opening, stop, histories>>

Lists(d, rows) ==
  /\ pc[d] = "list_sessions"
  /\ todo' = [todo EXCEPT ![d] = rows]
  /\ before' = [before EXCEPT ![d] = {e \in Daemons : pc[e] = "gone"}]
  /\ Goto(d, "sessions")
  /\ UNCHANGED <<tables, files, live, bound, owner, opening, stop, stoppedBy, dropped>>

\* Fault: a session still starting has no process to lose.
ListRunning(d) == Lists(d, {s \in Sessions : session[s].status = "running"})

\* No look at whose sessions these are, nor if their daemon is alive.
ListSessions(d) == Lists(d, {s \in Sessions : IsOpen(s)})

\* One transaction for each row listed, whatever has become of it since.
RecoverSession(d) ==
  /\ pc[d] = "sessions"
  /\ \E s \in todo[d] :
       /\ Tables!UpdateSession(s, "crashed", TRUE)
       /\ todo' = [todo EXCEPT ![d] = @ \ {s}]
  /\ UNCHANGED <<files, pc, live, bound, owner, opening, stop, histories>>

ListCommands(d) ==
  /\ pc[d] = "sessions"
  /\ todo[d] = {}
  /\ todo' = [todo EXCEPT ![d] = {c \in Commands : Tables!IsActive(c)}]
  /\ Goto(d, "commands")
  /\ UNCHANGED <<tables, files, live, bound, owner, opening, stop, histories>>

RecoverCommand(d) ==
  /\ pc[d] = "commands"
  /\ \E c \in todo[d] :
       /\ Tables!FinishCommand(c, "failed")
       /\ todo' = [todo EXCEPT ![d] = @ \ {c}]
  /\ UNCHANGED <<files, pc, live, bound, owner, opening, stop, histories>>

Recovered(d) ==
  /\ pc[d] = "commands"
  /\ todo[d] = {}
  /\ Goto(d, IF d \in Tcp THEN "listen" ELSE "serving")
  /\ UNCHANGED <<tables, files, todo, live, bound, owner, opening, stop, histories>>

Listen(d) ==
  /\ pc[d] = "listen"
  /\ bound' = bound \cup {d}
  /\ state' = [daemon |-> d, port |-> TRUE]
  /\ Goto(d, "serving")
  /\ UNCHANGED <<tables, marker, todo, live, owner, opening, stop, histories>>

\* The port is taken.
BindFails(d) ==
  /\ pc[d] = "listen"
  /\ Goto(d, "final")
  /\ UNCHANGED <<tables, files, todo, live, bound, owner, opening, stop, histories>>

-----------------------------------------------------------------------------
(* Service *)

OpenSession(d, s) ==
  /\ d \in Used /\ TakesRequests(d)
  /\ Tables!CreateSession(s)
  /\ owner' = [owner EXCEPT ![s] = d]
  /\ opening' = [opening EXCEPT ![s] = "row"]
  /\ UNCHANGED <<files, pc, todo, live, bound, stop, histories>>

Adopt(d, s) ==
  /\ Alive(d) /\ owner[s] = d
  /\ opening[s] = "row"
  /\ live' = [live EXCEPT ![d] = @ \cup {s}]
  /\ opening' = [opening EXCEPT ![s] = "object"]
  /\ UNCHANGED <<tables, files, pc, todo, bound, owner, stop, histories>>

\* The session is running, or, if its row has ended in the meantime, crashed by
\* the handler of the error; it stays in self._sessions either way.
SetRunning(d, s) ==
  /\ Alive(d) /\ owner[s] = d
  /\ opening[s] = "object"
  /\ IF Tables!CanUpdateSession(s, "running", FALSE)
     THEN Tables!UpdateSession(s, "running", FALSE)
     ELSE Tables!UpdateSession(s, "crashed", TRUE)
  /\ opening' = [opening EXCEPT ![s] = "none"]
  /\ UNCHANGED <<files, pc, todo, live, bound, owner, stop, histories>>

CreateFails(d, s) ==
  /\ Alive(d) /\ owner[s] = d
  /\ opening[s] = "row"
  /\ Tables!UpdateSession(s, "crashed", TRUE)
  /\ opening' = [opening EXCEPT ![s] = "none"]
  /\ UNCHANGED <<files, pc, todo, live, bound, owner, stop, histories>>

StartCommand(d, c) ==
  /\ TakesRequests(d)
  /\ \E s \in live[d] : session[s].status = "running" /\ Tables!CreateCommand(c, s)
  /\ UNCHANGED <<files, pc, todo, live, bound, owner, opening, stop, histories>>

\* A worker takes its command on: also in a session that another daemon has
\* recovered, but no command that was.
Progress(d, c, st) ==
  /\ Alive(d) /\ command[c].session \in live[d]
  /\ \/ command[c].status = "queued" /\ st = "starting"
     \/ command[c].status = "starting" /\ st = "running"
  /\ Tables!UpdateCommand(c, st)
  /\ UNCHANGED <<files, pc, todo, live, bound, owner, opening, stop, histories>>

\* A command ends, or is given up by its worker or by a cancel; which way is the
\* subject of Service.
EndCommand(d, c) ==
  /\ Alive(d) /\ Tables!IsActive(c) /\ owner[command[c].session] = d
  /\ LET st == IF command[c].status = "queued" THEN "canceled" ELSE "completed"
     IN Tables!FinishCommand(c, st)
  /\ UNCHANGED <<files, pc, todo, live, bound, owner, opening, stop, histories>>

\* A worker kills the shell for a timeout or a cancel, and closes the session.
GiveUp(d, s) ==
  /\ Alive(d) /\ s \in live[d]
  /\ \E c \in Tables!ActiveCommands(s) : command[c].status = "running"
  /\ Tables!UpdateSession(s, "closed", TRUE)
  /\ live' = [live EXCEPT ![d] = @ \ {s}]
  /\ dropped' = dropped \cup {s}
  /\ UNCHANGED <<files, pc, todo, bound, owner, opening, stop, before, stoppedBy>>

-----------------------------------------------------------------------------
(* Shutdown *)

\* A client asks over its channel.  A second request, which does the same over
\* again, is left out.
RequestShutdown(d) ==
  /\ TakesRequests(d) /\ ~Asked(d)
  /\ StopGoto(d, "mark")
  /\ UNCHANGED <<tables, files, pc, todo, live, bound, owner, opening, histories>>

WriteMarker(d) ==
  /\ Alive(d) /\ stop[d].pc = "mark"
  /\ marker' = d
  /\ StopGoto(d, "collect")
  /\ UNCHANGED <<tables, state, pc, todo, live, bound, owner, opening, histories>>

CollectLive(d) ==
  /\ Alive(d) /\ stop[d].pc = "collect"
  /\ stop' = [stop EXCEPT ![d] = [NoStop EXCEPT !.pc = "close", !.todo = live[d]]]
  /\ UNCHANGED <<tables, files, pc, todo, live, bound, owner, opening, histories>>

Takes(d, victims) ==
  /\ Alive(d) /\ stop[d].pc = "close"
  /\ \E s \in stop[d].todo :
       /\ live' = [live EXCEPT ![d] = @ \ {s}]
       /\ stop' = [stop EXCEPT ![d] = [NoStop EXCEPT !.pc = "cancel", !.todo = stop[d].todo \ {s},
                                                  !.session = s, !.victims = victims[s]]]
  /\ UNCHANGED <<tables, files, pc, todo, bound, owner, opening, histories>>

\* Fault: the commands that have not started are forgotten with the queue.
TakeStarted(d) ==
  Takes(d, [s \in Sessions |->
              {c \in Tables!ActiveCommands(s) : command[c].status # "queued"}])

\* close_session, for one session after the other.
TakeSession(d) == Takes(d, [s \in Sessions |-> Tables!ActiveCommands(s)])

MarkClosed(d) ==
  /\ Alive(d) /\ stop[d].pc = "cancel" /\ stop[d].victims # {}
  /\ Tables!UpdateSession(stop[d].session, "closed", TRUE)
  /\ StopGoto(d, "finish")
  /\ UNCHANGED <<files, pc, todo, live, bound, owner, opening, histories>>

CancelCommand(d) ==
  /\ Alive(d) /\ stop[d].pc = "finish"
  /\ \E c \in stop[d].victims :
       /\ Tables!FinishCommand(c, "canceled")
       /\ stop' = [stop EXCEPT ![d].pc = "cancel", ![d].victims = @ \ {c}]
  /\ UNCHANGED <<files, pc, todo, live, bound, owner, opening, histories>>

\* (Crashed, if the close of the object raised: it has ended either way.)
SessionClosed(d) ==
  /\ Alive(d) /\ stop[d].pc = "cancel" /\ stop[d].victims = {}
  /\ Tables!UpdateSession(stop[d].session, "closed", TRUE)
  /\ stop' = [stop EXCEPT ![d].pc = "close", ![d].session = NoSession]
  /\ UNCHANGED <<files, pc, todo, live, bound, owner, opening, histories>>

\* Fault: the port is kept as the file has it.
KeepPort(d) ==
  /\ Alive(d) /\ stop[d].pc = "close" /\ stop[d].todo = {}
  /\ state' = [state EXCEPT !.daemon = d]
  /\ StopGoto(d, "done")
  /\ UNCHANGED <<tables, marker, pc, todo, live, bound, owner, opening, histories>>

AllClosed(d) ==
  /\ Alive(d) /\ stop[d].pc = "close" /\ stop[d].todo = {}
  /\ state' = [daemon |-> d, port |-> d \in bound]
  /\ StopGoto(d, "done")
  /\ UNCHANGED <<tables, marker, pc, todo, live, bound, owner, opening, histories>>

\* daemon shutdown always, and daemon stop when it reaches no daemon, write the
\* marker; daemon stop asks the daemon it reaches (RequestShutdown).  To write
\* it over another changes nothing that a daemon reads.
OperatorMarks ==
  /\ Marked
  /\ marker = NoDaemon
  /\ marker' = "operator"
  /\ UNCHANGED <<tables, state, pc, todo, live, bound, owner, opening, stop, histories>>

-----------------------------------------------------------------------------
(* End *)

\* The accept loop looks every half second, the stdio loop after a request.
LoopSeesRequest(d) ==
  /\ pc[d] = "serving"
  /\ IF d \in Tcp THEN ShutdownRequested(d) ELSE stop[d].pc = "done"
  /\ stoppedBy' = [stoppedBy EXCEPT ![d] = IF Asked(d) THEN d ELSE marker]
  /\ Goto(d, "final")
  /\ UNCHANGED <<tables, files, todo, live, bound, owner, opening, stop, before, dropped>>

\* End of file of stdio, or the marker seen after a request; an error of accept.
LoopEnds(d) ==
  /\ pc[d] = "serving"
  /\ d \in Tcp \/ TakesRequests(d)
  /\ Goto(d, "final")
  /\ UNCHANGED <<tables, files, todo, live, bound, owner, opening, stop, histories>>

\* The finally clause.  If anybody has requested the shutdown, be it a connection
\* thread that is still closing sessions, or the writer of a marker, it is not
\* done again.
Exit(d) ==
  /\ pc[d] = "final"
  /\ ShutdownRequested(d)
  /\ Vanish(d)
  /\ UNCHANGED <<tables, files, owner, histories>>

ShutDownAtEnd(d) ==
  /\ pc[d] = "final"
  /\ ~ShutdownRequested(d)
  /\ StopGoto(d, "mark")
  /\ Goto(d, "shutting")
  /\ UNCHANGED <<tables, files, todo, live, bound, owner, opening, histories>>

ExitAtEnd(d) ==
  /\ pc[d] = "shutting" /\ stop[d].pc = "done"
  /\ stoppedBy' = [stoppedBy EXCEPT ![d] = d]
  /\ Vanish(d)
  /\ UNCHANGED <<tables, files, owner, before, dropped>>

Crash(d) ==
  /\ Alive(d)
  /\ stoppedBy' = [stoppedBy EXCEPT ![d] = "nobody"]
  /\ Vanish(d)
  /\ UNCHANGED <<tables, files, owner, before, dropped>>

-----------------------------------------------------------------------------
StartUp(d) ==
  \/ ClearMarker(d) \/ WriteState(d) \/ ListSessions(d) \/ RecoverSession(d)
  \/ ListCommands(d) \/ RecoverCommand(d) \/ Recovered(d) \/ Listen(d)

Serves(d) ==
  \/ \E s \in Sessions :
       OpenSession(d, s) \/ Adopt(d, s) \/ SetRunning(d, s) \/ CreateFails(d, s) \/ GiveUp(d, s)
  \/ \E c \in Commands :
       \/ StartCommand(d, c) \/ EndCommand(d, c)
       \/ \E st \in Tables!Progress : Progress(d, c, st)

ShutsDown(d) ==
  \/ WriteMarker(d) \/ CollectLive(d) \/ TakeSession(d) \/ MarkClosed(d)
  \/ CancelCommand(d) \/ SessionClosed(d) \/ AllClosed(d)

Ends(d) == LoopSeesRequest(d) \/ Exit(d) \/ ShutDownAtEnd(d) \/ ExitAtEnd(d)

Next ==
  \/ \E d \in Daemons :
       \/ Start(d) \/ StartUp(d) \/ BindFails(d) \/ Serves(d)
       \/ RequestShutdown(d) \/ ShutsDown(d) \/ LoopEnds(d) \/ Ends(d) \/ Crash(d)
  \/ OperatorMarks

Spec == Init /\ [][Next]_vars

-----------------------------------------------------------------------------
TypeOK ==
  /\ Tables!TypeOK
  /\ marker \in Daemons \cup {NoDaemon, "operator"}
  /\ state \in [daemon : Daemons \cup {NoDaemon}, port : BOOLEAN]
  /\ state.port => state.daemon \in Tcp
  /\ pc \in [Daemons -> Pcs]
  /\ todo \in [Daemons -> SUBSET (Sessions \cup Commands)]
  /\ live \in [Daemons -> SUBSET Sessions]
  /\ bound \subseteq Tcp
  /\ owner \in [Sessions -> Daemons \cup {NoDaemon}]
  /\ opening \in [Sessions -> {"none", "row", "object"}]
  /\ stop \in [Daemons -> Stops]
  /\ before \in [Daemons -> SUBSET Daemons]
  /\ stoppedBy \in [Daemons -> Daemons \cup {"nobody", "operator"}]
  /\ dropped \subseteq Sessions

\* Once a daemon serves, no row of a daemon that was gone when it started is
\* active, and none ever becomes so: also after a crash in the middle of a
\* recovery, with other daemons recovering and serving meanwhile.
OrphansAreEnded ==
  \A d \in Daemons : pc[d] \in {"listen", "serving", "final", "shutting"} =>
    \A e \in before[d] : \A s \in Owned(e) : ~IsOpen(s) /\ Tables!ActiveCommands(s) = {}

StoppedItself(d) == pc[d] = "gone" /\ stoppedBy[d] = d

\* A stdio daemon whose own shutdown ended it, on request or at end of file, has
\* ended its sessions, and every command but those left in the queue of a
\* session that a worker had given up.
StdioStopsClean ==
  \A d \in Daemons \ Tcp : StoppedItself(d) =>
    \A s \in Owned(d) :
      ~IsOpen(s) /\ (s \notin dropped => Tables!ActiveCommands(s) = {})

-----------------------------------------------------------------------------
(* Claims of the repository that the runs refute *)

\* PROTOCOL.md:57: daemon.shutdown is reliable over a live channel, stdio or
\* socket.  When it ends the daemon, the sessions it found live have ended.
ShutdownIsReliable ==
  [][\A d \in Daemons : pc[d] # "gone" /\ StoppedItself(d)' =>
       \A s \in stop[d].todo : session[s].status # "running"]_vars

\* PROTOCOL.md:64: a socket daemon keeps running after a client disconnects. Only
\* an operator, its own clients or a crash end it, not another's stdio daemon.
PersistentUntilStopped ==
  \A d \in Tcp : stoppedBy[d] \in {"nobody", "operator", d}
=============================================================================
