------------------------------- MODULE Service -------------------------------
(***************************************************************************)
(* LiveShellService of src/src/liveshell/daemon.py: the calls of clients,  *)
(* the queue worker threads and the execution threads of one service that  *)
(* owns its sessions, over the tables of CommandStore.                     *)
(*                                                                         *)
(* One step is what no other thread can cut in two: a region under         *)
(* self._lock, a transaction of the store, an Event, or a look at or a     *)
(* kill of the shell process.  A client thread runs one call at a time.  A *)
(* queue worker thread is named by the command whose start_command made it *)
(* (start_command makes one thread at most).                               *)
(*                                                                         *)
(* Covered: create_session, start_command, cancel_command, close_session,  *)
(* both worker loops, the execution thread, the terminations and the end   *)
(* of an unreferenced session object, for process backed sessions and for  *)
(* hosted ones, which have no process to kill.                             *)
(* Left out: failures of SQLite itself, other services on the same         *)
(* database, restart (these run in other modules or are listed as open in  *)
(* the README), texts and metadata, and the timed joins, which only delay  *)
(* the thread that joins.                                                  *)
(* A definition marked as a fault is the mutated form of the one after it. *)
(***************************************************************************)
EXTENDS Integers, Sequences, FiniteSets

CONSTANTS Sessions, Commands, Callers,
          NoSession, NoCommand, NoThread,
          MayCall,        \* the operations each caller uses
          MayBeHosted,    \* sessions that may be PowerShell, the others have a process
          TimedCommands,  \* commands started with a timeout_seconds
          MaxOutput       \* bound of the model: streamed lines of a command

ASSUME NamesAssumption ==
  NoSession \notin Sessions /\ NoCommand \notin Commands /\ NoThread \notin Commands
ASSUME CallsAssumption ==
  /\ MayCall \in [Callers -> SUBSET {"create", "start", "cancel", "close"}]
  /\ TimedCommands \subseteq Commands /\ MayBeHosted \subseteq Sessions
  /\ MaxOutput \in Nat

VARIABLES session, command, events,  \* the tables of the store
          live,        \* sessions in self._sessions
          queue,       \* self._session_queues; a missing queue is an empty one
          registered,  \* self._session_queue_threads
          cancels,     \* commands in self._command_cancels
          canceled,    \* commands whose cancel Event is set
          threadOf,    \* self._command_threads
          worker,      \* the queue worker threads
          exec,        \* the execution threads
          hosted,      \* the sessions that are PowerShell, in the daemon's own process
          shell,       \* the shell processes, or the runspaces of the hosted sessions
          killedFor,   \* history: commands not at their end whose shell was terminated
          call         \* the client threads

tables == <<session, command, events>>
runtime == <<live, queue, registered, cancels, canceled, threadOf>>
threads == <<worker, exec, call>>
processes == <<hosted, shell, killedFor>>
vars == <<tables, runtime, threads, processes>>

Tables == INSTANCE CommandStore WITH MaxSeq <- MaxOutput + 3, MaxBatch <- 1

-----------------------------------------------------------------------------
Done == {"ok", "bad", "error"}
ExecStates == {"none", "ready", "waiting", "running", "emitting"} \cup Done

CallPcs == {"idle", "spawn", "adopt", "set_running", "create_close", "create_crash",
            "insert", "register", "thread_start",
            "cancel_lock", "set", "kill", "mark", "drop", "finish",
            "join", "shut", "stamp", "stamp_crashed"}
Calls == [pc : CallPcs, op : {"none", "create", "start", "cancel", "close"},
          session : Sessions \cup {NoSession}, command : Commands \cup {NoCommand},
          handle : BOOLEAN,           \* the session object was found
          closes : BOOLEAN,           \* close_session of _finish_canceled
          events : SUBSET Commands,   \* the cancel Events found
          joins : SUBSET Commands,    \* the threads to join
          todo : SUBSET Commands]     \* the active commands still to finish
NoCall == [pc |-> "idle", op |-> "none", session |-> NoSession, command |-> NoCommand,
           handle |-> FALSE, closes |-> FALSE, events |-> {}, joins |-> {}, todo |-> {}]

WorkerPcs == {"none", "unstarted", "pop",
              "screen", "screen_live",
              "enter", "starting", "started",
              "begun", "running", "launch",
              "watch", "watch_cancel", "kill", "ended",
              "output", "stderr", "error", "confirm", "mark", "drop", "finish", "forget", "dead"}
Workers == [pc : WorkerPcs, command : Commands \cup {NoCommand},
            handle : BOOLEAN,                  \* the session object was found
            outcome : Tables!Terminal \cup {"none"},  \* the status it decided on
            closes : BOOLEAN]                  \* and whether that closes the session
NoWorker == [pc |-> "none", command |-> NoCommand, handle |-> FALSE,
             outcome |-> "none", closes |-> FALSE]

-----------------------------------------------------------------------------
SessionOf(c) == command[c].session
IsRunning(s) == shell[s] = "alive"
IsAlive(t) == t # NoThread /\ worker[t].pc \notin {"none", "unstarted", "dead"}

\* The command that holds the lock of the session object.
Holders(s) == {c \in Commands : exec[c] \in {"running", "emitting"} /\ SessionOf(c) = s}

\* A new queue worker is made unless the registered one is alive; a thread is
\* not alive before its start().
ShouldStart(s) == ~IsAlive(registered[s])

\* _terminate_session for commands cs: the process group is gone after it.  A
\* hosted session is closed instead, which waits for the lock of its script.
Terminate(s, cs) ==
  /\ s \in hosted => Holders(s) = {}
  /\ UNCHANGED hosted
  /\ shell' = [shell EXCEPT ![s] = "dead"]
  /\ killedFor' = [killedFor EXCEPT ![s] = IF IsRunning(s) THEN @ \cup {c \in cs : exec[c] \notin Done} ELSE @]

Goto(k, pc) == call' = [call EXCEPT ![k].pc = pc]
Return(k) == call' = [call EXCEPT ![k] = NoCall]
At(k, pc) == call[k].pc = pc
Begins(k, op) == At(k, "idle") /\ op \in MayCall[k]

Init ==
  /\ Tables!Init
  /\ live = [s \in Sessions |-> FALSE]
  /\ queue = [s \in Sessions |-> <<>>]
  /\ registered = [s \in Sessions |-> NoThread]
  /\ cancels = {}
  /\ canceled = {}
  /\ threadOf = [c \in Commands |-> NoThread]
  /\ worker = [c \in Commands |-> NoWorker]
  /\ exec = [c \in Commands |-> "none"]
  /\ hosted \in SUBSET MayBeHosted
  /\ shell = [s \in Sessions |-> "none"]
  /\ killedFor = [s \in Sessions |-> {}]
  /\ call = [k \in Callers |-> NoCall]

-----------------------------------------------------------------------------
(* create_session *)

CreateBegin(k, s) ==
  /\ Begins(k, "create")
  /\ Tables!CreateSession(s)
  /\ call' = [call EXCEPT ![k] = [NoCall EXCEPT !.pc = "spawn", !.op = "create", !.session = s]]
  /\ UNCHANGED <<runtime, worker, exec, processes>>

Spawn(k) ==
  /\ At(k, "spawn")
  /\ \/ shell' = [shell EXCEPT ![call[k].session] = "alive"] /\ Goto(k, "adopt")
     \/ UNCHANGED shell /\ Goto(k, "create_crash")
  /\ UNCHANGED <<tables, runtime, worker, exec, hosted, killedFor>>

Adopt(k) ==
  /\ At(k, "adopt")
  /\ live' = [live EXCEPT ![call[k].session] = TRUE]
  /\ Goto(k, "set_running")
  /\ UNCHANGED <<tables, queue, registered, cancels, canceled, threadOf, worker, exec, processes>>

\* The session may have been closed since: the update is then rejected.
SetRunning(k) ==
  /\ At(k, "set_running")
  /\ IF Tables!CanUpdateSession(call[k].session, "running", FALSE)
     THEN Tables!UpdateSession(call[k].session, "running", FALSE) /\ Return(k)
     ELSE UNCHANGED tables /\ Goto(k, "create_close")
  /\ UNCHANGED <<runtime, worker, exec, processes>>

CreateClose(k) ==
  /\ At(k, "create_close")
  /\ Holders(call[k].session) = {}
  /\ shell' = [shell EXCEPT ![call[k].session] = "dead"]
  /\ Goto(k, "create_crash")
  /\ UNCHANGED <<tables, runtime, worker, exec, hosted, killedFor>>

CreateCrash(k) ==
  /\ At(k, "create_crash")
  /\ Tables!UpdateSession(call[k].session, "crashed", TRUE)
  /\ Return(k)
  /\ UNCHANGED <<runtime, worker, exec, processes>>

-----------------------------------------------------------------------------
(* start_command *)

\* The looks at the session's row, at self._sessions and at the process: what
\* passes them once has passed them in one step, since a session that is lost
\* is never found again.  The id the store will draw for the command is chosen
\* here, which bounds the starts of the model by Commands.
StartBegin(k, s, c) ==
  /\ Begins(k, "start")
  /\ session[s].status = "running" /\ live[s] /\ IsRunning(s)
  /\ command[c].status = "absent" /\ \A j \in Callers : call[j].command # c
  /\ call' = [call EXCEPT ![k] = [NoCall EXCEPT !.pc = "insert", !.op = "start",
                                                !.session = s, !.command = c]]
  /\ UNCHANGED <<tables, runtime, worker, exec, processes>>

Insert(k) ==
  /\ At(k, "insert")
  /\ Tables!CreateCommand(call[k].command, call[k].session)
  /\ Goto(k, "register")
  /\ UNCHANGED <<runtime, worker, exec, processes>>

\* The region that queues the command and registers a worker thread for it;
\* the new thread is started after the lock is released.
Register(k) ==
  LET c == call[k].command
      s == call[k].session
      t == IF ShouldStart(s) THEN c ELSE registered[s]
  IN /\ At(k, "register")
     /\ cancels' = cancels \cup {c}
     /\ queue' = [queue EXCEPT ![s] = Append(@, c)]
     /\ registered' = [registered EXCEPT ![s] = t]
     /\ threadOf' = [threadOf EXCEPT ![c] = t]
     /\ IF ShouldStart(s)
        THEN worker' = [worker EXCEPT ![c].pc = "unstarted"] /\ Goto(k, "thread_start")
        ELSE UNCHANGED worker /\ Return(k)
     /\ UNCHANGED <<tables, live, canceled, exec, processes>>

ThreadStart(k) ==
  /\ At(k, "thread_start")
  /\ worker' = [worker EXCEPT ![call[k].command].pc = "pop"]
  /\ Return(k)
  /\ UNCHANGED <<tables, runtime, exec, processes>>

-----------------------------------------------------------------------------
(* cancel_command, and close_session, which ends in the same steps for each *)
(* of the active commands it found                                         *)

\* The status is read here, once: a command seen queued is canceled without a
\* termination of the shell.  A terminal command is returned as it is.
CancelBegin(k, c) ==
  /\ Begins(k, "cancel")
  /\ Tables!IsActive(c)
  /\ call' = [call EXCEPT ![k] =
                [NoCall EXCEPT !.pc = "cancel_lock", !.op = "cancel", !.session = SessionOf(c),
                               !.command = c, !.todo = {c},
                               !.closes = command[c].status # "queued"]]
  /\ UNCHANGED <<tables, runtime, worker, exec, processes>>

CancelLock(k) ==
  LET c == call[k].command
  IN /\ At(k, "cancel_lock")
     /\ call' = [call EXCEPT ![k].pc = "set",
                             ![k].handle = live[call[k].session],
                             ![k].events = {c} \cap cancels,
                             ![k].joins = {threadOf[c]} \ {NoThread}]
     /\ UNCHANGED <<tables, runtime, worker, exec, processes>>

\* The region that takes the session, its queue and its active commands.  The
\* snapshot read before it only refuses an unknown id.
CloseTaking(k, s, active) ==
  LET Taken(c, pc) == [pc |-> pc, op |-> "close", session |-> s, command |-> c,
                       handle |-> live[s], closes |-> TRUE, events |-> active \cap cancels,
                       joins |-> {threadOf[d] : d \in active} \ {NoThread}, todo |-> active]
  IN /\ Begins(k, "close")
     /\ session[s].status # "absent"
     /\ \/ \E c \in active : call' = [call EXCEPT ![k] = Taken(c, "set")]
        \/ /\ active = {}
           /\ call' = [call EXCEPT ![k] = Taken(NoCommand, IF live[s] THEN "shut" ELSE "stamp")]
     /\ live' = [live EXCEPT ![s] = FALSE]
     /\ queue' = [queue EXCEPT ![s] = <<>>]
     /\ UNCHANGED <<tables, registered, cancels, canceled, threadOf, worker, exec, processes>>

\* Fault: the commands still in the dropped queue are forgotten.
CloseStartedOnly(k, s) ==
  CloseTaking(k, s, {c \in Tables!ActiveCommands(s) : command[c].status # "queued"})

CloseBegin(k, s) == CloseTaking(k, s, Tables!ActiveCommands(s))

SetEvents(k) ==
  /\ At(k, "set")
  /\ canceled' = canceled \cup call[k].events
  /\ Goto(k, IF call[k].closes THEN "kill" ELSE "finish")
  /\ UNCHANGED <<tables, live, queue, registered, cancels, threadOf, worker, exec, processes>>

\* Fault: the shell is spared when none of the commands had started.
KillIfStarted(k) ==
  /\ At(k, "kill")
  /\ IF call[k].handle /\ \E c \in call[k].todo : command[c].status \in Tables!Progress
     THEN Terminate(call[k].session, call[k].todo) ELSE UNCHANGED processes
  /\ Goto(k, "mark")
  /\ UNCHANGED <<tables, runtime, worker, exec>>

Kill(k) ==
  /\ At(k, "kill")
  /\ IF call[k].handle THEN Terminate(call[k].session, call[k].todo) ELSE UNCHANGED processes
  /\ Goto(k, "mark")
  /\ UNCHANGED <<tables, runtime, worker, exec>>

\* _mark_session_closed_for_command: the row first, then self._sessions.
Mark(k) ==
  /\ At(k, "mark")
  /\ Tables!UpdateSession(call[k].session, "closed", TRUE)
  /\ Goto(k, "drop")
  /\ UNCHANGED <<runtime, worker, exec, processes>>

Drop(k) ==
  /\ At(k, "drop")
  /\ live' = [live EXCEPT ![call[k].session] = FALSE]
  /\ Goto(k, "finish")
  /\ UNCHANGED <<tables, queue, registered, cancels, canceled, threadOf, worker, exec, processes>>

Finish(k) ==
  LET rest == call[k].todo \ {call[k].command}
  IN /\ At(k, "finish")
     /\ Tables!FinishCommand(call[k].command, "canceled")
     /\ \/ \E c \in rest :
             call' = [call EXCEPT ![k].pc = "mark", ![k].todo = rest, ![k].command = c]
        \/ rest = {} /\ call' = [call EXCEPT ![k].pc = "join", ![k].todo = {}]
     /\ UNCHANGED <<runtime, worker, exec, processes>>

\* A thread that is registered and not started cannot be joined: the call then
\* raises instead of going on.
Join(k) ==
  /\ At(k, "join")
  /\ IF call[k].op = "close" /\ \A t \in call[k].joins : worker[t].pc # "unstarted"
     THEN Goto(k, "stamp")
     ELSE Return(k)
  /\ UNCHANGED <<tables, runtime, worker, exec, processes>>

\* session.close() takes the lock a running command holds; it may fail on the
\* pipe of a shell that is gone.
Shut(k) ==
  LET s == call[k].session
  IN /\ At(k, "shut")
     /\ Holders(s) = {}
     /\ shell' = [shell EXCEPT ![s] = "dead"]
     /\ \/ Goto(k, "stamp")
        \/ ~IsRunning(s) /\ s \notin hosted /\ Goto(k, "stamp_crashed")
     /\ UNCHANGED <<tables, runtime, worker, exec, hosted, killedFor>>

Stamp(k) ==
  /\ \/ At(k, "stamp") /\ Tables!UpdateSession(call[k].session, "closed", TRUE)
     \/ At(k, "stamp_crashed") /\ Tables!UpdateSession(call[k].session, "crashed", TRUE)
  /\ Return(k)
  /\ UNCHANGED <<runtime, worker, exec, processes>>

-----------------------------------------------------------------------------
(* _run_session_queue_worker and _run_command_worker *)

Own(w) == worker[w].command
Shell(w) == command[w].session
WorkerAt(w, pc) == worker[w].pc = pc
WorkerGoto(w, pc) == worker' = [worker EXCEPT ![w].pc = pc]
\* Go and end the command with an outcome, closing its session or not.
Decide(w, pc, outcome, closes) ==
  worker' = [worker EXCEPT ![w].pc = pc, ![w].outcome = outcome, ![w].closes = closes]

PopNothing(w) ==
  /\ WorkerAt(w, "pop")
  /\ queue[Shell(w)] = <<>>
  /\ registered' = [registered EXCEPT ![Shell(w)] = NoThread]
  /\ WorkerGoto(w, "dead")
  /\ UNCHANGED <<tables, live, queue, cancels, canceled, threadOf, exec, call, processes>>

\* A command without a cancel Event is skipped.
Pop(w) ==
  LET c == Head(queue[Shell(w)])
  IN /\ WorkerAt(w, "pop")
     /\ queue[Shell(w)] # <<>>
     /\ queue' = [queue EXCEPT ![Shell(w)] = Tail(@)]
     /\ threadOf' = [threadOf EXCEPT ![c] = w]
     /\ IF c \in cancels
        THEN worker' = [worker EXCEPT ![w] = [NoWorker EXCEPT !.pc = "screen",
                                               !.command = c, !.handle = live[Shell(w)]]]
        ELSE UNCHANGED worker
     /\ UNCHANGED <<tables, live, registered, cancels, canceled, exec, call, processes>>

\* The three places that look whether the command is terminal and then whether
\* its cancel Event is set, before it runs.  (The two looks are one step: both
\* only ever turn true, and the second leads to another look at the status.)
CheckCanceled(w) ==
  /\ \E site \in {<<"screen", "screen_live">>, <<"enter", "starting">>, <<"begun", "running">>} :
       /\ WorkerAt(w, site[1])
       /\ CASE Tables!IsTerminal(Own(w)) -> WorkerGoto(w, "forget")
            [] ~Tables!IsTerminal(Own(w)) /\ Own(w) \in canceled ->
                 Decide(w, "confirm", "canceled", FALSE)
            [] OTHER -> WorkerGoto(w, site[2])
  /\ UNCHANGED <<tables, runtime, exec, call, processes>>

\* Fault: a queued command whose session is gone is skipped.
SkipNotLive(w) ==
  /\ WorkerAt(w, "screen_live")
  /\ WorkerGoto(w, IF worker[w].handle /\ IsRunning(Shell(w)) THEN "enter" ELSE "forget")
  /\ UNCHANGED <<tables, runtime, exec, call, processes>>

\* A queued command whose session is gone is canceled as session_not_live.
CheckLive(w) ==
  /\ WorkerAt(w, "screen_live")
  /\ IF worker[w].handle /\ IsRunning(Shell(w)) THEN WorkerGoto(w, "enter")
     ELSE Decide(w, "confirm", "canceled", TRUE)
  /\ UNCHANGED <<tables, runtime, exec, call, processes>>

\* The two progress updates.  A command that was finished since the last look
\* is protected by its row's constraint: the update raises.
SetProgress(w) ==
  /\ \E site \in {<<"starting", "started">>, <<"running", "launch">>} :
       /\ WorkerAt(w, site[1])
       /\ IF Tables!CanUpdateCommand(Own(w), site[1])
          THEN Tables!UpdateCommand(Own(w), site[1]) /\ WorkerGoto(w, site[2])
          ELSE UNCHANGED tables /\ WorkerGoto(w, "error")
  /\ UNCHANGED <<runtime, exec, call, processes>>

AppendStarted(w) ==
  /\ WorkerAt(w, "started")
  /\ Tables!AppendEvents(Own(w), <<"command_started">>)
  /\ WorkerGoto(w, "begun")
  /\ UNCHANGED <<runtime, exec, call, processes>>

Launch(w) ==
  /\ WorkerAt(w, "launch")
  /\ exec' = [exec EXCEPT ![Own(w)] = "ready"]
  /\ WorkerGoto(w, "watch")
  /\ UNCHANGED <<tables, runtime, call, processes>>

\* The loop that watches the execution thread: two reads, then round again.
Watch(w) ==
  /\ WorkerAt(w, "watch")
  /\ WorkerGoto(w, IF exec[Own(w)] \in Done THEN "ended"
                   ELSE IF Tables!IsTerminal(Own(w)) THEN "forget" ELSE "watch_cancel")
  /\ UNCHANGED <<tables, runtime, exec, call, processes>>

\* Fault: the worker leaves a canceled command to the call that canceled it.
LeaveCanceled(w) ==
  /\ WorkerAt(w, "watch_cancel")
  /\ WorkerGoto(w, IF Own(w) \in canceled THEN "forget" ELSE "watch")
  /\ UNCHANGED <<tables, runtime, exec, call, processes>>

WatchCancel(w) ==
  /\ WorkerAt(w, "watch_cancel")
  /\ IF Own(w) \in canceled THEN Decide(w, "kill", "canceled", TRUE) ELSE WorkerGoto(w, "watch")
  /\ UNCHANGED <<tables, runtime, exec, call, processes>>

\* Fault: the reason is stored for the status.
TimeoutAsReason(w) ==
  /\ WorkerAt(w, "watch_cancel")
  /\ Own(w) \in TimedCommands /\ Own(w) \notin canceled
  /\ Decide(w, "kill", "timeout", TRUE)
  /\ UNCHANGED <<tables, runtime, exec, call, processes>>

\* Fault: the timeout is recorded, and the shell is left to whoever comes next.
RecordAtOnce(w) ==
  /\ WorkerAt(w, "watch_cancel")
  /\ Own(w) \in TimedCommands /\ Own(w) \notin canceled
  /\ Decide(w, "confirm", "timed_out", TRUE)
  /\ UNCHANGED <<tables, runtime, exec, call, processes>>

\* Fault: the timeout is not handed to the worker.
NoDeadline(w) == FALSE

\* The deadline has passed; time is not modelled, so it may at every turn.
WatchDeadline(w) ==
  /\ WorkerAt(w, "watch_cancel")
  /\ Own(w) \in TimedCommands /\ Own(w) \notin canceled
  /\ Decide(w, "kill", "timed_out", TRUE)
  /\ UNCHANGED <<tables, runtime, exec, call, processes>>

WorkerKill(w) ==
  /\ WorkerAt(w, "kill")
  /\ Terminate(Shell(w), {Own(w)})
  /\ WorkerGoto(w, "confirm")
  /\ UNCHANGED <<tables, runtime, exec, call>>

\* Fault: no look at the cancel Event after the loop.
AsItEnded(w) == FALSE

FoundCanceled(w) == Own(w) \in canceled

\* What a hosted session printed is appended now.
AfterEnd(w) == {"finish"} \cup {"output" : s \in hosted \cap {Shell(w)}}

\* The execution is over.  A canceled command is recorded canceled however it
\* ended, in order not to win the race against the call that killed it.
Ended(w) ==
  /\ WorkerAt(w, "ended")
  /\ CASE Tables!IsTerminal(Own(w)) -> WorkerGoto(w, "forget")
       [] ~Tables!IsTerminal(Own(w)) /\ FoundCanceled(w) ->
            Decide(w, "confirm", "canceled", TRUE)
       [] OTHER ->
            \/ exec[Own(w)] = "ok" /\ \E pc \in AfterEnd(w) : Decide(w, pc, "completed", FALSE)
            \/ exec[Own(w)] = "bad" /\ \E pc \in AfterEnd(w) : Decide(w, pc, "failed", FALSE)
            \/ exec[Own(w)] = "error" /\ WorkerGoto(w, "stderr")
  /\ UNCHANGED <<tables, runtime, exec, call, processes>>

AppendOutput(w) ==
  /\ WorkerAt(w, "output")
  /\ IF MaxOutput > 0 THEN Tables!AppendEvents(Own(w), <<"stdout">>) ELSE UNCHANGED tables
  /\ WorkerGoto(w, "finish")
  /\ UNCHANGED <<runtime, exec, call, processes>>

AppendStderr(w) ==
  /\ WorkerAt(w, "stderr")
  /\ Tables!AppendEvents(Own(w), <<"stderr">>)
  /\ Decide(w, "finish", "failed", FALSE)
  /\ UNCHANGED <<runtime, exec, call, processes>>

\* Fault: no look at the status in the handler.
ReportAnyError(w) ==
  /\ WorkerAt(w, "error")
  /\ WorkerGoto(w, "stderr")
  /\ UNCHANGED <<tables, runtime, exec, call, processes>>

\* The handler of a rejected update.
WorkerError(w) ==
  /\ WorkerAt(w, "error")
  /\ WorkerGoto(w, IF Tables!IsTerminal(Own(w)) THEN "forget" ELSE "stderr")
  /\ UNCHANGED <<tables, runtime, exec, call, processes>>

\* _finish_canceled_if_active, and the look before _finish_timed_out.
Confirm(w) ==
  /\ WorkerAt(w, "confirm")
  /\ WorkerGoto(w, IF Tables!IsTerminal(Own(w)) THEN "forget"
                   ELSE IF worker[w].closes THEN "mark" ELSE "finish")
  /\ UNCHANGED <<tables, runtime, exec, call, processes>>

WorkerMark(w) ==
  /\ WorkerAt(w, "mark")
  /\ Tables!UpdateSession(Shell(w), "closed", TRUE)
  /\ WorkerGoto(w, "drop")
  /\ UNCHANGED <<runtime, exec, call, processes>>

WorkerDrop(w) ==
  /\ WorkerAt(w, "drop")
  /\ live' = [live EXCEPT ![Shell(w)] = FALSE]
  /\ WorkerGoto(w, "finish")
  /\ UNCHANGED <<tables, queue, registered, cancels, canceled, threadOf, exec, call, processes>>

\* Fault: the status is written without its event.
WorkerSetStatus(w) ==
  /\ WorkerAt(w, "finish")
  /\ IF Tables!CanUpdateCommand(Own(w), worker[w].outcome)
     THEN Tables!UpdateCommand(Own(w), worker[w].outcome) ELSE UNCHANGED tables
  /\ WorkerGoto(w, "forget")
  /\ UNCHANGED <<runtime, exec, call, processes>>

WorkerFinish(w) ==
  /\ WorkerAt(w, "finish")
  /\ Tables!FinishCommand(Own(w), worker[w].outcome)
  /\ WorkerGoto(w, "forget")
  /\ UNCHANGED <<runtime, exec, call, processes>>

Forget(w) ==
  /\ WorkerAt(w, "forget")
  /\ cancels' = cancels \ {Own(w)}
  /\ threadOf' = [threadOf EXCEPT ![Own(w)] = NoThread]
  /\ worker' = [worker EXCEPT ![w] = [NoWorker EXCEPT !.pc = "pop"]]
  /\ UNCHANGED <<tables, live, queue, registered, canceled, exec, call, processes>>

-----------------------------------------------------------------------------
(* _execute_command, ProcessSession.run_stream with the shell process, and   *)
(* PowerShell.run_result                                                     *)

ExecGoto(c, st) == exec' = [exec EXCEPT ![c] = st]

\* A command is refused while the shell is gone, before and after the session's
\* lock is taken.
ExecRefused(c) ==
  /\ exec[c] = "ready"
  /\ ~IsRunning(SessionOf(c))
  /\ ExecGoto(c, "error")
  /\ UNCHANGED <<tables, runtime, worker, call, processes>>

\* PowerShell looks at itself before it waits for the lock, and not after.
ExecCheck(c) ==
  /\ exec[c] = "ready"
  /\ SessionOf(c) \in hosted /\ IsRunning(SessionOf(c))
  /\ ExecGoto(c, "waiting")
  /\ UNCHANGED <<tables, runtime, worker, call, processes>>

ExecLock(c) ==
  /\ IF SessionOf(c) \in hosted THEN exec[c] = "waiting"
     ELSE exec[c] = "ready" /\ IsRunning(SessionOf(c))
  /\ Holders(SessionOf(c)) = {}
  /\ ExecGoto(c, "running")
  /\ UNCHANGED <<tables, runtime, worker, call, processes>>

\* The stdout callback: a look at the status, then the append.
ExecLine(c) ==
  /\ exec[c] = "running" /\ SessionOf(c) \notin hosted
  /\ Cardinality({e \in events[c] : e.type = "stdout"}) < MaxOutput
  /\ ~Tables!IsTerminal(c)
  /\ ExecGoto(c, "emitting")
  /\ UNCHANGED <<tables, runtime, worker, call, processes>>

ExecEmit(c) ==
  /\ exec[c] = "emitting"
  /\ Tables!AppendEvents(c, <<"stdout">>)
  /\ ExecGoto(c, "running")
  /\ UNCHANGED <<runtime, worker, call, processes>>

\* The sentinel is read, with the command's exit code (it may have been in the
\* pipe before the shell was killed).  A script may raise instead.
ExecEnd(c) ==
  /\ exec[c] = "running"
  /\ \E st \in Done : (st = "error" => SessionOf(c) \in hosted) /\ ExecGoto(c, st)
  /\ UNCHANGED <<tables, runtime, worker, call, processes>>

\* End of file instead of a sentinel.
ExecEof(c) ==
  /\ exec[c] = "running" /\ SessionOf(c) \notin hosted
  /\ shell[SessionOf(c)] = "dead"
  /\ ExecGoto(c, "error")
  /\ UNCHANGED <<tables, runtime, worker, call, processes>>

\* The shell exits on its own, or something outside LiveShell ends it.
ShellExits(s) ==
  /\ IsRunning(s) /\ s \notin hosted
  /\ shell' = [shell EXCEPT ![s] = "dead"]
  /\ UNCHANGED <<tables, runtime, threads, hosted, killedFor>>

-----------------------------------------------------------------------------
(* Session.__del__ of runtime.py *)

\* The locals that hold the session object.  That of the queue worker is not
\* looked at again after the command, and not counted until the next pop.
CallRefers(k, s) ==
  call[k].session = s /\ (call[k].op \in {"create", "start"} \/ call[k].handle)
WorkerRefers(w, s) == Own(w) # NoCommand /\ SessionOf(Own(w)) = s /\ worker[w].handle
ExecRefers(c, s) == exec[c] \notin {"none"} \cup Done /\ SessionOf(c) = s

IsReferenced(s) ==
  \/ live[s]
  \/ \E k \in Callers : CallRefers(k, s)
  \/ \E c \in Commands : WorkerRefers(c, s) \/ ExecRefers(c, s)

\* Fault: a session object is not closed with its last reference.
NeverFinalized(s) == FALSE

\* A session object that nothing refers to closes itself, with its shell.  The
\* thread that lets it go does that, before it goes on, or the collector does.
Finalize(s) ==
  /\ IsRunning(s) /\ ~IsReferenced(s)
  /\ shell' = [shell EXCEPT ![s] = "dead"]
  /\ UNCHANGED <<tables, runtime, threads, hosted, killedFor>>

ShellEnds(s) == ShellExits(s) \/ Finalize(s)

-----------------------------------------------------------------------------
CallContinues(k) ==
  \/ Spawn(k) \/ Adopt(k) \/ SetRunning(k) \/ CreateClose(k) \/ CreateCrash(k)
  \/ Insert(k) \/ Register(k) \/ ThreadStart(k)
  \/ CancelLock(k) \/ SetEvents(k) \/ Kill(k) \/ Mark(k) \/ Drop(k)
  \/ Finish(k) \/ Join(k) \/ Shut(k) \/ Stamp(k)

CallBegins(k) ==
  \/ \E s \in Sessions : CreateBegin(k, s) \/ CloseBegin(k, s)
  \/ \E s \in Sessions, c \in Commands : StartBegin(k, s, c)
  \/ \E c \in Commands : CancelBegin(k, c)

WorkerSteps(w) ==
  \/ PopNothing(w) \/ Pop(w) \/ CheckCanceled(w) \/ CheckLive(w)
  \/ SetProgress(w) \/ AppendStarted(w) \/ Launch(w) \/ Watch(w) \/ WatchCancel(w)
  \/ WatchDeadline(w) \/ WorkerKill(w) \/ Ended(w) \/ AppendOutput(w) \/ AppendStderr(w)
  \/ WorkerError(w) \/ Confirm(w) \/ WorkerMark(w) \/ WorkerDrop(w) \/ WorkerFinish(w)
  \/ Forget(w)

ExecSteps(c) ==
  \/ ExecRefused(c) \/ ExecCheck(c) \/ ExecLock(c) \/ ExecLine(c) \/ ExecEmit(c) \/ ExecEnd(c) \/ ExecEof(c)

Next ==
  \/ \E k \in Callers : CallBegins(k) \/ CallContinues(k)
  \/ \E c \in Commands : WorkerSteps(c) \/ ExecSteps(c)
  \/ \E s \in Sessions : ShellEnds(s)

Spec == Init /\ [][Next]_vars

\* Threads that can go on do go on, a call once begun is carried through, and
\* the watch loop looks at the clock again and again, so it notices a deadline
\* that has passed.  A session object that nothing refers to is finalized sooner
\* or later.  Nothing says that a command of the user ends (ExecEnd), that it
\* prints, that a client calls, or that a shell exits by itself.
Fairness ==
  /\ \A k \in Callers : WF_vars(CallContinues(k))
  /\ \A c \in Commands :
       /\ WF_vars(WorkerSteps(c))
       /\ WF_vars(ExecRefused(c) \/ ExecCheck(c) \/ ExecLock(c) \/ ExecEmit(c) \/ ExecEof(c))
  /\ \A c \in TimedCommands :
       SF_vars(\E w \in Commands : Own(w) = c /\ WatchDeadline(w))
  /\ \A s \in Sessions : WF_vars(Finalize(s))

FairSpec == Spec /\ Fairness

-----------------------------------------------------------------------------
TypeOK ==
  /\ Tables!TypeOK
  /\ live \in [Sessions -> BOOLEAN]
  /\ queue \in [Sessions -> Seq(Commands)]
  /\ registered \in [Sessions -> Commands \cup {NoThread}]
  /\ cancels \subseteq Commands /\ canceled \subseteq Commands
  /\ threadOf \in [Commands -> Commands \cup {NoThread}]
  /\ worker \in [Commands -> Workers]
  /\ exec \in [Commands -> ExecStates]
  /\ hosted \subseteq MayBeHosted
  /\ shell \in [Sessions -> {"none", "alive", "dead"}]
  /\ killedFor \in [Sessions -> SUBSET Commands]
  /\ call \in [Callers -> Calls]

Unstarted(w) == worker[w].pc = "unstarted" /\ \E k \in Callers : At(k, "thread_start") /\ call[k].command = w

\* A command that is not terminal is in somebody's hands: the call that is
\* about to queue it, a queue with a worker that runs or is about to be
\* started, a worker that took it, or the close that found it active.  No
\* interleaving of starts, closes, cancels and exiting workers strands one.
NoCommandStranded ==
  \A c \in Commands : Tables!IsActive(c) =>
    \/ \E k \in Callers : At(k, "register") /\ call[k].command = c
    \/ /\ \E i \in DOMAIN queue[SessionOf(c)] : queue[SessionOf(c)][i] = c
       /\ \E w \in Commands : Shell(w) = SessionOf(c) /\ (IsAlive(w) \/ Unstarted(w))
    \/ \E w \in Commands : Own(w) = c /\ worker[w].pc # "forget"
    \/ \E k \in Callers : call[k].op = "close" /\ c \in call[k].todo

\* A command whose execution broke off because its shell was killed to cancel
\* it or to time it out is never recorded as failed, whichever of the calling
\* thread and the worker comes to finish it: the race the comment in
\* _run_command_worker is about.
KilledIsNotFailed ==
  \A c \in Commands :
    exec[c] = "error" /\ c \in killedFor[SessionOf(c)] => command[c].status # "failed"

\* A command is executing only while its worker watches it or after it has
\* become terminal, and then no worker will record a second ending.
ExecutionIsWatched ==
  \A c \in Commands : exec[c] \notin {"none"} \cup Done =>
    \/ Tables!IsTerminal(c)
    \/ \E w \in Commands : Own(w) = c /\ worker[w].pc \in {"watch", "watch_cancel", "kill",
                                                          "confirm", "mark", "drop", "finish"}

\* The shell of a session that the service no longer lists is in the hands of
\* somebody who goes on to end it: no shell process is left behind that no call
\* can reach.
ShellIsOwned ==
  \A s \in Sessions : IsRunning(s) =>
    \/ live[s]
    \/ \E k \in Callers :
         /\ call[k].session = s
         /\ \/ call[k].pc = "adopt"
            \/ call[k].handle /\ call[k].closes /\ call[k].pc \in {"set", "kill", "shut"}
    \/ \E w \in Commands : WorkerAt(w, "kill") /\ Shell(w) = s

\* A command is recorded as timed out only when its shell is gone, however the
\* deadline, a cancel, a close and the end of the execution race: when a client
\* reads that it timed out, what it ran runs no more.
KilledBeforeRecorded ==
  \A c \in Commands : command[c].status = "timed_out" => ~IsRunning(SessionOf(c))

\* The promise to clients: the events of a command by their seq, and its status.
Lifecycle == INSTANCE CommandLifecycle WITH
  status <- [c \in Commands |-> command[c].status],
  log <- [c \in Commands |-> [i \in 1..Cardinality(events[c]) |->
                               (CHOOSE e \in events[c] : e.seq = i).type]]

\* Every interleaving of calls, workers and execution threads shows a client
\* the life of a command in order, with one end, whatever raced.
ImplementsLifecycle == Lifecycle!Spec

\* The threads use the tables by transactions of CommandStore only, so what is
\* proved of every use of the tables holds of this one.
ImplementsStore == Tables!Spec

-----------------------------------------------------------------------------
\* A script of a hosted session, which nothing can interrupt.
ScriptRuns == \E c \in Commands : exec[c] = "running" /\ SessionOf(c) \in hosted

\* A command that is running with a timeout ends, though it may never end by
\* itself, and whatever else is going on in its session: but not while a script
\* of a hosted session runs for ever.
TimeoutIsEnforced ==
  \A c \in TimedCommands :
    command[c].status = "running" ~> Tables!IsTerminal(c) \/ []ScriptRuns

\* The commands of a session that the service has dropped end, those too that a
\* start brings in afterwards and those that would run for ever, scripts excepted.
DroppedSessionsSettle ==
  \A c \in Commands :
    Tables!IsActive(c) /\ ~live[SessionOf(c)] ~> Tables!IsTerminal(c) \/ []ScriptRuns

\* Every call returns; close_session does not wait for ever for the lock of a
\* session object, unless a script of a hosted session holds it.
EveryCallReturns ==
  \A k \in Callers : call[k].op # "none" ~> call[k].op = "none" \/ []ScriptRuns

\* The shell of a session that the service does not list ends, whoever dropped it:
\* a cancel that killed nothing leaves it to the session object.  Except that a
\* command executes in it for ever, with the object's lock in its hands.
UnlistedShellEnds ==
  \A s \in Sessions :
    IsRunning(s) /\ ~live[s] ~> ~IsRunning(s) \/ live[s] \/ [](Holders(s) # {})

-----------------------------------------------------------------------------
(* Claims of the repository that the runs refute *)

\* test_production_readiness.py:278: while the first command of a session has
\* not ended, the second is queued.
OneRunsAtATime ==
  \A c, d \in Commands :
    /\ command[c].status \in Tables!Progress /\ command[d].status \in Tables!Progress
    /\ SessionOf(c) = SessionOf(d)
    => c = d

\* daemon.py:635: when the cancel Event is found set after the execution has
\* ended, cancel_command has killed the process, or is about to.  For that the
\* command is recorded canceled with "process_killed", and its session closed.
CancelAfterEndMeansKilled ==
  \A w \in Commands :
    WorkerAt(w, "finish") /\ worker[w].outcome = "canceled" /\ worker[w].closes
    => \/ ~IsRunning(Shell(w))
       \/ \E k \in Callers : call[k].session = Shell(w) /\ call[k].handle /\ call[k].closes
                             /\ call[k].pc \in {"set", "kill"}
=============================================================================
