--------------------------- MODULE ServiceProofs ----------------------------
(***************************************************************************)
(* Theorems about Service, for any number of sessions, commands and        *)
(* callers, whatever operations each caller uses, for process backed and   *)
(* for hosted sessions, with and without timeouts, and for any amount of   *)
(* output.                                                                 *)
(*                                                                         *)
(* The inductive invariant comes in layers, each proved from those before  *)
(* it: Shapes (types, and which references hold), Places (who has a        *)
(* command), Progressing (how far it has come), Stored (the invariant of   *)
(* the store) and Counted (its events), which make Core; then NewSessions  *)
(* (nothing is started in a session that is being made), Killing (who      *)
(* killed a command) and, where nobody cancels, Owning (who has the        *)
(* shell).  The two refinements need Core, and LifecycleImplemented that a *)
(* queued command does not execute (QueuedIsIdle).                         *)
(***************************************************************************)
EXTENDS Service, FiniteSetTheorems, SequenceTheorems, TLAPS

StoreProofs == INSTANCE CommandStoreProofs WITH MaxSeq <- MaxOutput + 3, MaxBatch <- 1

-----------------------------------------------------------------------------
(* Types and shapes *)

\* TypeOK without the rows of the events and the references between the
\* tables, which are the store's.
Typed ==
  /\ session \in [Sessions -> Tables!SessionRows]
  /\ command \in [Commands -> Tables!CommandRows]
  /\ live \in [Sessions -> BOOLEAN]
  /\ queue \in [Sessions -> Seq(Commands)]
  /\ registered \in [Sessions -> Commands \cup {NoThread}]
  /\ cancels \subseteq Commands /\ canceled \subseteq Commands
  /\ threadOf \in [Commands -> Commands \cup {NoThread}]
  /\ exec \in [Commands -> ExecStates]
  /\ hosted \subseteq MayBeHosted
  /\ shell \in [Sessions -> {"none", "alive", "dead"}]
  /\ killedFor \in [Sessions -> SUBSET Commands]

CreatePcs == {"spawn", "adopt", "set_running", "create_close", "create_crash"}
StartPcs == {"insert", "register", "thread_start"}
EndPcs == {"cancel_lock", "set", "kill", "mark", "drop", "finish"}
EndingPcs == {"confirm", "mark", "drop", "finish"}

\* A call has the session it is about; a start has its command; a cancel or a
\* close has the commands it still has to finish, and is at one of them.
CallsShaped ==
  /\ call \in [Callers -> Calls]
  /\ \A k \in Callers :
       /\ call[k].pc = "idle" <=> call[k].op = "none"
       /\ call[k].pc = "idle" => call[k].command = NoCommand
       /\ call[k].pc # "idle" => call[k].session \in Sessions
       /\ call[k].op = "start" <=> call[k].pc \in StartPcs
       /\ call[k].pc \in StartPcs => call[k].command \in Commands
       /\ call[k].pc \in EndPcs => call[k].command \in call[k].todo
       /\ call[k].pc \notin EndPcs => call[k].todo = {}
       /\ call[k].pc = "cancel_lock" => call[k].op = "cancel"

\* A worker has a command unless it rests, and an outcome where it needs one.
Resting == {"none", "unstarted", "pop", "dead"}
NeedsOutcome == {"kill", "output"} \cup EndingPcs
WorkersShaped ==
  /\ worker \in [Commands -> Workers]
  /\ \A w \in Commands :
       /\ worker[w].pc \in Resting <=> Own(w) = NoCommand
       /\ worker[w].pc \in NeedsOutcome => worker[w].outcome \in Tables!Terminal

\* Wherever a command is, its row is there and names the session in question.
RowOf(c, s) == c \in Commands /\ command[c].status # "absent" /\ SessionOf(c) = s
References ==
  /\ \A c \in Commands : command[c].status # "absent" => SessionOf(c) \in Sessions
  /\ \A k \in Callers :
       /\ call[k].pc \in {"register", "thread_start"} => RowOf(call[k].command, call[k].session)
       /\ \A c \in call[k].todo : RowOf(c, call[k].session)
  /\ \A s \in Sessions :
       /\ \A i \in DOMAIN queue[s] : RowOf(queue[s][i], s)
       /\ registered[s] # NoThread => RowOf(registered[s], s)
  /\ \A w \in Commands :
       /\ worker[w].pc # "none" => RowOf(w, Shell(w))
       /\ worker[w].pc \notin Resting => RowOf(Own(w), Shell(w))

Shapes == Typed /\ CallsShaped /\ WorkersShaped /\ References

-----------------------------------------------------------------------------
(* Who has a command *)

Present(c) == command[c].status # "absent"
Queued(c, s) == \E i \in DOMAIN queue[s] : queue[s][i] = c

\* A command that no queue has seen yet: its start call is still to insert it,
\* or has inserted it and is still to queue it.
Unregistered(c) == ~Present(c) \/ \E k \in Callers : At(k, "register") /\ call[k].command = c

\* The start of a command is one call, which finds at each of its steps what
\* the one before has left.
StartsApart ==
  /\ \A j, k \in Callers :
       call[j].pc \in StartPcs /\ call[k].pc \in StartPcs /\ call[j].command = call[k].command
       => j = k
  /\ \A k \in Callers :
       /\ At(k, "insert") => ~Present(call[k].command)
       /\ At(k, "thread_start") => worker[call[k].command].pc = "unstarted"

\* Nothing has to do with a command before it is registered.
UnregisteredIsFree ==
  \A c \in Commands : Unregistered(c) =>
    /\ worker[c].pc = "none" /\ exec[c] = "none"
    /\ \A w \in Commands : Own(w) # c
    /\ \A s \in Sessions : ~Queued(c, s)

\* A command in a queue is there once, is in no worker's hands and has its
\* cancel Event.
QueuedIsFree ==
  \A s \in Sessions :
    /\ \A i, j \in DOMAIN queue[s] : queue[s][i] = queue[s][j] => i = j
    /\ \A i \in DOMAIN queue[s] :
         /\ exec[queue[s][i]] = "none" /\ queue[s][i] \in cancels
         /\ \A w \in Commands : Own(w) # queue[s][i]

\* A command is in the hands of one worker.
OwnersApart ==
  \A v, w \in Commands : Own(v) = Own(w) /\ Own(w) \in Commands => v = w

\* A worker that is not started has its start call.
UnstartedIsCalled == \A w \in Commands : worker[w].pc = "unstarted" => Unstarted(w)

Places == StartsApart /\ UnregisteredIsFree /\ QueuedIsFree /\ OwnersApart /\ UnstartedIsCalled

-----------------------------------------------------------------------------
(* How far a command has come *)

NotLaunched == {"screen", "screen_live", "enter", "starting", "started", "begun", "running",
                "launch", "error"}
Undecided == {"launch", "watch", "watch_cancel", "kill", "ended", "output", "stderr"}

\* What a worker at pc that decided on outcome knows of its command c: what the
\* execution and the row can be.  Only its worker ends a command otherwise than
\* canceled, and then it is about to forget it.
Knows(c, pc, outcome) ==
  LET st == command[c].status
  IN /\ pc \in NotLaunched => exec[c] = "none"
     /\ pc \in {"ended", "output", "stderr"} => exec[c] \in Done
     /\ pc = "stderr" => exec[c] = "error"
     /\ pc = "output" => SessionOf(c) \in hosted
     /\ pc \in {"error", "forget"} => st \in Tables!Terminal
     /\ pc = "kill" /\ outcome = "canceled" => c \in canceled
     /\ pc \in {"kill", "confirm", "mark", "drop"} => outcome \in {"canceled", "timed_out"}
     /\ pc \in {"output", "finish"} /\ outcome = "completed" => exec[c] = "ok"
     /\ pc \in {"output", "finish"} /\ outcome = "failed" => exec[c] \in {"bad", "error"}
     /\ pc \in {"screen", "screen_live", "enter", "starting"} => st \in {"queued", "canceled"}
     /\ pc \in {"started", "begun", "running"} => st \in {"starting", "canceled"}
     /\ pc \in Undecided => st \in {"running", "canceled"}
     /\ pc = "error" => st = "canceled"
     /\ pc \in EndingPcs =>
          /\ st \in {"queued", "starting", "running", "canceled"}
          /\ outcome # "canceled" => st \in {"running", "canceled"}

OwnersKnow ==
  \A w \in Commands : Own(w) \in Commands => Knows(Own(w), worker[w].pc, worker[w].outcome)

\* The same of a command in no worker's hands.
OthersFollow ==
  \A c \in Commands :
    /\ command[c].endedAt <=> Tables!IsTerminal(c)
    /\ Unregistered(c) => command[c].status \in {"absent", "queued", "canceled"}
    /\ \A s \in Sessions : Queued(c, s) => command[c].status \in {"queued", "canceled"}
    /\ command[c].status \in {"completed", "failed"} => exec[c] \in Done
    /\ command[c].status = "failed" => exec[c] # "ok"

\* A command keeps its cancel Event from its registration to its end.
ActiveHasEvent == \A c \in Commands : Tables!IsActive(c) => Unregistered(c) \/ c \in cancels

\* A queue that is not empty has a worker that runs or is about to be started.
QueueIsServed ==
  \A s \in Sessions : queue[s] # <<>> =>
    \E w \in Commands : Shell(w) = s /\ (IsAlive(w) \/ Unstarted(w))

Progressing == OwnersKnow /\ OthersFollow /\ ActiveHasEvent
               /\ QueueIsServed /\ NoCommandStranded /\ ExecutionIsWatched

-----------------------------------------------------------------------------
(* What a command has logged *)

Rows(c, type) == {e \in events[c] : e.type = type}
Ends(c) == {e \in events[c] : e.type \in Tables!TerminalEvents}

BeforeStart == {"screen", "screen_live", "enter", "starting", "started"}
NotStarted(c) ==
  \/ Unregistered(c)
  \/ \E s \in Sessions : Queued(c, s)
  \/ \E w \in Commands : Own(w) = c /\ worker[w].pc \in BeforeStart

\* A command reports its start once, prints after that and while it executes,
\* and an error or, in a hosted session, its output is reported at the end.
LoggedOf(c) ==
  /\ NotStarted(c) => Rows(c, "command_started") = {}
  /\ \/ exec[c] # "none"
     \/ \E w \in Commands : Own(w) = c /\ worker[w].pc \in {"begun", "running", "launch"}
     => Rows(c, "command_started") # {}
  /\ exec[c] = "none" => Rows(c, "stdout") = {} /\ Rows(c, "stderr") = {}
  /\ exec[c] = "emitting" => SessionOf(c) \notin hosted /\ Cardinality(Rows(c, "stdout")) < MaxOutput
  /\ Rows(c, "stderr") # {} \/ (SessionOf(c) \in hosted /\ Rows(c, "stdout") # {}) =>
       /\ exec[c] \in Done
       /\ \A w \in Commands : Own(w) = c => worker[w].pc \in {"finish", "forget"}

CountsOf(c) ==
  /\ IsFiniteSet(events[c])
  /\ Cardinality(Rows(c, "command_started")) <= 1
  /\ Cardinality(Rows(c, "stdout")) <= MaxOutput
  /\ Cardinality(Rows(c, "stderr")) <= 1

Counted == \A c \in Commands : LoggedOf(c) /\ CountsOf(c)

-----------------------------------------------------------------------------
(* New sessions *)

\* create_session has its session for itself: nothing is started in a session
\* whose shell is still to be listed.
Creating(k) == call[k].pc \in {"spawn", "adopt", "set_running"}
NewSessions ==
  /\ \A k \in Callers : Creating(k) =>
       /\ session[call[k].session].status \notin {"absent", "running"}
       /\ \A c \in Commands : Present(c) => SessionOf(c) # call[k].session
       /\ \A j \in Callers :
            /\ At(j, "insert") => call[j].session # call[k].session
            /\ j # k /\ Creating(j) => call[j].session # call[k].session
  /\ \A k \in Callers : At(k, "insert") => session[call[k].session].status # "absent"

-----------------------------------------------------------------------------
(* Who killed a command *)

\* A command that a close took before it was registered: its session is not
\* listed any more, so its worker will cancel it and not run it.
Doomed(c) ==
  /\ exec[c] = "none" /\ ~live[SessionOf(c)]
  /\ \A w \in Commands : Own(w) = c =>
       \/ worker[w].pc \in {"screen", "screen_live"} /\ ~worker[w].handle
       \/ worker[w].pc \in EndingPcs /\ worker[w].outcome = "canceled"
       \/ worker[w].pc = "forget"

\* A command that nobody will record as failed.
Spared(c) ==
  /\ command[c].status # "failed"
  /\ \A w \in Commands : Own(w) = c =>
       /\ worker[w].pc \notin {"output", "stderr"}
       /\ worker[w].pc \in EndingPcs => worker[w].outcome \in {"canceled", "timed_out"}
  /\ \/ Tables!IsTerminal(c) \/ c \in canceled \/ Doomed(c)
     \/ \E w \in Commands : Own(w) = c /\ worker[w].pc \in EndingPcs

KilledAreSpared ==
  \A s \in Sessions : \A c \in killedFor[s] :
    RowOf(c, s) /\ (exec[c] \in {"ok", "bad"} \/ Spared(c))

\* A call that is going to kill the shell has set the cancel Event of each of
\* the commands it kills it for, or the command needs none.
KillersWarn ==
  \A k \in Callers :
    /\ At(k, "cancel_lock") => call[k].todo = {call[k].command}
    /\ At(k, "cancel_lock") /\ call[k].closes =>
         \A c \in call[k].todo : c \in cancels \/ Tables!IsTerminal(c)
    /\ call[k].pc \in {"set", "kill"} /\ call[k].closes =>
         \A c \in call[k].todo : c \in call[k].events \/ Tables!IsTerminal(c) \/ Doomed(c)
    /\ At(k, "kill") => call[k].events \subseteq canceled /\ call[k].closes

Killing == KilledAreSpared /\ KillersWarn

-----------------------------------------------------------------------------
(* Who has the shell, where nobody uses cancel_command *)

Owning ==
  /\ ShellIsOwned
  /\ \A k \in Callers :
       /\ call[k].op # "cancel"
       /\ call[k].pc \in EndPcs => ~live[call[k].session]
       /\ At(k, "set") => call[k].events \subseteq call[k].todo
  /\ \A c \in canceled : Present(c) /\ ~live[SessionOf(c)]
  /\ \A w \in Commands : Own(w) \in Commands =>
       /\ ~worker[w].handle => ~live[Shell(w)]
       /\ worker[w].pc \in {"mark", "drop"} \/ (worker[w].pc = "confirm" /\ worker[w].closes)
          => ~live[Shell(w)] \/ ~IsRunning(Shell(w))

-----------------------------------------------------------------------------
(* What the steps leave alone *)

\* The steps of calls that leave commands, queues and threads alone.
QuietCall(k) ==
  \/ \E s \in Sessions : CreateBegin(k, s)
  \/ \E s \in Sessions, c \in Commands : StartBegin(k, s, c)
  \/ \E c \in Commands : CancelBegin(k, c)
  \/ Spawn(k) \/ Adopt(k) \/ SetRunning(k) \/ CreateClose(k) \/ CreateCrash(k)
  \/ CancelLock(k) \/ SetEvents(k) \/ Kill(k) \/ Mark(k) \/ Drop(k)
  \/ Join(k) \/ Shut(k) \/ Stamp(k)

\* The steps of a worker that leave the rows of commands, queues and executions
\* alone, and take the worker on with the command it has.
QuietWorker(w) ==
  \/ CheckCanceled(w) \/ CheckLive(w) \/ Watch(w) \/ WatchCancel(w) \/ WatchDeadline(w)
  \/ WorkerKill(w) \/ Ended(w) \/ WorkerError(w) \/ Confirm(w) \/ WorkerMark(w) \/ WorkerDrop(w)
  \/ AppendStarted(w) \/ AppendOutput(w) \/ AppendStderr(w)

LEMMA NextCases ==
  ASSUME [Next]_vars
  PROVE  \/ UNCHANGED vars
         \/ \E k \in Callers : \/ QuietCall(k)
                               \/ Insert(k) \/ Register(k) \/ ThreadStart(k) \/ Finish(k)
                               \/ \E s \in Sessions : CloseBegin(k, s)
         \/ \E w \in Commands : \/ QuietWorker(w)
                                \/ PopNothing(w) \/ Pop(w) \/ SetProgress(w) \/ Launch(w)
                                \/ WorkerFinish(w) \/ Forget(w)
         \/ \E c \in Commands : ExecSteps(c)
         \/ \E s \in Sessions : ShellEnds(s)
PROOF
  <1>1. ASSUME NEW k \in Callers, CallBegins(k)
        PROVE  QuietCall(k) \/ \E s \in Sessions : CloseBegin(k, s)
    BY <1>1, Zenon DEF CallBegins, QuietCall
  <1>2. ASSUME NEW k \in Callers, CallContinues(k)
        PROVE  QuietCall(k) \/ Insert(k) \/ Register(k) \/ ThreadStart(k) \/ Finish(k)
    BY <1>2, Zenon DEF CallContinues, QuietCall
  <1>3. ASSUME NEW w \in Commands, WorkerSteps(w)
        PROVE  \/ QuietWorker(w)
               \/ PopNothing(w) \/ Pop(w) \/ SetProgress(w) \/ Launch(w)
               \/ WorkerFinish(w) \/ Forget(w)
    BY <1>3, Zenon DEF WorkerSteps, QuietWorker
  <1> QED
    BY <1>1, <1>2, <1>3, Zenon DEF Next

LEMMA QuietCallFrame ==
  ASSUME NEW k \in Callers, QuietCall(k)
  PROVE  UNCHANGED <<command, events, queue, registered, cancels, threadOf, worker, exec, hosted>>
PROOF
  <1> USE DEF tables, runtime, processes
  <1>1. CASE \E s \in Sessions : CreateBegin(k, s)
    BY <1>1 DEF CreateBegin, Tables!CreateSession
  <1>2. CASE (\E s \in Sessions, c \in Commands : StartBegin(k, s, c)) \/ \E c \in Commands : CancelBegin(k, c)
    BY <1>2 DEF StartBegin, CancelBegin
  <1>3. CASE SetRunning(k) \/ CreateCrash(k) \/ Mark(k) \/ Stamp(k)
    BY <1>3 DEF SetRunning, CreateCrash, Mark, Stamp, Tables!UpdateSession
  <1>4. CASE Spawn(k) \/ Adopt(k) \/ CreateClose(k) \/ CancelLock(k) \/ SetEvents(k)
    BY <1>4 DEF Spawn, Adopt, CreateClose, CancelLock, SetEvents
  <1>5. CASE Kill(k) \/ Drop(k) \/ Join(k) \/ Shut(k)
    BY <1>5 DEF Kill, Drop, Join, Shut, Terminate
  <1> QED
    BY <1>1, <1>2, <1>3, <1>4, <1>5 DEF QuietCall

LEMMA QuietWorkerFrame ==
  ASSUME NEW w \in Commands, QuietWorker(w)
  PROVE  /\ UNCHANGED <<command, queue, registered, cancels, canceled, threadOf, exec, call, hosted>>
         /\ worker[w].pc \notin Resting \cup {"forget"}
PROOF
  <1> USE DEF tables, runtime, processes, Resting, WorkerAt
  <1>0. CASE CheckCanceled(w)
    BY <1>0 DEF CheckCanceled
  <1>1. CASE CheckLive(w) \/ Watch(w) \/ WatchCancel(w) \/ WatchDeadline(w)
    BY <1>1 DEF CheckLive, Watch, WatchCancel, WatchDeadline
  <1>2. CASE WorkerKill(w) \/ Ended(w) \/ WorkerError(w) \/ Confirm(w)
    BY <1>2 DEF WorkerKill, Ended, WorkerError, Confirm, Terminate
  <1>3. CASE WorkerMark(w) \/ WorkerDrop(w)
    BY <1>3 DEF WorkerMark, WorkerDrop, Tables!UpdateSession
  <1>4. CASE AppendStarted(w) \/ AppendOutput(w) \/ AppendStderr(w)
    BY <1>4 DEF AppendStarted, AppendOutput, AppendStderr, Tables!AppendEvents
  <1> QED
    BY <1>0, <1>1, <1>2, <1>3, <1>4 DEF QuietWorker

LEMMA ExecFrame ==
  ASSUME NEW c \in Commands, ExecSteps(c)
  PROVE  /\ UNCHANGED <<session, command, runtime, worker, call, processes>>
         /\ \E st \in ExecStates \ {"none"} : exec' = [exec EXCEPT ![c] = st]
         /\ exec[c] \in ExecStates \ ({"none"} \cup Done)
PROOF
  <1> USE DEF ExecSteps, ExecGoto, ExecStates, Done, tables
  <1>1. CASE ExecRefused(c) \/ ExecCheck(c) \/ ExecLock(c) \/ ExecLine(c)
    BY <1>1 DEF ExecRefused, ExecCheck, ExecLock, ExecLine
  <1>2. CASE ExecEnd(c) \/ ExecEof(c) \/ ExecEmit(c)
    BY <1>2 DEF ExecEnd, ExecEof, ExecEmit, Tables!AppendEvents
  <1> QED
    BY <1>1, <1>2

-----------------------------------------------------------------------------
(* How threads move *)

LEMMA WorkerMoves ==
  ASSUME WorkersShaped, NEW w \in Commands, NEW pc \in WorkerPcs, WorkerGoto(w, pc),
         pc \in Resting <=> worker[w].pc \in Resting,
         pc \in NeedsOutcome => worker[w].outcome \in Tables!Terminal
  PROVE  /\ WorkersShaped'
         /\ worker'[w].pc = pc /\ worker'[w].command = worker[w].command
         /\ worker'[w].handle = worker[w].handle
         /\ worker'[w].outcome = worker[w].outcome /\ worker'[w].closes = worker[w].closes
         /\ \A v \in Commands : v # w => worker'[v] = worker[v]
PROOF
  <1>1. worker' \in [Commands -> Workers]
    BY DEF WorkersShaped, WorkerGoto, Workers
  <1>2. /\ worker'[w] = [worker[w] EXCEPT !.pc = pc]
        /\ \A v \in Commands : v # w => worker'[v] = worker[v]
    BY DEF WorkersShaped, WorkerGoto
  <1>3. worker[w] \in Workers
    BY DEF WorkersShaped
  <1>4. /\ worker'[w].pc = pc /\ worker'[w].command = worker[w].command
        /\ worker'[w].handle = worker[w].handle
        /\ worker'[w].outcome = worker[w].outcome /\ worker'[w].closes = worker[w].closes
    BY <1>2, <1>3 DEF Workers
  <1> QED
    BY <1>1, <1>2, <1>4 DEF WorkersShaped, Own

LEMMA WorkerDecides ==
  ASSUME WorkersShaped, NEW w \in Commands, NEW pc \in NeedsOutcome,
         NEW outcome \in Tables!Terminal, NEW closes \in BOOLEAN,
         Decide(w, pc, outcome, closes), worker[w].pc \notin Resting
  PROVE  /\ WorkersShaped'
         /\ worker'[w].pc = pc /\ worker'[w].command = worker[w].command
         /\ worker'[w].handle = worker[w].handle
         /\ worker'[w].outcome = outcome /\ worker'[w].closes = closes
         /\ \A v \in Commands : v # w => worker'[v] = worker[v]
PROOF
  <1>0. pc \in WorkerPcs /\ pc \notin Resting
    BY DEF NeedsOutcome, EndingPcs, WorkerPcs, Resting
  <1> DEFINE new == [worker[w] EXCEPT !.pc = pc, !.outcome = outcome, !.closes = closes]
  <1>3. worker[w] \in Workers
    BY DEF WorkersShaped
  <1>a. new \in Workers
    BY <1>0, <1>3 DEF Workers
  <1>b. worker' = [worker EXCEPT ![w] = new]
    BY DEF Decide
  <1>1. worker' \in [Commands -> Workers]
    BY <1>a, <1>b DEF WorkersShaped
  <1>2. worker'[w] = new /\ \A v \in Commands : v # w => worker'[v] = worker[v]
    BY <1>b DEF WorkersShaped
  <1>4. /\ worker'[w].pc = pc /\ worker'[w].command = worker[w].command
        /\ worker'[w].handle = worker[w].handle
        /\ worker'[w].outcome = outcome /\ worker'[w].closes = closes
    BY <1>2, <1>3 DEF Workers
  <1> QED
    BY <1>0, <1>1, <1>2, <1>4 DEF WorkersShaped, Own

LEMMA CallMoves ==
  ASSUME call \in [Callers -> Calls], NEW k \in Callers, NEW pc \in CallPcs, Goto(k, pc)
  PROVE  /\ call' \in [Callers -> Calls]
         /\ call'[k].pc = pc /\ call'[k].op = call[k].op
         /\ call'[k].session = call[k].session /\ call'[k].command = call[k].command
         /\ call'[k].handle = call[k].handle /\ call'[k].closes = call[k].closes
         /\ call'[k].events = call[k].events /\ call'[k].joins = call[k].joins
         /\ call'[k].todo = call[k].todo
         /\ \A j \in Callers : j # k => call'[j] = call[j]
PROOF
  <1>1. call' \in [Callers -> Calls]
    BY DEF Goto, Calls
  <1>2. call'[k] = [call[k] EXCEPT !.pc = pc] /\ \A j \in Callers : j # k => call'[j] = call[j]
    BY DEF Goto
  <1>3. call[k] \in Calls
    OBVIOUS
  <1> QED
    BY <1>1, <1>2, <1>3 DEF Calls

LEMMA CallReturns ==
  ASSUME call \in [Callers -> Calls], NEW k \in Callers, Return(k)
  PROVE  /\ call' \in [Callers -> Calls]
         /\ call'[k] = NoCall /\ call'[k].pc = "idle" /\ call'[k].op = "none"
         /\ call'[k].command = NoCommand /\ call'[k].todo = {}
         /\ \A j \in Callers : j # k => call'[j] = call[j]
PROOF
  <1>1. NoCall \in Calls
    BY DEF NoCall, Calls, CallPcs
  <1>2. call'[k] = NoCall /\ \A j \in Callers : j # k => call'[j] = call[j]
    BY DEF Return
  <1>3. call' \in [Callers -> Calls]
    BY <1>1 DEF Return
  <1> QED
    BY <1>2, <1>3 DEF NoCall

LEMMA QuietWorkerMoves ==
  ASSUME WorkersShaped, NEW w \in Commands, QuietWorker(w)
  PROVE  /\ WorkersShaped'
         /\ worker'[w].command = worker[w].command /\ worker'[w].handle = worker[w].handle
         /\ worker'[w].pc \notin Resting
         /\ \A v \in Commands : v # w => worker'[v] = worker[v]
PROOF
  <1> DEFINE Goal == /\ WorkersShaped'
                     /\ worker'[w].command = worker[w].command
                     /\ worker'[w].handle = worker[w].handle
                     /\ worker'[w].pc \notin Resting
                     /\ \A v \in Commands : v # w => worker'[v] = worker[v]
  <1> SUFFICES Goal
    OBVIOUS
  <1>a. worker[w].pc \in NeedsOutcome => worker[w].outcome \in Tables!Terminal
    BY DEF WorkersShaped
  <1>b. ASSUME NEW pc \in WorkerPcs \ Resting, WorkerGoto(w, pc), worker[w].pc \notin Resting,
               worker[w].pc \in NeedsOutcome \/ pc \notin NeedsOutcome
        PROVE  Goal
    BY <1>a, <1>b, WorkerMoves
  <1>c. ASSUME NEW pc \in NeedsOutcome, NEW outcome \in Tables!Terminal, NEW closes \in BOOLEAN,
               Decide(w, pc, outcome, closes), worker[w].pc \notin Resting
        PROVE  Goal
    <2>1. pc \notin Resting
      BY DEF NeedsOutcome, EndingPcs, Resting
    <2> QED
      BY <1>c, <2>1, WorkerDecides
  <1> HIDE DEF Goal
  <1> USE <1>b, <1>c
          DEF WorkerAt, Resting, NeedsOutcome, EndingPcs, WorkerPcs, Tables!Terminal
  <1>1. CASE CheckCanceled(w)
    <2>1. PICK site \in {<<"screen", "screen_live">>, <<"enter", "starting">>, <<"begun", "running">>} :
            /\ WorkerAt(w, site[1])
            /\ \/ WorkerGoto(w, "forget")
               \/ Decide(w, "confirm", "canceled", FALSE)
               \/ WorkerGoto(w, site[2])
      BY <1>1 DEF CheckCanceled
    <2>2. /\ site[1] \in {"screen", "enter", "begun"}
          /\ site[2] \in {"screen_live", "starting", "running"}
      OBVIOUS
    <2> QED
      BY <2>1, <2>2
  <1>2. CASE CheckLive(w)
    BY <1>2 DEF CheckLive
  <1>3. CASE Watch(w)
    BY <1>3 DEF Watch
  <1>4. CASE WatchCancel(w)
    BY <1>4 DEF WatchCancel
  <1>5. CASE WatchDeadline(w)
    BY <1>5 DEF WatchDeadline
  <1>6. CASE WorkerKill(w)
    BY <1>6 DEF WorkerKill
  <1>7. CASE Ended(w)
    <2>1. \/ WorkerGoto(w, "forget")
          \/ Decide(w, "confirm", "canceled", TRUE)
          \/ \E pc \in {"finish", "output"}, st \in {"completed", "failed"} : Decide(w, pc, st, FALSE)
          \/ WorkerGoto(w, "stderr")
      <3>1. AfterEnd(w) \subseteq {"finish", "output"}
        BY DEF AfterEnd
      <3> HIDE <1>b, <1>c
      <3>2. QED BY <1>7, <3>1 DEF Ended
    <2> QED
      BY <1>7, <2>1 DEF Ended
  <1>8. CASE WorkerError(w)
    BY <1>8 DEF WorkerError
  <1>9. CASE Confirm(w)
    BY <1>9 DEF Confirm
  <1>10. CASE WorkerMark(w)
    BY <1>10 DEF WorkerMark
  <1>11. CASE WorkerDrop(w)
    BY <1>11 DEF WorkerDrop
  <1>12. CASE AppendStarted(w)
    BY <1>12 DEF AppendStarted
  <1>13. CASE AppendOutput(w)
    BY <1>13 DEF AppendOutput
  <1>14. CASE AppendStderr(w)
    BY <1>14 DEF AppendStderr
  <1> QED
    BY <1>1, <1>2, <1>3, <1>4, <1>5, <1>6, <1>7, <1>8, <1>9, <1>10, <1>11, <1>12, <1>13, <1>14,
       Zenon DEF QuietWorker

\* The other steps of a worker.
LEMMA BusyWorkerMoves ==
  ASSUME WorkersShaped, NEW w \in Commands
  PROVE  /\ PopNothing(w) =>
              WorkersShaped' /\ worker'[w].pc = "dead" /\ worker'[w].command = NoCommand
         /\ SetProgress(w) =>
              /\ WorkersShaped' /\ worker'[w].command = worker[w].command
              /\ worker'[w].pc \in {"started", "launch", "error"}
         /\ Launch(w) =>
              WorkersShaped' /\ worker'[w].command = worker[w].command /\ worker'[w].pc = "watch"
         /\ WorkerFinish(w) =>
              WorkersShaped' /\ worker'[w].command = worker[w].command /\ worker'[w].pc = "forget"
         /\ PopNothing(w) \/ SetProgress(w) \/ Launch(w) \/ WorkerFinish(w) =>
              \A v \in Commands : v # w => worker'[v] = worker[v]
PROOF
  <1>a. worker[w].pc \in Resting => worker[w].command = NoCommand
    BY DEF WorkersShaped, Own
  <1> USE <1>a, WorkerMoves DEF WorkerAt, Resting, NeedsOutcome, EndingPcs, WorkerPcs
  <1>1. CASE PopNothing(w)
    BY <1>1 DEF PopNothing, SetProgress, Launch, WorkerFinish
  <1>2. CASE SetProgress(w)
    <2>1. PICK pc \in {"started", "launch", "error"} : WorkerGoto(w, pc)
      BY <1>2 DEF SetProgress
    <2>2. worker[w].pc \in {"starting", "running"}
      BY <1>2 DEF SetProgress
    <2>3. ~PopNothing(w) /\ ~Launch(w) /\ ~WorkerFinish(w)
      BY <2>2 DEF PopNothing, Launch, WorkerFinish
    <2> QED
      BY <2>1, <2>2, <2>3
  <1>3. CASE Launch(w)
    BY <1>3 DEF Launch, PopNothing, SetProgress, WorkerFinish
  <1>4. CASE WorkerFinish(w)
    BY <1>4 DEF WorkerFinish, PopNothing, SetProgress, Launch
  <1> QED
    BY <1>1, <1>2, <1>3, <1>4

\* A worker that is free takes a command, or forgets the one it had.
LEMMA WorkerSwaps ==
  ASSUME WorkersShaped, NEW w \in Commands, NEW new \in Workers,
         worker' = [worker EXCEPT ![w] = new],
         \/ new.pc = "pop" /\ new.command = NoCommand
         \/ new.pc = "screen" /\ new.command \in Commands
  PROVE  WorkersShaped' /\ worker'[w] = new /\ \A v \in Commands : v # w => worker'[v] = worker[v]
PROOF
  <1>1. /\ worker'[w] = new /\ \A v \in Commands : v # w => worker'[v] = worker[v]
        /\ worker' \in [Commands -> Workers]
    BY DEF WorkersShaped
  <1> QED
    BY <1>1, NamesAssumption DEF WorkersShaped, Own, Resting, NeedsOutcome, EndingPcs

LEMMA PopMoves ==
  ASSUME WorkersShaped, NEW w \in Commands, Pop(w), Head(queue[Shell(w)]) \in Commands,
         live \in [Sessions -> BOOLEAN], Shell(w) \in Sessions
  PROVE  LET c == Head(queue[Shell(w)])
         IN /\ WorkersShaped'
            /\ \A v \in Commands : v # w => worker'[v] = worker[v]
            /\ worker[w].pc = "pop"
            /\ IF c \in cancels
               THEN /\ worker'[w].pc = "screen" /\ worker'[w].command = c
                    /\ worker'[w].handle = live[Shell(w)]
               ELSE worker' = worker
PROOF
  <1>1. CASE Head(queue[Shell(w)]) \in cancels
    <2> DEFINE c == Head(queue[Shell(w)])
               h == live[Shell(w)]
               new == [NoWorker EXCEPT !.pc = "screen", !.command = c, !.handle = h]
    <2>1. worker' = [worker EXCEPT ![w] = new]
      BY <1>1 DEF Pop
    <2>2. h \in BOOLEAN /\ c \in Commands /\ worker[w].pc = "pop"
      BY DEF Pop, WorkerAt
    <2> HIDE DEF c, h
    <2>3. new \in Workers /\ new.pc = "screen" /\ new.command = c /\ new.handle = h
      BY <2>2 DEF NoWorker, Workers, WorkerPcs
    <2> HIDE DEF new
    <2>4. WorkersShaped' /\ worker'[w] = new /\ \A v \in Commands : v # w => worker'[v] = worker[v]
      BY <2>1, <2>2, <2>3, WorkerSwaps
    <2> QED
      BY <1>1, <2>2, <2>3, <2>4 DEF c, h
  <1>2. CASE Head(queue[Shell(w)]) \notin cancels
    BY <1>2 DEF Pop, WorkersShaped, WorkerAt, Own
  <1> QED
    BY <1>1, <1>2

LEMMA ForgetMoves ==
  ASSUME WorkersShaped, NEW w \in Commands, Forget(w)
  PROVE  /\ WorkersShaped'
         /\ worker'[w].pc = "pop" /\ worker'[w].command = NoCommand
         /\ \A v \in Commands : v # w => worker'[v] = worker[v]
PROOF
  <1> DEFINE new == [NoWorker EXCEPT !.pc = "pop"]
  <1>1. worker' = [worker EXCEPT ![w] = new]
    BY DEF Forget
  <1>2. new \in Workers /\ new.pc = "pop" /\ new.command = NoCommand
    BY DEF NoWorker, Workers, WorkerPcs
  <1> HIDE DEF new
  <1> QED
    BY <1>1, <1>2, WorkerSwaps

\* Only a registration and the start of a thread move another's worker.
LEMMA StartMoves ==
  ASSUME WorkersShaped, CallsShaped, NEW k \in Callers
  PROVE  LET c == call[k].command
         IN /\ ThreadStart(k) => /\ c \in Commands /\ worker'[c].pc = "pop"
                                 /\ (worker[c].pc = "unstarted" =>
                                       WorkersShaped' /\ worker'[c].command = NoCommand)
                                 /\ \A v \in Commands : v # c => worker'[v] = worker[v]
            /\ Register(k) => /\ c \in Commands
                              /\ \A v \in Commands : v # c => worker'[v] = worker[v]
                              /\ IF ShouldStart(call[k].session)
                                 THEN /\ worker'[c].pc = "unstarted"
                                      /\ (worker[c].pc = "none" =>
                                            WorkersShaped' /\ worker'[c].command = NoCommand)
                                 ELSE worker' = worker
PROOF
  <1> DEFINE c == call[k].command
  <1>1. ASSUME NEW pc \in {"unstarted", "pop"}, worker' = [worker EXCEPT ![c].pc = pc], c \in Commands
        PROVE  /\ worker'[c].pc = pc
               /\ (worker[c].pc \in Resting => WorkersShaped' /\ worker'[c].command = NoCommand)
               /\ \A v \in Commands : v # c => worker'[v] = worker[v]
    <2>1. pc \in WorkerPcs /\ pc \in Resting /\ pc \notin NeedsOutcome
      BY DEF WorkerPcs, Resting, NeedsOutcome, EndingPcs
    <2>2. WorkerGoto(c, pc)
      BY <1>1 DEF WorkerGoto
    <2>3. worker'[c].pc = pc /\ \A v \in Commands : v # c => worker'[v] = worker[v]
      BY <1>1 DEF WorkersShaped, Workers
    <2>4. worker[c].pc \in Resting => WorkersShaped' /\ worker'[c].command = worker[c].command
      BY <2>1, <2>2, <1>1, WorkerMoves
    <2> QED
      BY <2>3, <2>4, <1>1 DEF WorkersShaped, Own
  <1>2. call[k].pc \in {"thread_start", "register"} => c \in Commands
    BY DEF CallsShaped, StartPcs
  <1>3. {"none", "unstarted"} \subseteq Resting
    BY DEF Resting
  <1>4. ASSUME ThreadStart(k)
        PROVE  c \in Commands /\ worker' = [worker EXCEPT ![c].pc = "pop"]
    BY <1>2, <1>4 DEF ThreadStart, At
  <1>5. ASSUME Register(k)
        PROVE  /\ c \in Commands
               /\ IF ShouldStart(call[k].session) THEN worker' = [worker EXCEPT ![c].pc = "unstarted"]
                  ELSE worker' = worker
    BY <1>2, <1>5 DEF Register, At
  <1> HIDE DEF c
  <1>6. ThreadStart(k) => /\ c \in Commands /\ worker'[c].pc = "pop"
                          /\ (worker[c].pc = "unstarted" =>
                                WorkersShaped' /\ worker'[c].command = NoCommand)
                          /\ \A v \in Commands : v # c => worker'[v] = worker[v]
    BY <1>1, <1>3, <1>4
  <1>7. Register(k) => /\ c \in Commands
                       /\ \A v \in Commands : v # c => worker'[v] = worker[v]
                       /\ IF ShouldStart(call[k].session)
                          THEN /\ worker'[c].pc = "unstarted"
                               /\ (worker[c].pc = "none" =>
                                     WorkersShaped' /\ worker'[c].command = NoCommand)
                          ELSE worker' = worker
    BY <1>1, <1>3, <1>5
  <1> QED
    BY <1>6, <1>7 DEF c

-----------------------------------------------------------------------------
(* The shapes are kept *)

LEMMA InitShapes == Init => Shapes
PROOF
  <1> SUFFICES ASSUME Init PROVE Shapes
    OBVIOUS
  <1> USE NamesAssumption
          DEF Init, Tables!Init, Tables!NoSessionRow, Tables!NoCommandRow
  <1>1. Typed
    BY EmptySeq, CallsAssumption
    DEF Typed, Tables!SessionRows, Tables!CommandRows, ExecStates
  <1>2. CallsShaped
    BY DEF CallsShaped, Calls, CallPcs, NoCall, StartPcs, EndPcs
  <1>3. WorkersShaped
    BY DEF WorkersShaped, Workers, WorkerPcs, NoWorker, Resting, NeedsOutcome, EndingPcs, Own
  <1>4. References
    BY DEF References, RowOf, SessionOf, NoCall, NoWorker, Resting, StartPcs
  <1> QED
    BY <1>1, <1>2, <1>3, <1>4 DEF Shapes

\* A row of the table of commands keeps its session for ever.
LEMMA RowsKept ==
  ASSUME Shapes, [Next]_vars
  PROVE  /\ command' \in [Commands -> Tables!CommandRows]
         /\ \A c \in Commands : command'[c].status = "absent" => command[c].status = "absent"
         /\ \A c, s : RowOf(c, s) => RowOf(c, s)'
PROOF
  <1> DEFINE Goal == /\ command' \in [Commands -> Tables!CommandRows]
                     /\ \A c \in Commands : command'[c].status = "absent" => command[c].status = "absent"
                     /\ \A c \in Commands : command[c].status # "absent" => SessionOf(c)' = SessionOf(c)
  <1> SUFFICES Goal
    BY DEF RowOf
  <1>0. command \in [Commands -> Tables!CommandRows]
    BY DEF Shapes, Typed
  <1>a. ASSUME NEW c \in Commands, NEW row \in Tables!CommandRows, row.status # "absent",
               command' = [command EXCEPT ![c] = row],
               command[c].status # "absent" => row.session = command[c].session
        PROVE  Goal
    BY <1>0, <1>a DEF SessionOf
  <1>b. ASSUME NEW c \in Commands, NEW st \in Tables!CommandStatuses, Tables!UpdateCommand(c, st)
        PROVE  Goal
    <2> DEFINE row == [status |-> st, endedAt |-> command[c].endedAt, session |-> command[c].session]
    <2>1. row \in Tables!CommandRows /\ row.status # "absent" /\ row.session = command[c].session
      BY <1>0 DEF Tables!CommandRows, Tables!CommandStatuses, Tables!Progress, Tables!Terminal
    <2>2. command' = [command EXCEPT ![c] = row]
      BY <1>b DEF Tables!UpdateCommand
    <2> HIDE DEF row
    <2> QED
      BY <2>1, <2>2, <1>a
  <1>c. ASSUME NEW c \in Commands, NEW st \in Tables!Terminal, Tables!FinishCommand(c, st)
        PROVE  Goal
    <2> DEFINE row == [status |-> st, endedAt |-> TRUE, session |-> command[c].session]
    <2>1. row \in Tables!CommandRows /\ row.status # "absent" /\ row.session = command[c].session
      BY <1>0 DEF Tables!CommandRows, Tables!CommandStatuses, Tables!Progress, Tables!Terminal
    <2>2. command' = command \/ command' = [command EXCEPT ![c] = row]
      BY <1>c DEF Tables!FinishCommand, Tables!tables
    <2> HIDE DEF row
    <2> QED
      BY <2>1, <2>2, <1>0, <1>a
  <1>d. command' = command => Goal
    BY <1>0 DEF SessionOf
  <1>1. ASSUME NEW k \in Callers, Insert(k) PROVE Goal
    <2>1. call[k].command \in Commands /\ call[k].session \in Sessions
      BY <1>1 DEF Insert, At, Shapes, CallsShaped, StartPcs
    <2> DEFINE row == [status |-> "queued", endedAt |-> FALSE, session |-> call[k].session]
    <2>2. row \in Tables!CommandRows /\ row.status # "absent"
      BY <2>1 DEF Tables!CommandRows, Tables!CommandStatuses
    <2>3. command' = [command EXCEPT ![call[k].command] = row] /\ command[call[k].command].status = "absent"
      BY <1>1 DEF Insert, Tables!CreateCommand
    <2> HIDE DEF row
    <2> QED
      BY <2>1, <2>2, <2>3, <1>a
  <1>2. ASSUME NEW k \in Callers, Finish(k) PROVE Goal
    <2>1. call[k].command \in Commands
      BY <1>2 DEF Finish, At, Shapes, CallsShaped, EndPcs, Calls, References, RowOf
    <2> QED
      BY <1>2, <2>1, <1>c DEF Finish, Tables!Terminal
  <1>3. ASSUME NEW w \in Commands, SetProgress(w) PROVE Goal
    <2>1. Own(w) \in Commands
      BY <1>3 DEF SetProgress, WorkerAt, Shapes, WorkersShaped, Workers, Resting, Own
    <2>2. \/ \E st \in {"starting", "running"} : Tables!UpdateCommand(Own(w), st)
          \/ command' = command
      BY <1>3 DEF SetProgress, tables
    <2> QED
      BY <2>1, <2>2, <1>b, <1>d DEF Tables!CommandStatuses, Tables!Progress
  <1>4. ASSUME NEW w \in Commands, WorkerFinish(w) PROVE Goal
    <2>1. Own(w) \in Commands /\ worker[w].outcome \in Tables!Terminal
      BY <1>4 DEF WorkerFinish, WorkerAt, Shapes, WorkersShaped, Workers, Resting, Own, NeedsOutcome, EndingPcs
    <2> QED
      BY <1>4, <2>1, <1>c DEF WorkerFinish
  <1>5. ASSUME NEW k \in Callers,
               Register(k) \/ ThreadStart(k) \/ \E s \in Sessions : CloseBegin(k, s)
        PROVE  Goal
    BY <1>5, <1>d DEF Register, ThreadStart, CloseBegin, CloseTaking, tables
  <1>6. ASSUME NEW w \in Commands, PopNothing(w) \/ Pop(w) \/ Launch(w) \/ Forget(w) PROVE Goal
    BY <1>6, <1>d DEF PopNothing, Pop, Launch, Forget, tables
  <1>7. CASE \E s \in Sessions : ShellEnds(s)
    BY <1>7, <1>d DEF ShellEnds, ShellExits, Finalize, tables
  <1>8. CASE UNCHANGED vars
    BY <1>8, <1>d DEF vars, tables
  <1> HIDE DEF Goal
  <1> QED
    BY <1>1, <1>2, <1>3, <1>4, <1>5, <1>6, <1>7, <1>8, <1>d,
       NextCases, QuietCallFrame, QuietWorkerFrame, ExecFrame

LEMMA WorkersKept ==
  ASSUME Shapes, [Next]_vars, UnregisteredIsFree, StartsApart
  PROVE  WorkersShaped'
PROOF
  <1>0. WorkersShaped /\ CallsShaped
    BY DEF Shapes
  <1>a. worker' = worker => WorkersShaped'
    BY <1>0 DEF WorkersShaped, Own
  <1>1. ASSUME NEW k \in Callers, Register(k) PROVE WorkersShaped'
    <2>1. worker[call[k].command].pc = "none"
      BY <1>1, StartMoves, <1>0 DEF Register, Unregistered, UnregisteredIsFree
    <2> QED
      BY <1>0, <1>1, <2>1, <1>a, StartMoves
  <1>2. ASSUME NEW k \in Callers, ThreadStart(k) PROVE WorkersShaped'
    BY <1>0, <1>2, StartMoves DEF ThreadStart, At, StartsApart
  <1>3. ASSUME NEW k \in Callers, Insert(k) \/ Finish(k) \/ \E s \in Sessions : CloseBegin(k, s)
        PROVE  WorkersShaped'
    BY <1>3, <1>a DEF Insert, Finish, CloseBegin, CloseTaking, processes
  <1>4. ASSUME NEW w \in Commands, Pop(w) PROVE WorkersShaped'
    <2>1. WorkerAt(w, "pop") /\ queue[Shell(w)] # <<>>
      BY <1>4 DEF Pop
    <2>2. Shell(w) \in Sessions
      BY <2>1 DEF WorkerAt, Shapes, References, RowOf, Shell, SessionOf
    <2>3. queue[Shell(w)] \in Seq(Commands) /\ live \in [Sessions -> BOOLEAN]
      BY <2>2 DEF Shapes, Typed
    <2>4. Head(queue[Shell(w)]) \in Commands
      BY <2>1, <2>3
    <2> QED
      BY <1>0, <1>4, <2>2, <2>3, <2>4, PopMoves
  <1>5. ASSUME NEW w \in Commands,
               \/ QuietWorker(w) \/ Forget(w)
               \/ PopNothing(w) \/ SetProgress(w) \/ Launch(w) \/ WorkerFinish(w)
        PROVE  WorkersShaped'
    BY <1>0, <1>5, QuietWorkerMoves, ForgetMoves, BusyWorkerMoves
  <1>6. CASE UNCHANGED vars \/ \E s \in Sessions : ShellEnds(s)
    BY <1>6, <1>a DEF vars, threads, ShellEnds, ShellExits, Finalize
  <1> QED
    BY <1>1, <1>2, <1>3, <1>4, <1>5, <1>6, <1>a, NextCases, QuietCallFrame, ExecFrame

LEMMA CallGoesOn ==
  ASSUME CallsShaped, NEW k \in Callers, NEW pc \in CallPcs, Goto(k, pc),
         pc # "idle", call[k].pc # "idle",
         pc \in StartPcs <=> call[k].pc \in StartPcs,
         pc \in EndPcs <=> call[k].pc \in EndPcs, pc # "cancel_lock"
  PROVE  CallsShaped'
PROOF
  BY CallMoves DEF CallsShaped

LEMMA CallEnds ==
  ASSUME CallsShaped, NEW k \in Callers, Return(k)
  PROVE  CallsShaped'
PROOF
  BY CallReturns DEF CallsShaped, StartPcs, EndPcs

\* A call begins, or goes on with something of its own changed.
LEMMA CallBecomes ==
  ASSUME CallsShaped, NEW k \in Callers, NEW r \in Calls, call' = [call EXCEPT ![k] = r],
         r.pc # "idle", r.op # "none", r.session \in Sessions,
         r.op = "start" <=> r.pc \in StartPcs,
         r.pc \in StartPcs => r.command \in Commands,
         r.pc \in EndPcs => r.command \in r.todo,
         r.pc \notin EndPcs => r.todo = {},
         r.pc = "cancel_lock" => r.op = "cancel"
  PROVE  CallsShaped' /\ call'[k] = r /\ \A j \in Callers : j # k => call'[j] = call[j]
PROOF
  BY DEF CallsShaped

LEMMA QuietCallMoves ==
  ASSUME Shapes, NEW k \in Callers, QuietCall(k)
  PROVE  /\ CallsShaped'
         /\ \A j \in Callers : j # k => call'[j] = call[j]
         /\ call[k].pc \notin StartPcs /\ call'[k].pc \notin {"register", "thread_start"}
         /\ call'[k].pc = "insert" =>
              \E s \in Sessions, c \in Commands :
                StartBegin(k, s, c) /\ call'[k].command = c /\ call'[k].session = s
         /\ \/ call[k].todo = {} /\ call'[k].todo = {}
            \/ /\ call'[k].todo = call[k].todo /\ call'[k].op = call[k].op
               /\ call'[k].session = call[k].session
            \/ \E c \in Commands :
                 CancelBegin(k, c) /\ call'[k].todo = {c} /\ call'[k].session = SessionOf(c)
PROOF
  <1> DEFINE Others == \A j \in Callers : j # k => call'[j] = call[j]
             Same == /\ call'[k].todo = call[k].todo /\ call'[k].op = call[k].op
                     /\ call'[k].session = call[k].session
             Begun == \E c \in Commands :
                        CancelBegin(k, c) /\ call'[k].todo = {c} /\ call'[k].session = SessionOf(c)
             Goal == /\ CallsShaped' /\ Others
                     /\ call[k].pc \notin StartPcs /\ call'[k].pc \notin {"register", "thread_start"}
                     /\ call'[k].pc = "insert" =>
                          \E s \in Sessions, c \in Commands :
                            StartBegin(k, s, c) /\ call'[k].command = c /\ call'[k].session = s
                     /\ (call[k].todo = {} /\ call'[k].todo = {}) \/ Same \/ Begun
  <1> SUFFICES Goal
    OBVIOUS
  <1>0. CallsShaped /\ call \in [Callers -> Calls] /\ (call[k].pc \notin EndPcs => call[k].todo = {})
    BY DEF Shapes, CallsShaped
  <1>a. ASSUME NEW pc \in CallPcs \ ({"idle", "cancel_lock"} \cup StartPcs), Goto(k, pc),
               call[k].pc \notin {"idle"} \cup StartPcs, pc \in EndPcs <=> call[k].pc \in EndPcs
        PROVE  Goal
    <2>1. CallsShaped'
      BY <1>0, <1>a, CallGoesOn
    <2>2. Others /\ Same /\ call'[k].pc = pc
      BY <1>0, <1>a, CallMoves
    <2> QED
      BY <2>1, <2>2, <1>a DEF StartPcs
  <1>b. ASSUME Return(k), call[k].pc \notin StartPcs \cup EndPcs
        PROVE  Goal
    <2>1. CallsShaped'
      BY <1>0, <1>b, CallEnds
    <2> QED
      BY <2>1, <1>0, <1>b, CallReturns
  <1>1. ASSUME NEW s \in Sessions, CreateBegin(k, s) PROVE Goal
    <2> DEFINE r == [NoCall EXCEPT !.pc = "spawn", !.op = "create", !.session = s]
    <2>1. /\ r \in Calls /\ r.pc = "spawn" /\ r.op = "create" /\ r.session = s /\ r.todo = {}
      BY DEF NoCall, Calls, CallPcs
    <2>2. call' = [call EXCEPT ![k] = r] /\ call[k].pc = "idle"
      BY <1>1 DEF CreateBegin, Begins, At
    <2> HIDE DEF r
    <2> QED
      BY <1>0, <2>1, <2>2, CallBecomes DEF StartPcs, EndPcs
  <1>2. ASSUME NEW s \in Sessions, NEW c \in Commands, StartBegin(k, s, c) PROVE Goal
    <2> DEFINE r == [NoCall EXCEPT !.pc = "insert", !.op = "start", !.session = s, !.command = c]
    <2>1. /\ r \in Calls /\ r.pc = "insert" /\ r.op = "start" /\ r.session = s /\ r.command = c
          /\ r.todo = {}
      BY DEF NoCall, Calls, CallPcs
    <2>2. call' = [call EXCEPT ![k] = r] /\ call[k].pc = "idle"
      BY <1>2 DEF StartBegin, Begins, At
    <2> HIDE DEF r
    <2> QED
      BY <1>0, <1>2, <2>1, <2>2, CallBecomes DEF StartPcs, EndPcs
  <1>3. ASSUME NEW c \in Commands, CancelBegin(k, c) PROVE Goal
    <2> DEFINE r == [NoCall EXCEPT !.pc = "cancel_lock", !.op = "cancel", !.session = SessionOf(c),
                                   !.command = c, !.todo = {c},
                                   !.closes = command[c].status # "queued"]
    <2>0. SessionOf(c) \in Sessions
      BY <1>3 DEF CancelBegin, Tables!IsActive, Tables!Progress, Shapes, References
    <2>1. /\ r \in Calls /\ r.pc = "cancel_lock" /\ r.op = "cancel" /\ r.session = SessionOf(c)
          /\ r.command = c /\ r.todo = {c}
      BY <2>0 DEF NoCall, Calls, CallPcs
    <2>2. call' = [call EXCEPT ![k] = r] /\ call[k].pc = "idle"
      BY <1>3 DEF CancelBegin, Begins, At
    <2> HIDE DEF r
    <2> QED
      BY <1>0, <1>3, <2>0, <2>1, <2>2, CallBecomes DEF StartPcs, EndPcs
  <1>4. ASSUME CancelLock(k) PROVE Goal
    <2> DEFINE c == call[k].command
               r == [call[k] EXCEPT !.pc = "set", !.handle = live[call[k].session],
                                    !.events = {c} \cap cancels, !.joins = {threadOf[c]} \ {NoThread}]
    <2>0. /\ call[k] \in Calls /\ call[k].session \in Sessions /\ call[k].pc = "cancel_lock"
          /\ call[k].op = "cancel" /\ c \in call[k].todo
      BY <1>4 DEF CancelLock, Shapes, CallsShaped, EndPcs, At
    <2>1. c \in Commands /\ live[call[k].session] \in BOOLEAN /\ {threadOf[c]} \ {NoThread} \subseteq Commands
      BY <2>0 DEF Shapes, Typed, Calls
    <2>2. /\ r \in Calls /\ r.pc = "set" /\ r.op = "cancel" /\ r.session = call[k].session
          /\ r.command = c /\ r.todo = call[k].todo
      BY <2>0, <2>1 DEF Calls, CallPcs
    <2>3. call' = [call EXCEPT ![k] = r]
      BY <1>4 DEF CancelLock
    <2> HIDE DEF r
    <2> QED
      BY <1>0, <2>0, <2>2, <2>3, CallBecomes DEF StartPcs, EndPcs
  <1> HIDE DEF Goal
  <1> USE DEF At, CallPcs, StartPcs, EndPcs
  <1>5. ASSUME SetRunning(k) \/ CreateCrash(k) \/ Stamp(k) \/ Join(k) PROVE Goal
    BY <1>5, <1>a, <1>b DEF SetRunning, CreateCrash, Stamp, Join
  <1>6. ASSUME Spawn(k) \/ Adopt(k) \/ CreateClose(k) \/ Shut(k) PROVE Goal
    BY <1>6, <1>a DEF Spawn, Adopt, CreateClose, Shut
  <1>7. ASSUME SetEvents(k) \/ Kill(k) \/ Mark(k) \/ Drop(k) PROVE Goal
    BY <1>7, <1>a DEF SetEvents, Kill, Mark, Drop
  <1> QED
    BY <1>1, <1>2, <1>3, <1>4, <1>5, <1>6, <1>7, Zenon DEF QuietCall

\* The two steps that change what a call is to do.
LEMMA CloseMoves ==
  ASSUME Shapes, NEW k \in Callers, NEW s \in Sessions, CloseBegin(k, s)
  PROVE  /\ CallsShaped'
         /\ call[k].pc = "idle"
         /\ call'[k].op = "close" /\ call'[k].session = s /\ call'[k].closes
         /\ call'[k].handle = live[s]
         /\ call'[k].todo = Tables!ActiveCommands(s)
         /\ call'[k].events = Tables!ActiveCommands(s) \cap cancels
         /\ \/ call'[k].pc = "set"
            \/ call'[k].todo = {} /\ call'[k].pc = IF live[s] THEN "shut" ELSE "stamp"
         /\ \A j \in Callers : j # k => call'[j] = call[j]
         /\ live' = [live EXCEPT ![s] = FALSE] /\ queue' = [queue EXCEPT ![s] = <<>>]
         /\ UNCHANGED <<tables, registered, cancels, canceled, threadOf, worker, exec, processes>>
PROOF
  <1> DEFINE active == Tables!ActiveCommands(s)
             r(c, pc) == [pc |-> pc, op |-> "close", session |-> s, command |-> c,
                          handle |-> live[s], closes |-> TRUE, events |-> active \cap cancels,
                          joins |-> {threadOf[d] : d \in active} \ {NoThread}, todo |-> active]
  <1>1. active \subseteq Commands /\ {threadOf[d] : d \in active} \ {NoThread} \subseteq Commands
        /\ live[s] \in BOOLEAN
    BY DEF Tables!ActiveCommands, Shapes, Typed
  <1>2. PICK c \in Commands \cup {NoCommand}, pc \in {"set", "shut", "stamp"} :
          /\ call' = [call EXCEPT ![k] = r(c, pc)]
          /\ \/ pc = "set" /\ c \in active
             \/ active = {} /\ pc = IF live[s] THEN "shut" ELSE "stamp"
    <2>1. \/ \E c \in active : call' = [call EXCEPT ![k] = r(c, "set")]
          \/ active = {} /\ call' = [call EXCEPT ![k] = r(NoCommand, IF live[s] THEN "shut" ELSE "stamp")]
      BY DEF CloseBegin, CloseTaking
    <2> HIDE DEF r, active
    <2> QED
      BY <2>1, <1>1
  <1>3. /\ r(c, pc) \in Calls /\ r(c, pc).pc = pc /\ r(c, pc).op = "close" /\ r(c, pc).session = s
        /\ r(c, pc).command = c /\ r(c, pc).handle = live[s] /\ r(c, pc).closes
        /\ r(c, pc).events = active \cap cancels /\ r(c, pc).todo = active
    <2> HIDE DEF active
    <2> QED
      BY <1>1 DEF Calls, CallPcs
  <1>4. /\ live' = [live EXCEPT ![s] = FALSE] /\ queue' = [queue EXCEPT ![s] = <<>>]
        /\ UNCHANGED <<tables, registered, cancels, canceled, threadOf, worker, exec, processes>>
        /\ call[k].pc = "idle"
    BY DEF CloseBegin, CloseTaking, Begins, At
  <1> HIDE DEF r
  <1>5. CallsShaped' /\ call'[k] = r(c, pc) /\ \A j \in Callers : j # k => call'[j] = call[j]
    <2> HIDE DEF active
    <2>1. CallsShaped
      BY DEF Shapes
    <2> DEFINE new == r(c, pc)
    <2>2. /\ new \in Calls /\ call' = [call EXCEPT ![k] = new]
          /\ new.pc # "idle" /\ new.op = "close" /\ new.session \in Sessions
          /\ new.pc \notin StartPcs /\ new.pc # "cancel_lock"
          /\ new.pc \in EndPcs => new.command \in new.todo
          /\ new.pc \notin EndPcs => new.todo = {}
      BY <1>2, <1>3 DEF StartPcs, EndPcs
    <2> HIDE DEF new
    <2>3. CallsShaped' /\ call'[k] = new /\ \A j \in Callers : j # k => call'[j] = call[j]
      BY <2>1, <2>2, CallBecomes
    <2> QED
      BY <2>3 DEF new
  <1> QED
    BY <1>2, <1>3, <1>4, <1>5

LEMMA FinishMoves ==
  ASSUME Shapes, NEW k \in Callers, Finish(k)
  PROVE  /\ CallsShaped'
         /\ call[k].pc = "finish" /\ call[k].command \in call[k].todo
         /\ call[k].command \in Commands
         /\ call'[k].op = call[k].op /\ call'[k].session = call[k].session
         /\ call'[k].handle = call[k].handle /\ call'[k].closes = call[k].closes
         /\ call'[k].events = call[k].events
         /\ call'[k].todo = call[k].todo \ {call[k].command}
         /\ call'[k].pc = IF call'[k].todo = {} THEN "join" ELSE "mark"
         /\ \A j \in Callers : j # k => call'[j] = call[j]
PROOF
  <1>0. CallsShaped
    BY DEF Shapes
  <1> DEFINE rest == call[k].todo \ {call[k].command}
  <1>1. /\ call[k] \in Calls /\ call[k].pc = "finish" /\ call[k].command \in call[k].todo
        /\ call[k].command \in Commands /\ call[k].session \in Sessions /\ call[k].op \notin {"none", "start"}
    BY <1>0 DEF Finish, At, CallsShaped, EndPcs, StartPcs, Calls
  <1>2. CASE \E c \in rest : call' = [call EXCEPT ![k].pc = "mark", ![k].todo = rest, ![k].command = c]
    <2>1. PICK c \in rest : call' = [call EXCEPT ![k].pc = "mark", ![k].todo = rest, ![k].command = c]
      BY <1>2
    <2> DEFINE r == [call[k] EXCEPT !.pc = "mark", !.todo = rest, !.command = c]
    <2>2. call' = [call EXCEPT ![k] = r]
      BY <2>1
    <2>3. /\ r \in Calls /\ r.pc = "mark" /\ r.op = call[k].op /\ r.session = call[k].session
          /\ r.handle = call[k].handle /\ r.closes = call[k].closes /\ r.events = call[k].events
          /\ r.todo = rest /\ r.command = c
      BY <1>1, <2>1 DEF Calls, CallPcs
    <2> HIDE DEF r
    <2>4. CallsShaped' /\ call'[k] = r /\ \A j \in Callers : j # k => call'[j] = call[j]
      BY <1>0, <1>1, <2>1, <2>2, <2>3, CallBecomes DEF StartPcs, EndPcs
    <2> QED
      BY <1>1, <2>1, <2>3, <2>4
  <1>3. CASE rest = {} /\ call' = [call EXCEPT ![k].pc = "join", ![k].todo = {}]
    <2> DEFINE r == [call[k] EXCEPT !.pc = "join", !.todo = {}]
    <2>2. call' = [call EXCEPT ![k] = r]
      BY <1>3
    <2>3. /\ r \in Calls /\ r.pc = "join" /\ r.op = call[k].op /\ r.session = call[k].session
          /\ r.handle = call[k].handle /\ r.closes = call[k].closes /\ r.events = call[k].events
          /\ r.todo = {}
      BY <1>1 DEF Calls, CallPcs
    <2> HIDE DEF r
    <2>4. CallsShaped' /\ call'[k] = r /\ \A j \in Callers : j # k => call'[j] = call[j]
      BY <1>0, <1>1, <2>2, <2>3, CallBecomes DEF StartPcs, EndPcs
    <2> QED
      BY <1>1, <1>3, <2>3, <2>4
  <1> QED
    BY <1>2, <1>3 DEF Finish

LEMMA StartCallMoves ==
  ASSUME Shapes, NEW k \in Callers
  PROVE  /\ Insert(k) => /\ CallsShaped' /\ call'[k].pc = "register"
                         /\ call'[k].command = call[k].command /\ call'[k].session = call[k].session
         /\ Register(k) => /\ CallsShaped'
                           /\ IF ShouldStart(call[k].session)
                              THEN /\ call'[k].pc = "thread_start"
                                   /\ call'[k].command = call[k].command
                                   /\ call'[k].session = call[k].session
                              ELSE call'[k].pc = "idle"
         /\ ThreadStart(k) => CallsShaped' /\ call'[k].pc = "idle"
         /\ Insert(k) \/ Register(k) \/ ThreadStart(k) =>
              /\ call'[k].todo = {} /\ call[k].todo = {}
              /\ \A j \in Callers : j # k => call'[j] = call[j]
PROOF
  <1>0. CallsShaped /\ call \in [Callers -> Calls] /\ (call[k].pc \notin EndPcs => call[k].todo = {})
    BY DEF Shapes, CallsShaped
  <1> USE <1>0 DEF At, StartPcs, EndPcs, CallPcs
  <1>1. CASE Insert(k)
    BY <1>1, CallMoves, CallGoesOn DEF Insert, Register, ThreadStart
  <1>2. CASE Register(k) /\ ShouldStart(call[k].session)
    BY <1>2, CallMoves, CallGoesOn DEF Insert, Register, ThreadStart
  <1>3. CASE Register(k) /\ ~ShouldStart(call[k].session)
    BY <1>3, CallReturns, CallEnds DEF Insert, Register, ThreadStart
  <1>4. CASE ThreadStart(k)
    BY <1>4, CallReturns, CallEnds DEF Insert, Register, ThreadStart
  <1> QED
    BY <1>1, <1>2, <1>3, <1>4

LEMMA CallsKept ==
  ASSUME Shapes, [Next]_vars
  PROVE  CallsShaped'
PROOF
  <1>1. call' = call => CallsShaped'
    BY DEF Shapes, CallsShaped
  <1>2. ASSUME NEW w \in Commands,
               PopNothing(w) \/ Pop(w) \/ SetProgress(w) \/ Launch(w) \/ WorkerFinish(w) \/ Forget(w)
        PROVE  call' = call
    BY <1>2 DEF PopNothing, Pop, SetProgress, Launch, WorkerFinish, Forget
  <1>3. CASE UNCHANGED vars \/ \E s \in Sessions : ShellEnds(s)
    BY <1>1, <1>3 DEF vars, threads, ShellEnds, ShellExits, Finalize
  <1> QED
    BY <1>1, <1>2, <1>3, NextCases, QuietCallMoves, StartCallMoves, FinishMoves, CloseMoves,
       QuietWorkerFrame, ExecFrame

\* What is written to the table of sessions is a row of its type.
LEMMA SessionRowsKept ==
  ASSUME Shapes, [Next]_vars
  PROVE  session' \in [Sessions -> Tables!SessionRows]
PROOF
  <1>0. session \in [Sessions -> Tables!SessionRows]
    BY DEF Shapes, Typed
  <1> DEFINE Goal == session' \in [Sessions -> Tables!SessionRows]
  <1>a. ASSUME NEW s \in Sessions, Tables!CreateSession(s)
        PROVE  Goal
    BY <1>0, <1>a DEF Tables!CreateSession, Tables!SessionRows, Tables!SessionStatuses
  <1>b. ASSUME NEW s, NEW st \in Tables!SessionStatuses, NEW closes \in BOOLEAN,
               Tables!UpdateSession(s, st, closes)
        PROVE  Goal
    <2>1. s \notin Sessions => session' = session
      BY <1>0, <1>b DEF Tables!UpdateSession
    <2>2. s \in Sessions => session[s].closedAt \in BOOLEAN
      BY <1>0 DEF Tables!SessionRows
    <2> QED
      BY <1>0, <1>b, <2>1, <2>2 DEF Tables!UpdateSession, Tables!SessionRows
  <1>c. session' = session => Goal
    BY <1>0
  <1> HIDE DEF Goal
  <1> SUFFICES Goal
    BY DEF Goal
  <1> USE <1>c DEF tables
  <1>1. ASSUME NEW k \in Callers, QuietCall(k) PROVE Goal
    <2>1. CASE \E s \in Sessions : CreateBegin(k, s)
      BY <2>1, <1>a DEF CreateBegin
    <2>2. CASE SetRunning(k) \/ CreateCrash(k) \/ Mark(k) \/ Stamp(k)
      BY <2>2, <1>b DEF SetRunning, CreateCrash, Mark, Stamp, Tables!SessionStatuses
    <2>3. CASE (\E s \in Sessions, c \in Commands : StartBegin(k, s, c)) \/ \E c \in Commands : CancelBegin(k, c)
      BY <2>3 DEF StartBegin, CancelBegin
    <2>4. CASE Spawn(k) \/ Adopt(k) \/ CreateClose(k) \/ CancelLock(k) \/ SetEvents(k)
      BY <2>4 DEF Spawn, Adopt, CreateClose, CancelLock, SetEvents
    <2>5. CASE Kill(k) \/ Drop(k) \/ Join(k) \/ Shut(k)
      BY <2>5 DEF Kill, Drop, Join, Shut
    <2> QED
      BY <1>1, <2>1, <2>2, <2>3, <2>4, <2>5, Zenon DEF QuietCall
  <1>2. ASSUME NEW w \in Commands, QuietWorker(w) PROVE Goal
    <2>1. CASE WorkerMark(w)
      BY <2>1, <1>b DEF WorkerMark, Tables!SessionStatuses
    <2>2. CASE AppendStarted(w) \/ AppendOutput(w) \/ AppendStderr(w)
      BY <2>2 DEF AppendStarted, AppendOutput, AppendStderr, Tables!AppendEvents
    <2>3. CASE CheckCanceled(w) \/ CheckLive(w) \/ Watch(w) \/ WatchCancel(w) \/ WatchDeadline(w)
      BY <2>3 DEF CheckCanceled, CheckLive, Watch, WatchCancel, WatchDeadline
    <2>4. CASE WorkerKill(w) \/ Ended(w) \/ WorkerError(w) \/ Confirm(w) \/ WorkerDrop(w)
      BY <2>4 DEF WorkerKill, Ended, WorkerError, Confirm, WorkerDrop
    <2> QED
      BY <1>2, <2>1, <2>2, <2>3, <2>4, Zenon DEF QuietWorker
  <1>3. ASSUME NEW k \in Callers,
               \/ Insert(k) \/ Register(k) \/ ThreadStart(k) \/ Finish(k)
               \/ \E s \in Sessions : CloseBegin(k, s)
        PROVE  Goal
    BY <1>3 DEF Insert, Register, ThreadStart, Finish, CloseBegin, CloseTaking,
                Tables!CreateCommand, Tables!FinishCommand, Tables!tables
  <1>4. ASSUME NEW w \in Commands,
               PopNothing(w) \/ Pop(w) \/ SetProgress(w) \/ Launch(w) \/ WorkerFinish(w) \/ Forget(w)
        PROVE  Goal
    BY <1>4 DEF PopNothing, Pop, SetProgress, Launch, WorkerFinish, Forget,
                Tables!UpdateCommand, Tables!FinishCommand, Tables!tables
  <1>5. CASE UNCHANGED vars \/ \E s \in Sessions : ShellEnds(s)
    BY <1>5 DEF vars, ShellEnds, ShellExits, Finalize
  <1> QED
    BY <1>1, <1>2, <1>3, <1>4, <1>5, NextCases, ExecFrame

\* A worker at its pop has the queue of a session before it.
LEMMA PopAtQueue ==
  ASSUME Shapes, NEW w \in Commands, Pop(w)
  PROVE  /\ Shell(w) \in Sessions
         /\ queue[Shell(w)] \in Seq(Commands) /\ queue[Shell(w)] # <<>>
         /\ queue' = [queue EXCEPT ![Shell(w)] = Tail(@)]
         /\ Head(queue[Shell(w)]) \in Commands
         /\ \E i \in DOMAIN queue[Shell(w)] : queue[Shell(w)][i] = Head(queue[Shell(w)])
PROOF
  <1>1. WorkerAt(w, "pop") /\ queue[Shell(w)] # <<>> /\ queue' = [queue EXCEPT ![Shell(w)] = Tail(@)]
    BY DEF Pop
  <1>2. Shell(w) \in Sessions
    BY <1>1 DEF WorkerAt, Shapes, References, RowOf, Shell, SessionOf
  <1>3. queue[Shell(w)] \in Seq(Commands)
    BY <1>2 DEF Shapes, Typed
  <1> HIDE DEF Shell
  <1> QED
    BY <1>1, <1>2, <1>3

LEMMA RuntimeKept ==
  ASSUME Shapes, [Next]_vars
  PROVE  /\ live' \in [Sessions -> BOOLEAN]
         /\ queue' \in [Sessions -> Seq(Commands)]
         /\ registered' \in [Sessions -> Commands \cup {NoThread}]
         /\ cancels' \subseteq Commands /\ canceled' \subseteq Commands
         /\ threadOf' \in [Commands -> Commands \cup {NoThread}]
PROOF
  <1> DEFINE Goal == /\ live' \in [Sessions -> BOOLEAN]
                     /\ queue' \in [Sessions -> Seq(Commands)]
                     /\ registered' \in [Sessions -> Commands \cup {NoThread}]
                     /\ cancels' \subseteq Commands /\ canceled' \subseteq Commands
                     /\ threadOf' \in [Commands -> Commands \cup {NoThread}]
  <1> SUFFICES Goal
    OBVIOUS
  <1>0. /\ live \in [Sessions -> BOOLEAN]
        /\ queue \in [Sessions -> Seq(Commands)]
        /\ registered \in [Sessions -> Commands \cup {NoThread}]
        /\ cancels \subseteq Commands /\ canceled \subseteq Commands
        /\ threadOf \in [Commands -> Commands \cup {NoThread}]
    BY DEF Shapes, Typed
  <1>a. UNCHANGED runtime => Goal
    BY <1>0 DEF runtime
  <1>b. UNCHANGED <<queue, registered, cancels, threadOf>> /\ UNCHANGED canceled
        /\ (UNCHANGED live \/ \E s : live' = [live EXCEPT ![s] = FALSE] \/ live' = [live EXCEPT ![s] = TRUE])
        => Goal
    BY <1>0
  <1>1. ASSUME NEW k \in Callers, QuietCall(k) PROVE Goal
    <2>1. CASE (\E s \in Sessions : CreateBegin(k, s)) \/ (\E s \in Sessions, c \in Commands : StartBegin(k, s, c)) \/ \E c \in Commands : CancelBegin(k, c)
      BY <2>1, <1>a DEF CreateBegin, StartBegin, CancelBegin
    <2>2. CASE Spawn(k) \/ SetRunning(k) \/ CreateClose(k) \/ CreateCrash(k) \/ CancelLock(k)
      BY <2>2, <1>a DEF Spawn, SetRunning, CreateClose, CreateCrash, CancelLock
    <2>3. CASE Kill(k) \/ Mark(k) \/ Join(k) \/ Shut(k) \/ Stamp(k)
      BY <2>3, <1>a DEF Kill, Mark, Join, Shut, Stamp
    <2>4. CASE Adopt(k) \/ Drop(k)
      BY <2>4, <1>b DEF Adopt, Drop
    <2>5. CASE SetEvents(k)
      <3>1. call[k].events \subseteq Commands
        BY DEF Shapes, CallsShaped, Calls
      <3> QED
        BY <1>0, <2>5, <3>1 DEF SetEvents
    <2> HIDE DEF Goal
    <2> QED
      BY <1>1, <2>1, <2>2, <2>3, <2>4, <2>5, Zenon DEF QuietCall
  <1>2. ASSUME NEW w \in Commands, QuietWorker(w) PROVE Goal
    <2>1. CASE WorkerDrop(w)
      BY <2>1, <1>b DEF WorkerDrop
    <2>2. CASE AppendStarted(w) \/ AppendOutput(w) \/ AppendStderr(w) \/ WorkerMark(w)
      BY <2>2, <1>a DEF AppendStarted, AppendOutput, AppendStderr, WorkerMark
    <2>3. CASE CheckCanceled(w) \/ CheckLive(w) \/ Watch(w) \/ WatchCancel(w) \/ WatchDeadline(w)
      BY <2>3, <1>a DEF CheckCanceled, CheckLive, Watch, WatchCancel, WatchDeadline
    <2>4. CASE WorkerKill(w) \/ Ended(w) \/ WorkerError(w) \/ Confirm(w)
      BY <2>4, <1>a DEF WorkerKill, Ended, WorkerError, Confirm
    <2> HIDE DEF Goal
    <2> QED
      BY <1>2, <2>1, <2>2, <2>3, <2>4, Zenon DEF QuietWorker
  <1>3. ASSUME NEW k \in Callers, Register(k) PROVE Goal
    <2>0. call[k].command \in Commands /\ call[k].session \in Sessions
      BY <1>3 DEF Register, At, Shapes, CallsShaped, StartPcs
    <2>1. queue' = [queue EXCEPT ![call[k].session] = Append(@, call[k].command)]
      BY <1>3 DEF Register
    <2>2. queue' \in [Sessions -> Seq(Commands)]
      BY <1>0, <2>0, <2>1
    <2> QED
      BY <1>0, <1>3, <2>0, <2>2 DEF Register
  <1>4. ASSUME NEW k \in Callers, NEW s \in Sessions, CloseBegin(k, s) PROVE Goal
    <2>1. /\ live' = [live EXCEPT ![s] = FALSE] /\ queue' = [queue EXCEPT ![s] = <<>>]
          /\ UNCHANGED <<registered, cancels, canceled, threadOf>>
      BY <1>4, CloseMoves
    <2>2. <<>> \in Seq(Commands)
      BY EmptySeq
    <2> QED
      BY <1>0, <2>1, <2>2
  <1>5. ASSUME NEW w \in Commands, Pop(w) PROVE Goal
    <2>0. /\ Shell(w) \in Sessions /\ Tail(queue[Shell(w)]) \in Seq(Commands)
          /\ queue' = [queue EXCEPT ![Shell(w)] = Tail(@)]
      BY <1>5, PopAtQueue
    <2>1. queue' \in [Sessions -> Seq(Commands)]
      BY <1>0, <2>0
    <2>2. threadOf' = [threadOf EXCEPT ![Head(queue[Shell(w)])] = w]
          /\ UNCHANGED <<live, registered, cancels, canceled>>
      BY <1>5 DEF Pop
    <2> QED
      BY <1>0, <2>1, <2>2
  <1>6. ASSUME NEW w \in Commands, Forget(w) PROVE Goal
    BY <1>0, <1>6 DEF Forget
  <1>7. ASSUME NEW w \in Commands, PopNothing(w) PROVE Goal
    BY <1>0, <1>7 DEF PopNothing
  <1>8. ASSUME NEW k \in Callers, Insert(k) \/ ThreadStart(k) \/ Finish(k) PROVE Goal
    BY <1>8, <1>a DEF Insert, ThreadStart, Finish
  <1>9. ASSUME NEW w \in Commands, SetProgress(w) \/ Launch(w) \/ WorkerFinish(w) PROVE Goal
    BY <1>9, <1>a DEF SetProgress, Launch, WorkerFinish
  <1>10. CASE UNCHANGED vars \/ \E s \in Sessions : ShellEnds(s)
    BY <1>10, <1>a DEF vars, ShellEnds, ShellExits, Finalize
  <1>11. ASSUME NEW c \in Commands, ExecSteps(c) PROVE Goal
    BY <1>11, <1>a, ExecFrame
  <1> HIDE DEF Goal
  <1> QED
    BY <1>1, <1>2, <1>3, <1>4, <1>5, <1>6, <1>7, <1>8, <1>9, <1>10, <1>11, NextCases

LEMMA ProcessesKept ==
  ASSUME Shapes, [Next]_vars
  PROVE  /\ exec' \in [Commands -> ExecStates]
         /\ hosted' = hosted
         /\ shell' \in [Sessions -> {"none", "alive", "dead"}]
         /\ killedFor' \in [Sessions -> SUBSET Commands]
PROOF
  <1> DEFINE Shells == /\ shell' \in [Sessions -> {"none", "alive", "dead"}]
                       /\ killedFor' \in [Sessions -> SUBSET Commands]
             Goal == exec' \in [Commands -> ExecStates] /\ hosted' = hosted /\ Shells
  <1> SUFFICES Goal
    OBVIOUS
  <1>0. /\ exec \in [Commands -> ExecStates]
        /\ shell \in [Sessions -> {"none", "alive", "dead"}]
        /\ killedFor \in [Sessions -> SUBSET Commands]
    BY DEF Shapes, Typed
  <1>a. UNCHANGED <<shell, killedFor>> => Shells
    BY <1>0
  <1>b. ASSUME UNCHANGED killedFor,
               \E s : shell' = [shell EXCEPT ![s] = "dead"] \/ shell' = [shell EXCEPT ![s] = "alive"]
        PROVE  Shells
    BY <1>0, <1>b
  <1>c. ASSUME NEW s, NEW cs \in SUBSET Commands, Terminate(s, cs) PROVE Shells
    BY <1>0, <1>c DEF Terminate
  <1> HIDE DEF Shells
  <1>1. ASSUME NEW k \in Callers, QuietCall(k) PROVE Goal
    <2>0. exec' = exec /\ hosted' = hosted
      BY <1>1, QuietCallFrame
    <2>1. CASE (\E s \in Sessions : CreateBegin(k, s)) \/ (\E s \in Sessions, c \in Commands : StartBegin(k, s, c)) \/ \E c \in Commands : CancelBegin(k, c)
      BY <1>0, <2>0, <2>1, <1>a DEF CreateBegin, StartBegin, CancelBegin, processes
    <2>2. CASE Adopt(k) \/ SetRunning(k) \/ CreateCrash(k) \/ CancelLock(k) \/ SetEvents(k)
      BY <1>0, <2>0, <2>2, <1>a DEF Adopt, SetRunning, CreateCrash, CancelLock, SetEvents, processes
    <2>3. CASE Mark(k) \/ Drop(k) \/ Join(k) \/ Stamp(k)
      BY <1>0, <2>0, <2>3, <1>a DEF Mark, Drop, Join, Stamp, processes
    <2>4. CASE Spawn(k) \/ CreateClose(k) \/ Shut(k)
      BY <1>0, <2>0, <2>4, <1>a, <1>b DEF Spawn, CreateClose, Shut
    <2>5. CASE Kill(k)
      <3>1. call[k].todo \in SUBSET Commands
        BY DEF Shapes, CallsShaped, Calls
      <3> QED
        BY <1>0, <2>0, <2>5, <3>1, <1>a, <1>c DEF Kill, processes
    <2> QED
      BY <1>1, <2>1, <2>2, <2>3, <2>4, <2>5, Zenon DEF QuietCall
  <1>2. ASSUME NEW w \in Commands, QuietWorker(w) PROVE Goal
    <2>0. exec' = exec /\ hosted' = hosted
      BY <1>2, QuietWorkerFrame
    <2>1. CASE WorkerKill(w)
      <3>1. {Own(w)} \in SUBSET Commands
        BY <2>1 DEF WorkerKill, WorkerAt, Shapes, WorkersShaped, Workers, Resting, Own
      <3> QED
        BY <1>0, <2>0, <2>1, <3>1, <1>c DEF WorkerKill
    <2>2. CASE AppendStarted(w) \/ AppendOutput(w) \/ AppendStderr(w) \/ WorkerMark(w)
      BY <1>0, <2>0, <2>2, <1>a DEF AppendStarted, AppendOutput, AppendStderr, WorkerMark, processes
    <2>3. CASE CheckCanceled(w) \/ CheckLive(w) \/ Watch(w) \/ WatchCancel(w) \/ WatchDeadline(w)
      BY <1>0, <2>0, <2>3, <1>a DEF CheckCanceled, CheckLive, Watch, WatchCancel, WatchDeadline, processes
    <2>4. CASE WorkerDrop(w) \/ Ended(w) \/ WorkerError(w) \/ Confirm(w)
      BY <1>0, <2>0, <2>4, <1>a DEF WorkerDrop, Ended, WorkerError, Confirm, processes
    <2> QED
      BY <1>2, <2>1, <2>2, <2>3, <2>4, Zenon DEF QuietWorker
  <1>3. ASSUME NEW k \in Callers,
               \/ Insert(k) \/ Register(k) \/ ThreadStart(k) \/ Finish(k)
               \/ \E s \in Sessions : CloseBegin(k, s)
        PROVE  Goal
    BY <1>0, <1>3, <1>a DEF Insert, Register, ThreadStart, Finish, CloseBegin, CloseTaking, processes
  <1>4. ASSUME NEW w \in Commands,
               PopNothing(w) \/ Pop(w) \/ SetProgress(w) \/ WorkerFinish(w) \/ Forget(w)
        PROVE  Goal
    BY <1>0, <1>4, <1>a DEF PopNothing, Pop, SetProgress, WorkerFinish, Forget, processes
  <1>5. ASSUME NEW w \in Commands, Launch(w) PROVE Goal
    BY <1>0, <1>5, <1>a DEF Launch, processes, ExecStates
  <1>6. CASE UNCHANGED vars
    BY <1>0, <1>6, <1>a DEF vars, threads, processes
  <1>7. CASE \E s \in Sessions : ShellEnds(s)
    BY <1>0, <1>7, <1>b DEF ShellEnds, ShellExits, Finalize, threads, IsRunning
  <1>8. ASSUME NEW c \in Commands, ExecSteps(c) PROVE Goal
    BY <1>0, <1>8, <1>a, ExecFrame DEF processes
  <1> HIDE DEF Goal
  <1> QED
    BY <1>1, <1>2, <1>3, <1>4, <1>5, <1>6, <1>7, <1>8, NextCases

LEMMA RowsInserted ==
  ASSUME Shapes, [Next]_vars, NEW c \in Commands, ~Present(c), Present(c)'
  PROVE  \E k \in Callers : Insert(k) /\ call[k].command = c /\ SessionOf(c)' = call[k].session
PROOF
  <1>0. command \in [Commands -> Tables!CommandRows]
    BY DEF Shapes, Typed
  <1>a. command' # command
    BY DEF Present
  <1>1. ASSUME NEW k \in Callers, Insert(k)
        PROVE  call[k].command = c /\ SessionOf(c)' = call[k].session
    BY <1>0, <1>1 DEF Insert, Tables!CreateCommand, Present, SessionOf
  <1>2. ASSUME NEW d, NEW st, Tables!UpdateCommand(d, st) PROVE FALSE
    BY <1>0, <1>2 DEF Tables!UpdateCommand, Present
  <1>3. ASSUME NEW d, NEW st, Tables!FinishCommand(d, st) PROVE FALSE
    BY <1>0, <1>3, <1>a DEF Tables!FinishCommand, Tables!tables, Present
  <1>4. ASSUME NEW k \in Callers,
               \/ Register(k) \/ ThreadStart(k) \/ Finish(k)
               \/ \E s \in Sessions : CloseBegin(k, s)
        PROVE  FALSE
    BY <1>a, <1>3, <1>4 DEF Register, ThreadStart, Finish, CloseBegin, CloseTaking, tables
  <1>5. ASSUME NEW w \in Commands,
               PopNothing(w) \/ Pop(w) \/ SetProgress(w) \/ Launch(w) \/ WorkerFinish(w) \/ Forget(w)
        PROVE  FALSE
    BY <1>a, <1>2, <1>3, <1>5
    DEF PopNothing, Pop, SetProgress, Launch, WorkerFinish, Forget, tables
  <1>6. ~UNCHANGED vars /\ ~\E s \in Sessions : ShellEnds(s)
    BY <1>a DEF vars, tables, ShellEnds, ShellExits, Finalize
  <1> QED
    BY <1>a, <1>1, <1>4, <1>5, <1>6, NextCases, QuietCallFrame, QuietWorkerFrame, ExecFrame

\* A worker that has a command in the next state has it already or pops it.
LEMMA CommandsTaken ==
  ASSUME Shapes, StartsApart, UnregisteredIsFree, [Next]_vars, NEW w \in Commands
  PROVE  /\ worker'[w].pc # "none" =>
              \/ worker[w].pc # "none"
              \/ \E k \in Callers : Register(k) /\ call[k].command = w
         /\ \/ worker'[w].command = NoCommand
            \/ worker'[w].command = worker[w].command
            \/ /\ Pop(w) /\ worker'[w].command = Head(queue[Shell(w)])
               /\ worker'[w].command \in cancels
PROOF
  <1>0. WorkersShaped /\ CallsShaped
    BY DEF Shapes
  <1> DEFINE Goal == /\ worker'[w].pc # "none" =>
                         \/ worker[w].pc # "none"
                         \/ \E k \in Callers : Register(k) /\ call[k].command = w
                     /\ \/ worker'[w].command = NoCommand
                        \/ worker'[w].command = worker[w].command
                        \/ /\ Pop(w) /\ worker'[w].command = Head(queue[Shell(w)])
                           /\ worker'[w].command \in cancels
  <1> SUFFICES Goal
    OBVIOUS
  <1>a. worker'[w] = worker[w] => Goal
    OBVIOUS
  <1>b. worker' = worker => Goal
    OBVIOUS
  <1>1. ASSUME NEW k \in Callers, Register(k) PROVE Goal
    <2>1. worker[call[k].command].pc = "none"
      BY <1>1, StartMoves, <1>0 DEF Register, Unregistered, UnregisteredIsFree
    <2> QED
      BY <1>0, <1>1, <2>1, StartMoves
  <1>2. ASSUME NEW k \in Callers, ThreadStart(k) PROVE Goal
    <2>1. worker[call[k].command].pc = "unstarted"
      BY <1>2 DEF ThreadStart, At, StartsApart
    <2> QED
      BY <1>0, <1>2, <2>1, StartMoves
  <1>3. ASSUME NEW k \in Callers, Insert(k) \/ Finish(k) \/ \E s \in Sessions : CloseBegin(k, s)
        PROVE  worker' = worker
    BY <1>3 DEF Insert, Finish, CloseBegin, CloseTaking, processes
  <1>4. ASSUME NEW v \in Commands, Pop(v) PROVE Goal
    <2>1. /\ Shell(v) \in Sessions /\ Head(queue[Shell(v)]) \in Commands
          /\ live \in [Sessions -> BOOLEAN]
      BY <1>4, PopAtQueue DEF Shapes, Typed
    <2>2. /\ worker[v].pc = "pop"
          /\ \A u \in Commands : u # v => worker'[u] = worker[u]
          /\ IF Head(queue[Shell(v)]) \in cancels
             THEN worker'[v].command = Head(queue[Shell(v)])
             ELSE worker' = worker
      BY <1>0, <1>4, <2>1, PopMoves
    <2> QED
      BY <1>4, <2>2
  <1>5. ASSUME NEW v \in Commands, QuietWorker(v) PROVE Goal
    <2>1. worker[v].pc # "none"
      BY <1>5, QuietWorkerFrame DEF Resting
    <2> QED
      BY <1>0, <1>5, <2>1, QuietWorkerMoves
  <1>6. ASSUME NEW v \in Commands,
               PopNothing(v) \/ SetProgress(v) \/ Launch(v) \/ WorkerFinish(v) \/ Forget(v)
        PROVE  Goal
    <2>1. worker[v].pc # "none"
      BY <1>6 DEF PopNothing, SetProgress, Launch, WorkerFinish, Forget, WorkerAt
    <2> QED
      BY <1>0, <1>6, <2>1, BusyWorkerMoves, ForgetMoves
  <1>7. CASE UNCHANGED vars \/ \E s \in Sessions : ShellEnds(s)
    BY <1>7, <1>b DEF vars, threads, ShellEnds, ShellExits, Finalize
  <1> HIDE DEF Goal
  <1> QED
    BY <1>b, <1>1, <1>2, <1>3, <1>4, <1>5, <1>6, <1>7, NextCases, QuietCallFrame, ExecFrame

\* What a call is about in the next state, it was about before, or has found.
LEMMA CommandsFound ==
  ASSUME Shapes, [Next]_vars, NEW k \in Callers
  PROVE  /\ call'[k].pc = "register" => \/ call'[k] = call[k]
                                        \/ /\ Insert(k) /\ call'[k].command = call[k].command
                                           /\ call'[k].session = call[k].session
         /\ call'[k].pc = "thread_start" => \/ call'[k] = call[k]
                                            \/ /\ Register(k) /\ ShouldStart(call[k].session)
                                               /\ call'[k].command = call[k].command
                                               /\ call'[k].session = call[k].session
         /\ \/ call'[k].todo = {}
            \/ /\ call'[k].todo \subseteq call[k].todo
               /\ call'[k].session = call[k].session
            \/ \E c \in Commands :
                 CancelBegin(k, c) /\ call'[k].todo = {c} /\ call'[k].session = SessionOf(c)
            \/ \E s \in Sessions :
                 /\ CloseBegin(k, s) /\ call'[k].todo = Tables!ActiveCommands(s)
                 /\ call'[k].session = s
PROOF
  <1> DEFINE Found == /\ call'[k].pc = "register" => \/ call'[k] = call[k]
                                        \/ /\ Insert(k) /\ call'[k].command = call[k].command
                                           /\ call'[k].session = call[k].session
                      /\ call'[k].pc = "thread_start" => \/ call'[k] = call[k]
                                            \/ /\ Register(k) /\ ShouldStart(call[k].session)
                                               /\ call'[k].command = call[k].command
                                               /\ call'[k].session = call[k].session
                      /\ \/ call'[k].todo = {}
                         \/ /\ call'[k].todo \subseteq call[k].todo
                            /\ call'[k].session = call[k].session
                         \/ \E c \in Commands : /\ CancelBegin(k, c) /\ call'[k].todo = {c}
                                                /\ call'[k].session = SessionOf(c)
                         \/ \E s \in Sessions : /\ CloseBegin(k, s)
                                                /\ call'[k].todo = Tables!ActiveCommands(s)
                                                /\ call'[k].session = s
  <1> SUFFICES Found
    OBVIOUS
  <1>a. call'[k] = call[k] => Found
    OBVIOUS
  <1>1. ASSUME NEW j \in Callers, QuietCall(j) PROVE Found
    BY <1>1, QuietCallMoves
  <1>2. ASSUME NEW j \in Callers, Insert(j) \/ Register(j) \/ ThreadStart(j) PROVE Found
    BY <1>2, StartCallMoves
  <1>3. ASSUME NEW j \in Callers, Finish(j) PROVE Found
    <2>1. call'[j].pc \in {"join", "mark"} /\ call'[j].todo \subseteq call[j].todo
          /\ call'[j].session = call[j].session /\ \A i \in Callers : i # j => call'[i] = call[i]
      BY <1>3, FinishMoves
    <2> QED
      BY <2>1
  <1>4. ASSUME NEW j \in Callers, NEW s \in Sessions, CloseBegin(j, s) PROVE Found
    <2>1. call'[j].pc \in {"set", "shut", "stamp"} /\ call'[j].todo = Tables!ActiveCommands(s)
          /\ call'[j].session = s /\ \A i \in Callers : i # j => call'[i] = call[i]
      BY <1>4, CloseMoves
    <2> QED
      BY <1>4, <2>1
  <1>5. ASSUME NEW w \in Commands,
               PopNothing(w) \/ Pop(w) \/ SetProgress(w) \/ Launch(w) \/ WorkerFinish(w) \/ Forget(w)
        PROVE  call' = call
    BY <1>5 DEF PopNothing, Pop, SetProgress, Launch, WorkerFinish, Forget
  <1>6. UNCHANGED vars \/ (\E s \in Sessions : ShellEnds(s)) => call' = call
    BY DEF vars, threads, ShellEnds, ShellExits, Finalize
  <1> HIDE DEF Found
  <1> QED
    BY <1>a, <1>1, <1>2, <1>3, <1>4, <1>5, <1>6, NextCases, QuietWorkerFrame, ExecFrame

\* The queue of a session in the next state: what it was, without its head or
\* all of it, or with a new command at its end.
LEMMA QueuesChange ==
  ASSUME Shapes, [Next]_vars, NEW s \in Sessions
  PROVE  \/ queue'[s] = queue[s]
         \/ \E k \in Callers : CloseBegin(k, s) /\ queue'[s] = <<>>
         \/ \E w \in Commands : Pop(w) /\ Shell(w) = s /\ queue'[s] = Tail(queue[s])
         \/ \E k \in Callers :
              /\ Register(k) /\ call[k].session = s
              /\ call[k].command \in Commands
              /\ queue'[s] = Append(queue[s], call[k].command)
PROOF
  <1>0. queue \in [Sessions -> Seq(Commands)]
    BY DEF Shapes, Typed
  <1>1. ASSUME NEW k \in Callers, NEW r \in Sessions, CloseBegin(k, r)
        PROVE  IF r = s THEN queue'[s] = <<>> ELSE queue'[s] = queue[s]
    BY <1>0, <1>1, CloseMoves
  <1>2. ASSUME NEW k \in Callers, Register(k)
        PROVE  IF call[k].session = s
               THEN call[k].command \in Commands /\ queue'[s] = Append(queue[s], call[k].command)
               ELSE queue'[s] = queue[s]
    <2>1. call[k].command \in Commands
      BY <1>2 DEF Register, At, Shapes, CallsShaped, StartPcs
    <2> QED
      BY <1>0, <1>2, <2>1 DEF Register
  <1>3. ASSUME NEW w \in Commands, Pop(w)
        PROVE  IF Shell(w) = s THEN queue'[s] = Tail(queue[s]) ELSE queue'[s] = queue[s]
    BY <1>0, <1>3, PopAtQueue
  <1>4. ASSUME NEW k \in Callers, Insert(k) \/ ThreadStart(k) \/ Finish(k) PROVE queue' = queue
    BY <1>4 DEF Insert, ThreadStart, Finish, runtime
  <1>5. ASSUME NEW w \in Commands,
               PopNothing(w) \/ SetProgress(w) \/ Launch(w) \/ WorkerFinish(w) \/ Forget(w)
        PROVE  queue' = queue
    BY <1>5 DEF PopNothing, SetProgress, Launch, WorkerFinish, Forget, runtime
  <1>6. UNCHANGED vars \/ (\E r \in Sessions : ShellEnds(r)) => queue' = queue
    BY DEF vars, runtime, ShellEnds, ShellExits, Finalize
  <1>7. ASSUME NEW c \in Commands, ExecSteps(c) PROVE queue' = queue
    BY <1>7, ExecFrame DEF runtime
  <1> QED
    BY <1>1, <1>2, <1>3, <1>4, <1>5, <1>6, <1>7, NextCases, QuietCallFrame, QuietWorkerFrame

LEMMA ReferencesKept ==
  ASSUME Shapes, StartsApart, UnregisteredIsFree, [Next]_vars
  PROVE  References'
PROOF
  <1>a. \A c, s : RowOf(c, s) => RowOf(c, s)'
    BY RowsKept
  <1>0. References /\ CallsShaped /\ WorkersShaped
    BY DEF Shapes
  <1>1. ASSUME NEW c \in Commands, command'[c].status # "absent"
        PROVE  SessionOf(c)' \in Sessions
    <2>1. CASE Present(c)
      BY <2>1, <1>0, <1>a DEF Present, References, RowOf
    <2>2. CASE ~Present(c)
      <3>1. PICK k \in Callers : Insert(k) /\ SessionOf(c)' = call[k].session
        BY <1>1, <2>2, RowsInserted DEF Present
      <3> QED
        BY <3>1, <1>0 DEF Insert, At, CallsShaped
    <2> QED
      BY <2>1, <2>2
  <1>2. ASSUME NEW k \in Callers
        PROVE  /\ call'[k].pc \in {"register", "thread_start"} =>
                    RowOf(call[k].command, call[k].session)'
               /\ \A c \in call'[k].todo : RowOf(c, call[k].session)'
    <2>1. ASSUME Insert(k) PROVE RowOf(call[k].command, call[k].session)'
      <3>1. call[k].command \in Commands
        BY <1>0, <2>1 DEF Insert, At, CallsShaped, StartPcs
      <3>2. command \in [Commands -> Tables!CommandRows]
        BY DEF Shapes, Typed
      <3>3. call'[k].command = call[k].command /\ call'[k].session = call[k].session
        BY <2>1, StartCallMoves
      <3> QED
        BY <2>1, <3>1, <3>2, <3>3 DEF Insert, Tables!CreateCommand, RowOf, SessionOf
    <2>2. Register(k) => RowOf(call[k].command, call[k].session)
      BY <1>0 DEF Register, At, References
    <2>3. call'[k].pc \in {"register", "thread_start"} => RowOf(call[k].command, call[k].session)'
      <3>1. CASE call'[k] = call[k]
        BY <3>1, <1>0, <1>a DEF References, RowOf, SessionOf
      <3>2. CASE Insert(k)
        BY <3>2, <2>1
      <3>3. CASE /\ Register(k) /\ call'[k].command = call[k].command
                 /\ call'[k].session = call[k].session
        BY <3>3, <2>2, <1>a DEF RowOf, SessionOf
      <3> QED
        BY <3>1, <3>2, <3>3, CommandsFound
    <2>4. ASSUME NEW c \in call'[k].todo PROVE RowOf(c, call[k].session)'
      <3>1. RowOf(c, call'[k].session)
        <4>1. CASE call'[k].todo \subseteq call[k].todo /\ call'[k].session = call[k].session
          BY <4>1, <2>4, <1>0 DEF References
        <4>2. CASE \E d \in Commands : /\ CancelBegin(k, d) /\ call'[k].todo = {d}
                                       /\ call'[k].session = SessionOf(d)
          BY <4>2, <2>4 DEF CancelBegin, Tables!IsActive, Tables!Progress, RowOf
        <4>3. CASE \E s \in Sessions : /\ call'[k].todo = Tables!ActiveCommands(s)
                                       /\ call'[k].session = s
          BY <4>3, <2>4 DEF Tables!ActiveCommands, Tables!IsActive, Tables!Progress, RowOf, SessionOf
        <4> QED
          BY <2>4, <4>1, <4>2, <4>3, CommandsFound
      <3> QED
        BY <3>1, <1>a DEF RowOf, SessionOf
    <2> QED
      BY <2>3, <2>4
  <1>3. ASSUME NEW s \in Sessions, NEW i \in DOMAIN queue'[s]
        PROVE  RowOf(queue[s][i], s)'
    <2>0. queue[s] \in Seq(Commands)
      BY DEF Shapes, Typed
    <2>1. RowOf(queue'[s][i], s)
      <3>1. CASE queue'[s] = queue[s]
        BY <3>1, <1>0, <1>3 DEF References
      <3>2. CASE queue'[s] = <<>>
        BY <3>2, <1>3
      <3>3. CASE \E w \in Commands : Pop(w) /\ Shell(w) = s /\ queue'[s] = Tail(queue[s])
        <4>1. queue[s] # <<>> /\ queue'[s] = Tail(queue[s])
          BY <3>3 DEF Pop
        <4>2. i + 1 \in DOMAIN queue[s] /\ queue'[s][i] = queue[s][i + 1]
          BY <4>1, <2>0, <1>3
        <4> QED
          BY <4>2, <1>0 DEF References
      <3>4. CASE \E k \in Callers : /\ Register(k) /\ call[k].session = s
                                    /\ call[k].command \in Commands
                                    /\ queue'[s] = Append(queue[s], call[k].command)
        <4>1. PICK k \in Callers : /\ Register(k) /\ call[k].session = s
                                   /\ call[k].command \in Commands
                                   /\ queue'[s] = Append(queue[s], call[k].command)
          BY <3>4
        <4>2. RowOf(call[k].command, s)
          BY <4>1, <1>0 DEF Register, At, References
        <4>3. \/ i \in DOMAIN queue[s] /\ queue'[s][i] = queue[s][i]
              \/ queue'[s][i] = call[k].command
          BY <4>1, <2>0, <1>3
        <4> QED
          BY <4>2, <4>3, <1>0 DEF References
      <3> QED
        BY <3>1, <3>2, <3>3, <3>4, QueuesChange
    <2> QED
      BY <2>1, <1>a DEF RowOf, SessionOf
  <1>4. ASSUME NEW s \in Sessions, registered'[s] # NoThread
        PROVE  RowOf(registered[s], s)'
    <2>0. registered \in [Sessions -> Commands \cup {NoThread}]
      BY DEF Shapes, Typed
    <2>1. RowOf(registered'[s], s)
      <3>1. CASE registered' = registered
        BY <3>1, <1>0, <1>4 DEF References
      <3>2. ASSUME NEW k \in Callers, Register(k) PROVE RowOf(registered'[s], s)
        <4>1. RowOf(call[k].command, call[k].session)
          BY <3>2, <1>0 DEF Register, At, References
        <4> QED
          BY <3>2, <4>1, <2>0, <1>0, <1>4 DEF Register, References
      <3>3. ASSUME NEW w \in Commands, PopNothing(w) PROVE RowOf(registered'[s], s)
        BY <3>3, <2>0, <1>0, <1>4 DEF PopNothing, References
      <3>4. ASSUME NEW k \in Callers,
                   \/ Insert(k) \/ ThreadStart(k) \/ Finish(k)
                   \/ \E r \in Sessions : CloseBegin(k, r)
            PROVE  registered' = registered
        BY <3>4 DEF Insert, ThreadStart, Finish, CloseBegin, CloseTaking, runtime
      <3>5. ASSUME NEW w \in Commands,
                   Pop(w) \/ SetProgress(w) \/ Launch(w) \/ WorkerFinish(w) \/ Forget(w)
            PROVE  registered' = registered
        BY <3>5 DEF Pop, SetProgress, Launch, WorkerFinish, Forget, runtime
      <3>6. UNCHANGED vars \/ (\E r \in Sessions : ShellEnds(r)) => registered' = registered
        BY DEF vars, runtime, ShellEnds, ShellExits, Finalize
      <3>7. ASSUME NEW c \in Commands, ExecSteps(c) PROVE registered' = registered
        BY <3>7, ExecFrame DEF runtime
      <3> QED
        BY <3>1, <3>2, <3>3, <3>4, <3>5, <3>6, <3>7, NextCases, QuietCallFrame, QuietWorkerFrame
    <2> QED
      BY <2>1, <1>a DEF RowOf, SessionOf
  <1>5. ASSUME NEW w \in Commands
        PROVE  /\ worker'[w].pc # "none" => RowOf(w, Shell(w))'
               /\ worker'[w].pc \notin Resting => RowOf(Own(w), Shell(w))'
    <2>1. ASSUME worker'[w].pc # "none" PROVE RowOf(w, Shell(w))
      <3>1. CASE worker[w].pc # "none"
        BY <3>1, <1>0 DEF References
      <3>2. CASE \E k \in Callers : Register(k) /\ call[k].command = w
        BY <3>2, <1>0 DEF Register, At, References, RowOf, SessionOf, Shell
      <3> QED
        BY <2>1, <3>1, <3>2, CommandsTaken
    <2>2. worker'[w].pc # "none" => RowOf(w, Shell(w))' /\ Shell(w)' = Shell(w)
      BY <2>1, <1>a DEF RowOf, SessionOf, Shell
    <2>3. ASSUME worker'[w].pc \notin Resting PROVE RowOf(worker'[w].command, Shell(w))
      <3>0. worker'[w].command # NoCommand
        BY <2>3, WorkersKept DEF WorkersShaped, Own
      <3>1. CASE worker'[w].command = worker[w].command
        <4>1. worker[w].pc \notin Resting
          BY <3>0, <3>1, <1>0 DEF WorkersShaped, Own
        <4> QED
          BY <3>1, <4>1, <1>0 DEF References, Own
      <3>2. CASE Pop(w) /\ worker'[w].command = Head(queue[Shell(w)])
        BY <3>2, <1>0, PopAtQueue DEF References
      <3> QED
        BY <3>0, <3>1, <3>2, CommandsTaken
    <2> QED
      BY <2>2, <2>3, <1>a DEF RowOf, SessionOf, Own, Resting
  <1> QED
    BY <1>1, <1>2, <1>3, <1>4, <1>5 DEF References

LEMMA NextShapes ==
  ASSUME Shapes, StartsApart, UnregisteredIsFree, [Next]_vars
  PROVE  Shapes'
PROOF
  <1>1. Typed'
    BY RowsKept, SessionRowsKept, RuntimeKept, ProcessesKept DEF Shapes, Typed
  <1> QED
    BY <1>1, CallsKept, WorkersKept, ReferencesKept DEF Shapes

-----------------------------------------------------------------------------
(* Who can have moved what *)

LEMMA CallMovedBy ==
  ASSUME Shapes, [Next]_vars, NEW k \in Callers
  PROVE  \/ call'[k] = call[k]
         \/ QuietCall(k) \/ Insert(k) \/ Register(k) \/ ThreadStart(k) \/ Finish(k)
         \/ \E s \in Sessions : CloseBegin(k, s)
PROOF
  <1>1. ASSUME NEW w \in Commands,
               PopNothing(w) \/ Pop(w) \/ SetProgress(w) \/ Launch(w) \/ WorkerFinish(w) \/ Forget(w)
        PROVE  call' = call
    BY <1>1 DEF PopNothing, Pop, SetProgress, Launch, WorkerFinish, Forget
  <1>2. UNCHANGED vars \/ (\E s \in Sessions : ShellEnds(s)) => call' = call
    BY DEF vars, threads, ShellEnds, ShellExits, Finalize
  <1> QED
    BY <1>1, <1>2, NextCases, QuietCallMoves, StartCallMoves, FinishMoves, CloseMoves,
       QuietWorkerFrame, ExecFrame

\* A worker moves by a step of its own, which it does not take before it is
\* started, or by a step of its start call.
LEMMA WorkerMovedBy ==
  ASSUME Shapes, [Next]_vars, NEW w \in Commands
  PROVE  \/ worker'[w] = worker[w]
         \/ /\ QuietWorker(w) \/ PopNothing(w) \/ Pop(w) \/ SetProgress(w) \/ Launch(w)
               \/ WorkerFinish(w) \/ Forget(w)
            /\ worker[w].pc \notin {"none", "unstarted", "dead"}
            /\ \A v \in Commands : v # w => worker'[v] = worker[v]
         \/ \E k \in Callers : (Register(k) \/ ThreadStart(k)) /\ call[k].command = w
PROOF
  <1>0. WorkersShaped /\ CallsShaped
    BY DEF Shapes
  <1>1. ASSUME NEW v \in Commands,
               \/ QuietWorker(v) \/ PopNothing(v) \/ Pop(v) \/ SetProgress(v) \/ Launch(v)
               \/ WorkerFinish(v) \/ Forget(v)
        PROVE  /\ \A u \in Commands : u # v => worker'[u] = worker[u]
               /\ worker[v].pc \notin {"none", "unstarted", "dead"}
    <2>1. CASE QuietWorker(v)
      BY <2>1, <1>0, QuietWorkerMoves, QuietWorkerFrame DEF Resting
    <2>2. CASE Pop(v)
      <3>1. /\ Shell(v) \in Sessions /\ Head(queue[Shell(v)]) \in Commands
            /\ live \in [Sessions -> BOOLEAN]
        BY <2>2, PopAtQueue DEF Shapes, Typed
      <3> QED
        BY <2>2, <3>1, <1>0, PopMoves
    <2>3. CASE PopNothing(v) \/ SetProgress(v) \/ Launch(v) \/ WorkerFinish(v)
      <3>1. worker[v].pc \notin {"none", "unstarted", "dead"}
        BY <2>3 DEF PopNothing, SetProgress, Launch, WorkerFinish, WorkerAt
      <3> QED
        BY <2>3, <3>1, <1>0, BusyWorkerMoves
    <2>4. CASE Forget(v)
      BY <2>4, <1>0, ForgetMoves DEF Forget, WorkerAt
    <2> QED
      BY <1>1, <2>1, <2>2, <2>3, <2>4
  <1>2. ASSUME NEW k \in Callers, Register(k) \/ ThreadStart(k), call[k].command # w
        PROVE  worker'[w] = worker[w]
    BY <1>0, <1>2, StartMoves
  <1>3. ASSUME NEW k \in Callers, Insert(k) \/ Finish(k) \/ \E s \in Sessions : CloseBegin(k, s)
        PROVE  worker' = worker
    BY <1>3 DEF Insert, Finish, CloseBegin, CloseTaking, processes
  <1>4. UNCHANGED vars \/ (\E s \in Sessions : ShellEnds(s)) => worker' = worker
    BY DEF vars, threads, ShellEnds, ShellExits, Finalize
  <1> QED
    BY <1>1, <1>2, <1>3, <1>4, NextCases, QuietCallFrame, ExecFrame

LEMMA ExecMovedBy ==
  ASSUME Shapes, [Next]_vars, NEW c \in Commands
  PROVE  \/ exec'[c] = exec[c]
         \/ ExecSteps(c)
         \/ \E w \in Commands : Launch(w) /\ Own(w) = c
PROOF
  <1>0. exec \in [Commands -> ExecStates]
    BY DEF Shapes, Typed
  <1>1. ASSUME NEW k \in Callers,
               \/ Insert(k) \/ Register(k) \/ ThreadStart(k) \/ Finish(k)
               \/ \E s \in Sessions : CloseBegin(k, s)
        PROVE  exec' = exec
    BY <1>1 DEF Insert, Register, ThreadStart, Finish, CloseBegin, CloseTaking
  <1>2. ASSUME NEW w \in Commands,
               PopNothing(w) \/ Pop(w) \/ SetProgress(w) \/ WorkerFinish(w) \/ Forget(w)
        PROVE  exec' = exec
    BY <1>2 DEF PopNothing, Pop, SetProgress, WorkerFinish, Forget
  <1>3. ASSUME NEW w \in Commands, Launch(w), Own(w) # c PROVE exec'[c] = exec[c]
    BY <1>0, <1>3 DEF Launch
  <1>4. UNCHANGED vars \/ (\E s \in Sessions : ShellEnds(s)) => exec' = exec
    BY DEF vars, threads, ShellEnds, ShellExits, Finalize
  <1>5. ASSUME NEW d \in Commands, ExecSteps(d), d # c PROVE exec'[c] = exec[c]
    BY <1>0, <1>5, ExecFrame
  <1> QED
    BY <1>1, <1>2, <1>3, <1>4, <1>5, NextCases, QuietCallFrame, QuietWorkerFrame

LEMMA CommandMovedBy ==
  ASSUME Shapes, [Next]_vars, NEW c \in Commands
  PROVE  \/ command'[c] = command[c]
         \/ \E k \in Callers : (Insert(k) \/ Finish(k)) /\ call[k].command = c
         \/ \E w \in Commands : (SetProgress(w) \/ WorkerFinish(w)) /\ Own(w) = c
PROOF
  <1>0. command \in [Commands -> Tables!CommandRows]
    BY DEF Shapes, Typed
  <1>a. ASSUME NEW d, d # c,
               \/ \E s : Tables!CreateCommand(d, s)
               \/ \E st : Tables!UpdateCommand(d, st)
               \/ \E st : Tables!FinishCommand(d, st)
        PROVE  command'[c] = command[c]
    BY <1>0, <1>a
    DEF Tables!CreateCommand, Tables!UpdateCommand, Tables!FinishCommand, Tables!tables
  <1>1. ASSUME NEW k \in Callers, Insert(k) \/ Finish(k), call[k].command # c
        PROVE  command'[c] = command[c]
    BY <1>1, <1>a DEF Insert, Finish
  <1>2. ASSUME NEW k \in Callers,
               Register(k) \/ ThreadStart(k) \/ \E s \in Sessions : CloseBegin(k, s)
        PROVE  command' = command
    BY <1>2 DEF Register, ThreadStart, CloseBegin, CloseTaking, tables
  <1>3. ASSUME NEW w \in Commands, SetProgress(w) \/ WorkerFinish(w), Own(w) # c
        PROVE  command'[c] = command[c]
    BY <1>3, <1>a DEF SetProgress, WorkerFinish, tables
  <1>4. ASSUME NEW w \in Commands, PopNothing(w) \/ Pop(w) \/ Launch(w) \/ Forget(w)
        PROVE  command' = command
    BY <1>4 DEF PopNothing, Pop, Launch, Forget, tables
  <1>5. UNCHANGED vars \/ (\E s \in Sessions : ShellEnds(s)) => command' = command
    BY DEF vars, tables, ShellEnds, ShellExits, Finalize
  <1> QED
    BY <1>1, <1>2, <1>3, <1>4, <1>5, NextCases, QuietCallFrame, QuietWorkerFrame, ExecFrame

LEMMA CancelsMovedBy ==
  ASSUME Shapes, [Next]_vars, NEW c \in Commands
  PROVE  \/ c \in cancels' <=> c \in cancels
         \/ \E k \in Callers : Register(k) /\ call[k].command = c /\ c \in cancels'
         \/ \E w \in Commands : Forget(w) /\ Own(w) = c
PROOF
  <1>1. ASSUME NEW k \in Callers,
               \/ Insert(k) \/ ThreadStart(k) \/ Finish(k)
               \/ \E s \in Sessions : CloseBegin(k, s)
        PROVE  cancels' = cancels
    BY <1>1 DEF Insert, ThreadStart, Finish, CloseBegin, CloseTaking, runtime
  <1>2. ASSUME NEW w \in Commands,
               PopNothing(w) \/ Pop(w) \/ SetProgress(w) \/ Launch(w) \/ WorkerFinish(w)
        PROVE  cancels' = cancels
    BY <1>2 DEF PopNothing, Pop, SetProgress, Launch, WorkerFinish, runtime
  <1>3. ASSUME NEW k \in Callers, Register(k) PROVE cancels' = cancels \cup {call[k].command}
    BY <1>3 DEF Register
  <1>4. ASSUME NEW w \in Commands, Forget(w) PROVE cancels' = cancels \ {Own(w)}
    BY <1>4 DEF Forget
  <1>5. UNCHANGED vars \/ (\E s \in Sessions : ShellEnds(s)) => cancels' = cancels
    BY DEF vars, runtime, ShellEnds, ShellExits, Finalize
  <1>6. ASSUME NEW d \in Commands, ExecSteps(d) PROVE cancels' = cancels
    BY <1>6, ExecFrame DEF runtime
  <1> QED
    BY <1>1, <1>2, <1>3, <1>4, <1>5, <1>6, NextCases, QuietCallFrame, QuietWorkerFrame

-----------------------------------------------------------------------------
(* Who has a command, is kept *)

LEMMA InitPlaces == Init => Places
PROOF
  <1> SUFFICES ASSUME Init PROVE Places
    OBVIOUS
  <1> USE NamesAssumption
          DEF Init, Tables!Init, Tables!NoSessionRow, Tables!NoCommandRow, NoCall, NoWorker
  <1>1. StartsApart
    BY DEF StartsApart, StartPcs, At
  <1>2. UnregisteredIsFree /\ OwnersApart /\ UnstartedIsCalled
    BY DEF UnregisteredIsFree, OwnersApart, UnstartedIsCalled, Own, Queued
  <1>3. QueuedIsFree
    BY DEF QueuedIsFree
  <1> QED
    BY <1>1, <1>2, <1>3 DEF Places

\* A start call keeps its command until it returns.
LEMMA StartersKept ==
  ASSUME Shapes, [Next]_vars, NEW k \in Callers, call'[k].pc \in StartPcs
  PROVE  \/ /\ call[k].pc \in StartPcs
            /\ call'[k].command = call[k].command /\ call'[k].session = call[k].session
            /\ call'[k].pc = call[k].pc \/ (Insert(k) /\ call'[k].pc = "register")
               \/ (Register(k) /\ ShouldStart(call[k].session) /\ call'[k].pc = "thread_start")
         \/ \E s \in Sessions, c \in Commands :
              /\ StartBegin(k, s, c) /\ call'[k].pc = "insert"
              /\ call'[k].command = c /\ call'[k].session = s
              /\ \A j \in Callers : j # k => call'[j] = call[j]
PROOF
  <1>1. CASE call'[k] = call[k]
    BY <1>1
  <1>2. CASE QuietCall(k)
    BY <1>2, QuietCallMoves DEF StartPcs
  <1>3. CASE Insert(k) \/ Register(k) \/ ThreadStart(k)
    BY <1>3, StartCallMoves DEF StartPcs, Insert, Register, At
  <1>4. CASE Finish(k)
    BY <1>4, FinishMoves DEF StartPcs
  <1>5. CASE \E s \in Sessions : CloseBegin(k, s)
    <2>1. call'[k].pc \in {"set", "shut", "stamp"}
      BY <1>5, CloseMoves
    <2> QED
      BY <2>1 DEF StartPcs
  <1> QED
    BY <1>1, <1>2, <1>3, <1>4, <1>5, CallMovedBy

\* Nobody else starts a command that a call is starting.
LEMMA OneStarter ==
  ASSUME StartsApart, NEW j \in Callers, NEW k \in Callers,
         Insert(j) \/ Register(j) \/ ThreadStart(j), call[k].pc \in StartPcs,
         call[j].command = call[k].command
  PROVE  j = k
PROOF
  BY DEF StartsApart, Insert, Register, ThreadStart, At, StartPcs

\* What is unregistered was so before, and is not being registered.
LEMMA UnregisteredBefore ==
  ASSUME Shapes, StartsApart, [Next]_vars, NEW c \in Commands, Unregistered(c)'
  PROVE  /\ Unregistered(c)
         /\ ~\E k \in Callers : Register(k) /\ call[k].command = c
PROOF
  <1>1. CASE ~Present(c)'
    <2>1. ~Present(c)
      BY <1>1, RowsKept DEF Present
    <2>2. ASSUME NEW k \in Callers, Register(k), call[k].command = c PROVE FALSE
      BY <2>1, <2>2 DEF Register, At, Shapes, References, RowOf, Present
    <2> QED
      BY <2>1, <2>2 DEF Unregistered
  <1>2. CASE \E k \in Callers : call'[k].pc = "register" /\ call'[k].command = c
    <2>1. PICK k \in Callers : call'[k].pc = "register" /\ call'[k].command = c
      BY <1>2
    <2>2. /\ call[k].pc \in StartPcs /\ call[k].command = c
          /\ call[k].pc = "register" \/ Insert(k)
      BY <2>1, StartersKept DEF StartPcs
    <2>3. Unregistered(c)
      BY <2>2 DEF Unregistered, At, StartsApart, Insert
    <2>4. ASSUME NEW j \in Callers, Register(j), call[j].command = c PROVE FALSE
      <3>1. j = k
        BY <2>2, <2>4, OneStarter
      <3> QED
        BY <3>1, <2>1, <2>4, StartCallMoves
    <2> QED
      BY <2>3, <2>4
  <1> QED
    BY <1>1, <1>2 DEF Unregistered, At

LEMMA UnregisteredIsFreeKept ==
  ASSUME Shapes, Places, [Next]_vars
  PROVE  UnregisteredIsFree'
PROOF
  <1> SUFFICES ASSUME NEW c \in Commands, Unregistered(c)'
               PROVE  /\ worker'[c].pc = "none" /\ exec'[c] = "none"
                      /\ \A w \in Commands : worker'[w].command # c
                      /\ \A s \in Sessions : ~Queued(c, s)'
    BY DEF UnregisteredIsFree, Own
  <1>0. StartsApart /\ UnregisteredIsFree
    BY DEF Places
  <1>1. /\ Unregistered(c) /\ ~\E k \in Callers : Register(k) /\ call[k].command = c
    BY <1>0, UnregisteredBefore
  <1>2. /\ worker[c].pc = "none" /\ exec[c] = "none"
        /\ \A w \in Commands : Own(w) # c
        /\ \A s \in Sessions : ~Queued(c, s)
    BY <1>0, <1>1 DEF UnregisteredIsFree
  <1>3. worker'[c].pc = "none"
    <2>1. ASSUME NEW k \in Callers, ThreadStart(k), call[k].command = c PROVE FALSE
      BY <1>0, <1>2, <2>1 DEF ThreadStart, At, StartsApart
    <2> QED
      BY <1>1, <1>2, <2>1, WorkerMovedBy
  <1>4. exec'[c] = "none"
    BY <1>2, ExecMovedBy, ExecFrame
  <1>5. ASSUME NEW w \in Commands, worker'[w].command = c PROVE FALSE
    <2>1. Pop(w) /\ c = Head(queue[Shell(w)])
      BY <1>0, <1>2, <1>5, CommandsTaken, NamesAssumption DEF Own
    <2> QED
      BY <1>2, <2>1, PopAtQueue DEF Queued
  <1>6. ASSUME NEW s \in Sessions, NEW i \in DOMAIN queue'[s], queue'[s][i] = c PROVE FALSE
    <2>0. queue[s] \in Seq(Commands) /\ \A j \in DOMAIN queue[s] : queue[s][j] # c
      BY <1>2 DEF Shapes, Typed, Queued
    <2>1. CASE \E w \in Commands : Pop(w) /\ Shell(w) = s /\ queue'[s] = Tail(queue[s])
      <3>1. queue[s] # <<>> /\ queue'[s] = Tail(queue[s])
        BY <2>1 DEF Pop
      <3> QED
        BY <1>6, <2>0, <3>1
    <2>2. CASE \E k \in Callers : /\ Register(k) /\ call[k].command \in Commands
                                  /\ queue'[s] = Append(queue[s], call[k].command)
      BY <1>1, <1>6, <2>0, <2>2
    <2> QED
      BY <1>6, <2>0, <2>1, <2>2, QueuesChange
  <1> QED
    BY <1>3, <1>4, <1>5, <1>6 DEF Queued

LEMMA StartsApartKept ==
  ASSUME Shapes, Places, [Next]_vars
  PROVE  StartsApart'
PROOF
  <1>0. StartsApart /\ UnregisteredIsFree /\ CallsShaped /\ WorkersShaped
    BY DEF Places, Shapes
  <1>1. ASSUME NEW j \in Callers, NEW k \in Callers,
               call'[j].pc \in StartPcs, call'[k].pc \in StartPcs,
               call'[j].command = call'[k].command
        PROVE  j = k
    <2>1. ASSUME NEW i \in Callers, NEW h \in Callers, NEW s \in Sessions, NEW c \in Commands,
                 StartBegin(i, s, c), call'[i].command = c, call'[h].command = c,
                 \A g \in Callers : g # i => call'[g] = call[g]
          PROVE  i = h
      BY <2>1 DEF StartBegin
    <2> QED
      BY <1>0, <1>1, <2>1, StartersKept DEF StartsApart
  <1>2. ASSUME NEW k \in Callers, call'[k].pc = "insert" PROVE ~Present(call[k].command)'
    <2>0. call'[k].pc \in StartPcs /\ "insert" # "register" /\ "insert" # "thread_start"
      BY <1>2 DEF StartPcs
    <2>1. CASE call[k].pc = "insert" /\ call'[k].command = call[k].command
      <3>1. call[k].command \in Commands /\ ~Present(call[k].command) /\ call[k].pc \in StartPcs
        BY <1>0, <2>1 DEF CallsShaped, StartsApart, At, StartPcs
      <3>2. ASSUME Present(call[k].command)' PROVE FALSE
        <4>1. PICK j \in Callers : Insert(j) /\ call[j].command = call[k].command
          BY <2>1, <3>1, <3>2, RowsInserted DEF Present
        <4>2. j = k
          BY <1>0, <3>1, <4>1, OneStarter
        <4> QED
          BY <1>2, <4>1, <4>2, StartCallMoves
      <3> QED
        BY <3>2
    <2>2. CASE \E s \in Sessions, c \in Commands : StartBegin(k, s, c) /\ call'[k].command = c
      BY <2>2 DEF StartBegin, tables, Present
    <2> QED
      BY <1>2, <2>0, <2>1, <2>2, StartersKept
  <1>3. ASSUME NEW k \in Callers, call'[k].pc = "thread_start"
        PROVE  worker'[call'[k].command].pc = "unstarted"
    <2>0. call'[k].pc \in StartPcs
      BY <1>3 DEF StartPcs
    <2>1. CASE call[k].pc = "thread_start" /\ call'[k].command = call[k].command
      <3> DEFINE c == call[k].command
      <3>1. c \in Commands /\ worker[c].pc = "unstarted" /\ call[k].pc \in StartPcs
        BY <1>0, <2>1 DEF CallsShaped, StartsApart, At, StartPcs
      <3>2. ASSUME NEW j \in Callers, Register(j), call[j].command = c PROVE FALSE
        BY <1>0, <3>1, <3>2 DEF UnregisteredIsFree, Unregistered, Register
      <3>3. ASSUME NEW j \in Callers, ThreadStart(j), call[j].command = c PROVE FALSE
        <4>1. j = k
          BY <1>0, <3>1, <3>3, OneStarter
        <4> QED
          BY <1>3, <3>3, <4>1, StartCallMoves
      <3> QED
        BY <2>1, <3>1, <3>2, <3>3, WorkerMovedBy
    <2>2. CASE Register(k) /\ ShouldStart(call[k].session) /\ call'[k].command = call[k].command
      BY <1>0, <2>2, StartMoves
    <2> QED
      BY <1>3, <2>0, <2>1, <2>2, StartersKept
  <1> QED
    BY <1>1, <1>2, <1>3 DEF StartsApart, At

LEMMA OwnersApartKept ==
  ASSUME Shapes, Places, [Next]_vars
  PROVE  OwnersApart'
PROOF
  <1>0. StartsApart /\ UnregisteredIsFree /\ OwnersApart /\ QueuedIsFree /\ WorkersShaped
    BY DEF Places, Shapes
  <1> SUFFICES ASSUME NEW v \in Commands, NEW w \in Commands, worker'[v].command = worker'[w].command,
                      worker'[w].command \in Commands, v # w
               PROVE  FALSE
    BY DEF OwnersApart, Own
  <1>1. ASSUME NEW x \in Commands, NEW y \in Commands, x # y, Pop(x),
               worker'[x].command = Head(queue[Shell(x)]), worker'[y].command = worker'[x].command
        PROVE  FALSE
    <2>1. /\ Shell(x) \in Sessions /\ Head(queue[Shell(x)]) \in Commands
          /\ live \in [Sessions -> BOOLEAN]
          /\ \E i \in DOMAIN queue[Shell(x)] : queue[Shell(x)][i] = Head(queue[Shell(x)])
      BY <1>1, PopAtQueue DEF Shapes, Typed
    <2>2. worker'[y] = worker[y]
      BY <1>0, <1>1, <2>1, PopMoves
    <2> QED
      BY <1>0, <1>1, <2>1, <2>2 DEF QueuedIsFree, Own
  <1>2. worker'[v].command = worker[v].command /\ worker'[w].command = worker[w].command
    BY <1>0, <1>1, CommandsTaken, NamesAssumption
  <1> QED
    BY <1>0, <1>2 DEF OwnersApart, Own

LEMMA UnstartedIsCalledKept ==
  ASSUME Shapes, Places, [Next]_vars
  PROVE  UnstartedIsCalled'
PROOF
  <1>0. StartsApart /\ UnregisteredIsFree /\ UnstartedIsCalled /\ WorkersShaped /\ CallsShaped
    BY DEF Places, Shapes
  <1> SUFFICES ASSUME NEW w \in Commands, worker'[w].pc = "unstarted"
               PROVE  \E k \in Callers : call'[k].pc = "thread_start" /\ call'[k].command = w
    BY DEF UnstartedIsCalled, Unstarted, At
  <1>1. CASE worker'[w] = worker[w]
    <2>1. PICK k \in Callers : call[k].pc = "thread_start" /\ call[k].command = w
      BY <1>0, <1>1 DEF UnstartedIsCalled, Unstarted, At
    <2>2. ~ThreadStart(k)
      BY <1>0, <2>1, StartMoves
    <2>3. ~QuietCall(k) /\ ~Insert(k) /\ ~Register(k) /\ ~Finish(k) /\ ~\E s \in Sessions : CloseBegin(k, s)
      BY <2>1, QuietCallMoves, FinishMoves, CloseMoves DEF Insert, Register, At, StartPcs
    <2> QED
      BY <2>1, <2>2, <2>3, CallMovedBy
  <1>2. CASE \E k \in Callers : Register(k) /\ call[k].command = w
    <2>1. PICK k \in Callers : Register(k) /\ call[k].command = w
      BY <1>2
    <2>2. worker[w].pc = "none"
      BY <1>0, <2>1 DEF UnregisteredIsFree, Unregistered, Register
    <2>3. ShouldStart(call[k].session)
      BY <1>0, <2>1, <2>2, StartMoves
    <2> QED
      BY <2>1, <2>3, StartCallMoves
  <1>3. CASE \E k \in Callers : ThreadStart(k) /\ call[k].command = w
    BY <1>0, <1>3, StartMoves
  <1>4. CASE QuietWorker(w)
    BY <1>0, <1>4, QuietWorkerMoves DEF Resting
  <1>5. CASE PopNothing(w) \/ SetProgress(w) \/ Launch(w) \/ WorkerFinish(w) \/ Forget(w)
    BY <1>0, <1>5, BusyWorkerMoves, ForgetMoves
  <1>6. CASE Pop(w)
    <2>1. /\ Shell(w) \in Sessions /\ Head(queue[Shell(w)]) \in Commands
          /\ live \in [Sessions -> BOOLEAN]
      BY <1>6, PopAtQueue DEF Shapes, Typed
    <2> QED
      BY <1>0, <1>6, <2>1, PopMoves
  <1> QED
    BY <1>1, <1>2, <1>3, <1>4, <1>5, <1>6, WorkerMovedBy

LEMMA QueuedIsFreeKept ==
  ASSUME Shapes, Places, [Next]_vars
  PROVE  QueuedIsFree'
PROOF
  <1>0. /\ StartsApart /\ UnregisteredIsFree /\ QueuedIsFree /\ OwnersApart
        /\ WorkersShaped /\ References
    BY DEF Places, Shapes
  <1> SUFFICES ASSUME NEW s \in Sessions
               PROVE  /\ \A i, j \in DOMAIN queue'[s] : queue'[s][i] = queue'[s][j] => i = j
                      /\ \A i \in DOMAIN queue'[s] :
                           /\ exec'[queue'[s][i]] = "none" /\ queue'[s][i] \in cancels'
                           /\ \A w \in Commands : worker'[w].command # queue'[s][i]
    BY DEF QueuedIsFree, Own
  <1>1. /\ queue[s] \in Seq(Commands) /\ queue \in [Sessions -> Seq(Commands)]
        /\ cancels \subseteq Commands
    BY DEF Shapes, Typed
  <1>2. /\ \A i, j \in DOMAIN queue[s] : queue[s][i] = queue[s][j] => i = j
        /\ \A i \in DOMAIN queue[s] :
             /\ exec[queue[s][i]] = "none" /\ queue[s][i] \in cancels
             /\ \A w \in Commands : Own(w) # queue[s][i]
    BY <1>0 DEF QueuedIsFree
  \* A command that stays in the queue.
  <1>3. ASSUME NEW i \in DOMAIN queue[s],
               \A w \in Commands : Pop(w) /\ Shell(w) = s => Head(queue[s]) # queue[s][i]
        PROVE  /\ exec'[queue[s][i]] = "none" /\ queue[s][i] \in cancels'
               /\ \A w \in Commands : worker'[w].command # queue[s][i]
    <2> DEFINE c == queue[s][i]
    <2>1. c \in Commands /\ exec[c] = "none" /\ c \in cancels /\ \A w \in Commands : Own(w) # c
      BY <1>1, <1>2
    <2>2. RowOf(c, s)
      BY <1>0 DEF References
    <2> HIDE DEF c
    <2>3. exec'[c] = "none"
      BY <2>1, ExecMovedBy, ExecFrame
    <2>4. c \in cancels'
      BY <2>1, CancelsMovedBy
    <2>5. ASSUME NEW w \in Commands, worker'[w].command = c PROVE FALSE
      <3>1. Pop(w) /\ c = Head(queue[Shell(w)])
        BY <1>0, <2>1, <2>5, CommandsTaken, NamesAssumption DEF Own
      <3>2. Shell(w) = s
        BY <1>0, <2>2, <3>1, PopAtQueue DEF References, RowOf
      <3> QED
        BY <1>3, <3>1, <3>2 DEF c
    <2> QED
      BY <2>3, <2>4, <2>5 DEF c
  <1>4. CASE queue'[s] = queue[s]
    <2>1. ASSUME NEW w \in Commands, Pop(w), Shell(w) = s PROVE FALSE
      BY <1>1, <1>4, <2>1, PopAtQueue
    <2> QED
      BY <1>2, <1>3, <1>4, <2>1
  <1>5. CASE queue'[s] = <<>>
    BY <1>5
  <1>6. CASE \E w \in Commands : Pop(w) /\ Shell(w) = s /\ queue'[s] = Tail(queue[s])
    <2>1. queue[s] # <<>> /\ queue'[s] = Tail(queue[s])
      BY <1>6 DEF Pop
    <2>2. \A i \in DOMAIN queue'[s] : i + 1 \in DOMAIN queue[s] /\ queue'[s][i] = queue[s][i + 1] /\ i \in Nat \ {0}
      BY <1>1, <2>1
    <2>3. Head(queue[s]) = queue[s][1] /\ 1 \in DOMAIN queue[s]
      BY <1>1, <2>1
    <2>4. \A i \in DOMAIN queue'[s] : Head(queue[s]) # queue[s][i + 1]
      BY <1>2, <2>2, <2>3
    <2>5. \A i \in DOMAIN queue'[s] :
            /\ exec'[queue'[s][i]] = "none" /\ queue'[s][i] \in cancels'
            /\ \A w \in Commands : worker'[w].command # queue'[s][i]
      BY <1>3, <2>2, <2>4
    <2>6. \A i, j \in DOMAIN queue'[s] : queue'[s][i] = queue'[s][j] => i = j
      BY <1>2, <2>2
    <2> QED
      BY <2>5, <2>6
  <1>7. CASE \E k \in Callers : /\ Register(k) /\ call[k].session = s
                                /\ call[k].command \in Commands
                                /\ queue'[s] = Append(queue[s], call[k].command)
    <2>1. PICK k \in Callers : /\ Register(k) /\ call[k].session = s
                               /\ call[k].command \in Commands
                               /\ queue'[s] = Append(queue[s], call[k].command)
      BY <1>7
    <2> DEFINE c == call[k].command
    <2>2. \A i \in DOMAIN queue'[s] : \/ i \in DOMAIN queue[s] /\ queue'[s][i] = queue[s][i]
                                      \/ i = Len(queue[s]) + 1 /\ queue'[s][i] = c
      BY <1>1, <2>1
    <2>3. exec[c] = "none" /\ (\A w \in Commands : Own(w) # c) /\ (\A r \in Sessions : ~Queued(c, r))
      BY <1>0, <2>1 DEF UnregisteredIsFree, Unregistered, Register
    <2>4. Len(queue'[s]) = Len(queue[s]) + 1
      BY <1>1, <2>1
    <2>5. ASSUME NEW w \in Commands, Pop(w), Shell(w) = s PROVE FALSE
      <3>1. queue[s] # <<>> /\ queue'[s] = Tail(queue[s])
        BY <1>1, <2>5, PopAtQueue
      <3> QED
        BY <1>1, <2>4, <3>1
    <2>6. exec'[c] = "none"
      BY <2>1, <2>3, ExecMovedBy, ExecFrame
    <2>7. c \in cancels'
      BY <2>1 DEF Register
    <2>8. ASSUME NEW w \in Commands, worker'[w].command = c PROVE FALSE
      <3>1. Pop(w) /\ c = Head(queue[Shell(w)])
        BY <1>0, <2>1, <2>3, <2>8, CommandsTaken, NamesAssumption DEF Own
      <3> QED
        BY <2>3, <3>1, PopAtQueue DEF Queued
    <2>9. \A i, j \in DOMAIN queue'[s] : queue'[s][i] = queue'[s][j] => i = j
      BY <1>2, <2>2, <2>3 DEF Queued
    <2> QED
      BY <1>3, <2>2, <2>5, <2>6, <2>7, <2>8, <2>9
  <1> QED
    BY <1>4, <1>5, <1>6, <1>7, QueuesChange

LEMMA PlacesKept ==
  ASSUME Shapes, Places, [Next]_vars
  PROVE  Shapes' /\ Places'
PROOF
  <1>1. Shapes'
    BY NextShapes DEF Places
  <1> QED
    BY <1>1, StartsApartKept, UnregisteredIsFreeKept, QueuedIsFreeKept, OwnersApartKept,
       UnstartedIsCalledKept DEF Places


-----------------------------------------------------------------------------
(* How far a command has come, is kept *)

LEMMA StatusMoves ==
  ASSUME Shapes, [Next]_vars, NEW c \in Commands
  PROVE  \/ command'[c] = command[c]
         \/ \E k \in Callers :
              /\ Insert(k) /\ call[k].command = c
              /\ command'[c].status = "queued" /\ command'[c].endedAt = FALSE
              /\ command[c].status = "absent"
         \/ \E k \in Callers :
              /\ Finish(k) /\ call[k].command = c /\ ~Tables!IsTerminal(c)
              /\ command'[c].status = "canceled" /\ command'[c].endedAt = TRUE
         \/ \E w \in Commands :
              /\ SetProgress(w) /\ Own(w) = c
              /\ \/ /\ worker[w].pc = "starting" /\ worker'[w].pc = "started"
                    /\ command'[c].status = "starting"
                 \/ /\ worker[w].pc = "running" /\ worker'[w].pc = "launch"
                    /\ command'[c].status = "running"
              /\ command'[c].endedAt = command[c].endedAt /\ ~command[c].endedAt
         \/ \E w \in Commands :
              /\ WorkerFinish(w) /\ Own(w) = c /\ ~Tables!IsTerminal(c)
              /\ command'[c].status = worker[w].outcome /\ command'[c].endedAt = TRUE
PROOF
  <1>0. command \in [Commands -> Tables!CommandRows]
    BY DEF Shapes, Typed
  <1>1. ASSUME NEW k \in Callers, Insert(k), call[k].command = c
        PROVE  /\ command'[c].status = "queued" /\ command'[c].endedAt = FALSE
               /\ command[c].status = "absent"
    BY <1>0, <1>1 DEF Insert, Tables!CreateCommand
  <1>2. ASSUME NEW st, Tables!FinishCommand(c, st)
        PROVE  IF Tables!IsTerminal(c) THEN command'[c] = command[c]
               ELSE command'[c].status = st /\ command'[c].endedAt = TRUE
    BY <1>0, <1>2 DEF Tables!FinishCommand, Tables!tables
  <1>3. ASSUME NEW st, Tables!UpdateCommand(c, st)
        PROVE  command'[c].status = st /\ command'[c].endedAt = command[c].endedAt
    BY <1>0, <1>3 DEF Tables!UpdateCommand
  <1>4. ASSUME NEW k \in Callers, Finish(k), call[k].command = c, command'[c] # command[c]
        PROVE  /\ ~Tables!IsTerminal(c)
               /\ command'[c].status = "canceled" /\ command'[c].endedAt = TRUE
    BY <1>4, <1>2 DEF Finish
  <1>5. ASSUME NEW w \in Commands, WorkerFinish(w), Own(w) = c, command'[c] # command[c]
        PROVE  /\ ~Tables!IsTerminal(c)
               /\ command'[c].status = worker[w].outcome /\ command'[c].endedAt = TRUE
    BY <1>5, <1>2 DEF WorkerFinish
  <1>6. ASSUME NEW w \in Commands, SetProgress(w), Own(w) = c, command'[c] # command[c]
        PROVE  /\ \/ /\ worker[w].pc = "starting" /\ worker'[w].pc = "started"
                     /\ command'[c].status = "starting"
                  \/ /\ worker[w].pc = "running" /\ worker'[w].pc = "launch"
                     /\ command'[c].status = "running"
               /\ command'[c].endedAt = command[c].endedAt /\ ~command[c].endedAt
    <2>1. PICK site \in {<<"starting", "started">>, <<"running", "launch">>} :
            /\ WorkerAt(w, site[1])
            /\ Tables!CanUpdateCommand(c, site[1])
            /\ Tables!UpdateCommand(c, site[1]) /\ WorkerGoto(w, site[2])
      BY <1>6 DEF SetProgress, tables
    <2>2. worker'[w].pc = site[2]
      <3>1. worker \in [Commands -> Workers] /\ worker[w] \in Workers
        BY DEF Shapes, WorkersShaped
      <3> QED
        BY <2>1, <3>1 DEF WorkerGoto, Workers
    <2>3. ~command[c].endedAt
      BY <1>0, <2>1 DEF Tables!CanUpdateCommand, Tables!Terminal
    <2> QED
      BY <1>3, <2>1, <2>2, <2>3 DEF WorkerAt
  <1> QED
    BY <1>1, <1>4, <1>5, <1>6, CommandMovedBy

LEMMA TerminalKept ==
  ASSUME Shapes, OthersFollow, [Next]_vars, NEW c \in Commands, Tables!IsTerminal(c)
  PROVE  command'[c] = command[c]
PROOF
  <1>1. command[c].endedAt
    BY DEF OthersFollow
  <1> QED
    BY <1>1, StatusMoves DEF Tables!IsTerminal, Tables!Terminal

\* A cancel Event is never cleared.
LEMMA CanceledGrows ==
  ASSUME [Next]_vars
  PROVE  /\ canceled \subseteq canceled'
         /\ \/ canceled' = canceled
            \/ \E k \in Callers : SetEvents(k) /\ canceled' = canceled \cup call[k].events
PROOF
  <1> USE DEF runtime
  <1>1. ASSUME NEW k \in Callers,
               \/ Insert(k) \/ Register(k) \/ ThreadStart(k) \/ Finish(k)
               \/ \E s \in Sessions : CloseBegin(k, s)
        PROVE  canceled' = canceled
    BY <1>1 DEF Insert, Register, ThreadStart, Finish, CloseBegin, CloseTaking
  <1>2. ASSUME NEW w \in Commands,
               PopNothing(w) \/ Pop(w) \/ SetProgress(w) \/ Launch(w) \/ WorkerFinish(w) \/ Forget(w)
        PROVE  canceled' = canceled
    BY <1>2 DEF PopNothing, Pop, SetProgress, Launch, WorkerFinish, Forget
  <1>3. UNCHANGED vars \/ (\E s \in Sessions : ShellEnds(s)) => canceled' = canceled
    BY DEF vars, ShellEnds, ShellExits, Finalize
  <1>4. ASSUME NEW k \in Callers, QuietCall(k), ~SetEvents(k) PROVE canceled' = canceled
    <2>1. CASE \/ \E s \in Sessions : CreateBegin(k, s)
               \/ \E s \in Sessions, c \in Commands : StartBegin(k, s, c)
               \/ \E c \in Commands : CancelBegin(k, c)
      BY <2>1 DEF CreateBegin, StartBegin, CancelBegin
    <2>2. CASE Spawn(k) \/ Adopt(k) \/ SetRunning(k) \/ CreateClose(k) \/ CreateCrash(k)
      BY <2>2 DEF Spawn, Adopt, SetRunning, CreateClose, CreateCrash
    <2>3. CASE CancelLock(k) \/ Kill(k) \/ Mark(k) \/ Drop(k) \/ Join(k) \/ Shut(k) \/ Stamp(k)
      BY <2>3 DEF CancelLock, Kill, Mark, Drop, Join, Shut, Stamp
    <2> QED
      BY <1>4, <2>1, <2>2, <2>3, Zenon DEF QuietCall
  <1>5. ASSUME NEW k \in Callers, SetEvents(k) PROVE canceled' = canceled \cup call[k].events
    BY <1>5 DEF SetEvents
  <1> QED
    BY <1>1, <1>2, <1>3, <1>4, <1>5, NextCases, QuietWorkerFrame, ExecFrame

\* What a worker knows, it still knows after a step of somebody else.
LEMMA KnowsKept ==
  ASSUME Shapes, Places, OthersFollow, [Next]_vars, NEW w \in Commands,
         worker'[w] = worker[w], NEW c \in Commands, Own(w) = c,
         Knows(c, worker[w].pc, worker[w].outcome)
  PROVE  Knows(c, worker[w].pc, worker[w].outcome)'
PROOF
  <1>0. worker'[w].command = c /\ c \in Commands /\ (worker'[w].pc = worker[w].pc)
        /\ worker'[w].outcome = worker[w].outcome
    BY DEF Own
  <1>1. OwnersApart /\ UnregisteredIsFree /\ StartsApart
    BY DEF Places
  <1>2. \/ command'[c] = command[c]
        \/ /\ command[c].status \in {"queued", "starting", "running"}
           /\ command'[c].status = "canceled"
    <2>1. ASSUME NEW k \in Callers, Insert(k), call[k].command = c PROVE FALSE
      BY <1>0, <1>1, <2>1 DEF Insert, StartsApart, UnregisteredIsFree, Unregistered, At
    <2>2. ASSUME NEW v \in Commands, SetProgress(v), Own(v) = c PROVE FALSE
      <3>1. v = w
        BY <1>0, <1>1, <2>2 DEF OwnersApart
      <3>2. worker'[v].pc \in {"started", "launch", "error"} /\ worker[v].pc \in {"starting", "running"}
        BY <2>2, BusyWorkerMoves DEF SetProgress, WorkerAt, Shapes
      <3> QED
        BY <3>1, <3>2
    <2>3. ASSUME NEW v \in Commands, WorkerFinish(v), Own(v) = c PROVE FALSE
      <3>1. v = w
        BY <1>0, <1>1, <2>3 DEF OwnersApart
      <3>2. worker'[v].pc = "forget" /\ worker[v].pc = "finish"
        BY <2>3, BusyWorkerMoves DEF WorkerFinish, WorkerAt, Shapes
      <3> QED
        BY <3>1, <3>2
    <2>4. command[c] \in Tables!CommandRows
      BY <1>0 DEF Shapes, Typed
    <2>5. command[c].status # "absent"
      BY <1>0, <1>1 DEF UnregisteredIsFree, Unregistered, Present
    <2>6. ~Tables!IsTerminal(c) => command[c].status \in {"queued", "starting", "running"}
      BY <2>4, <2>5 DEF Tables!IsTerminal, Tables!CommandRows, Tables!CommandStatuses, Tables!Progress
    <2> QED
      BY <1>0, <2>1, <2>2, <2>3, <2>6, StatusMoves
  <1>3. /\ exec[c] = "none" => exec'[c] = "none"
        /\ exec[c] \in Done => exec'[c] = exec[c]
    <2>1. ASSUME NEW v \in Commands, Launch(v), Own(v) = c PROVE FALSE
      <3>1. v = w
        BY <1>0, <1>1, <2>1 DEF OwnersApart
      <3>2. worker'[v].pc = "watch" /\ worker[v].pc = "launch"
        BY <2>1, BusyWorkerMoves DEF Launch, WorkerAt, Shapes
      <3> QED
        BY <3>1, <3>2
    <2>2. ExecSteps(c) => exec[c] \notin {"none"} \cup Done
      BY <1>0, ExecFrame
    <2> QED
      BY <1>0, <2>1, <2>2, ExecMovedBy
  <1>4. canceled \subseteq canceled'
    BY CanceledGrows
  <1>5. hosted' = hosted
    BY ProcessesKept
  <1>6. SessionOf(c)' = SessionOf(c)
    <2>1. RowOf(c, SessionOf(c))
      BY <1>0, <1>1 DEF UnregisteredIsFree, Unregistered, Present, RowOf
    <2> QED
      BY <2>1, RowsKept DEF RowOf, SessionOf
  <1> QED
    BY <1>0, <1>2, <1>3, <1>4, <1>5, <1>6
    DEF Knows, EndingPcs, NotLaunched, Undecided, Done, Tables!Terminal

\* Where a worker goes, whatever it goes to.
LEMMA WorkerGoes ==
  ASSUME WorkersShaped, NEW w \in Commands
  PROVE  /\ \A pc : WorkerGoto(w, pc) =>
              /\ worker'[w].pc = pc /\ worker'[w].outcome = worker[w].outcome
              /\ worker'[w].closes = worker[w].closes
         /\ \A pc, outcome, closes : Decide(w, pc, outcome, closes) =>
              /\ worker'[w].pc = pc /\ worker'[w].outcome = outcome
              /\ worker'[w].closes = closes
PROOF
  <1>1. worker \in [Commands -> Workers] /\ worker[w] \in Workers
    BY DEF WorkersShaped
  <1>2. ASSUME NEW pc, WorkerGoto(w, pc)
        PROVE  /\ worker'[w].pc = pc /\ worker'[w].outcome = worker[w].outcome
               /\ worker'[w].closes = worker[w].closes
    <2>1. worker'[w] = [worker[w] EXCEPT !.pc = pc]
      BY <1>1, <1>2 DEF WorkerGoto
    <2> QED
      BY <1>1, <2>1 DEF Workers
  <1>3. ASSUME NEW pc, NEW outcome, NEW closes, Decide(w, pc, outcome, closes)
        PROVE  /\ worker'[w].pc = pc /\ worker'[w].outcome = outcome
               /\ worker'[w].closes = closes
    <2> DEFINE new == [worker[w] EXCEPT !.pc = pc, !.outcome = outcome, !.closes = closes]
    <2>1. worker' = [worker EXCEPT ![w] = new]
      BY <1>3 DEF Decide
    <2>2. worker'[w] = new
      BY <1>1, <2>1
    <2> QED
      BY <1>1, <2>2 DEF Workers
  <1> QED
    BY <1>2, <1>3

\* Where the steps that leave its command c alone take a worker.
WorkerPath(w, c) ==
  LET p == worker[w].pc
      q == worker'[w].pc
      o == worker[w].outcome
      u == worker'[w].outcome
  IN  /\ CheckCanceled(w) =>
           \/ /\ p \in {"screen", "enter", "begun"} /\ q = "forget"
              /\ command[c].status \in Tables!Terminal /\ u = o
           \/ /\ p \in {"screen", "enter", "begun"} /\ q = "confirm" /\ u = "canceled"
              /\ ~worker'[w].closes
           \/ /\ \/ p = "screen" /\ q = "screen_live"
                 \/ p = "enter" /\ q = "starting"
                 \/ p = "begun" /\ q = "running"
              /\ u = o
      /\ CheckLive(w) =>
           /\ p = "screen_live"
           /\ \/ q = "enter" /\ u = o /\ worker[w].handle /\ IsRunning(Shell(w))
              \/ q = "confirm" /\ u = "canceled" /\ ~(worker[w].handle /\ IsRunning(Shell(w)))
      /\ Watch(w) =>
           /\ p = "watch" /\ u = o
           /\ \/ q = "ended" /\ exec[c] \in Done
              \/ q = "forget" /\ command[c].status \in Tables!Terminal
              \/ q = "watch_cancel"
      /\ WatchCancel(w) =>
           /\ p = "watch_cancel"
           /\ \/ q = "watch" /\ u = o
              \/ q = "kill" /\ u = "canceled" /\ c \in canceled
      /\ WatchDeadline(w) => p = "watch_cancel" /\ q = "kill" /\ u = "timed_out"
      /\ WorkerKill(w) => p = "kill" /\ q = "confirm" /\ u = o
      /\ Ended(w) =>
           /\ p = "ended"
           /\ \/ q = "forget" /\ u = o /\ command[c].status \in Tables!Terminal
              \/ q = "confirm" /\ u = "canceled" /\ c \in canceled
              \/ /\ \/ q = "finish"
                    \/ q = "output" /\ SessionOf(c) \in hosted
                 /\ \/ u = "completed" /\ exec[c] = "ok"
                    \/ u = "failed" /\ exec[c] = "bad"
                 /\ c \notin canceled /\ command[c].status \notin Tables!Terminal
              \/ /\ q = "stderr" /\ u = o /\ exec[c] = "error"
                 /\ c \notin canceled /\ command[c].status \notin Tables!Terminal
      /\ WorkerError(w) =>
           /\ p = "error" /\ u = o
           /\ \/ q = "forget" /\ command[c].status \in Tables!Terminal
              \/ q = "stderr" /\ command[c].status \notin Tables!Terminal
      /\ Confirm(w) =>
           /\ p = "confirm" /\ u = o
           /\ \/ q = "forget" /\ command[c].status \in Tables!Terminal
              \/ q = "mark" /\ worker[w].closes
              \/ q = "finish"
      /\ WorkerMark(w) => p = "mark" /\ q = "drop" /\ u = o
      /\ WorkerDrop(w) => p = "drop" /\ q = "finish" /\ u = o
      /\ AppendStarted(w) => p = "started" /\ q = "begun" /\ u = o
      /\ AppendOutput(w) => p = "output" /\ q = "finish" /\ u = o
      /\ AppendStderr(w) => p = "stderr" /\ q = "finish" /\ u = "failed"

LEMMA QuietWorkerSteps ==
  ASSUME Shapes, NEW w \in Commands, QuietWorker(w), NEW c \in Commands, Own(w) = c
  PROVE  WorkerPath(w, c)
PROOF
  <1> DEFINE p == worker[w].pc
             q == worker'[w].pc
             o == worker[w].outcome
             u == worker'[w].outcome
  <1>0. WorkersShaped
    BY DEF Shapes
  <1>1. /\ \A pc : WorkerGoto(w, pc) => q = pc /\ u = o
        /\ \A pc, outcome, closes :
             Decide(w, pc, outcome, closes) => q = pc /\ u = outcome /\ worker'[w].closes = closes
    BY <1>0, WorkerGoes
  <1>2. Shell(w) = SessionOf(c)
    BY QuietWorkerFrame DEF Shapes, References, RowOf
  <1> USE DEF WorkerAt, Own, Tables!IsTerminal
  <1>a. ASSUME CheckCanceled(w)
        PROVE  \/ /\ p \in {"screen", "enter", "begun"} /\ q = "forget"
                  /\ command[c].status \in Tables!Terminal /\ u = o
               \/ /\ p \in {"screen", "enter", "begun"} /\ q = "confirm" /\ u = "canceled"
                  /\ ~worker'[w].closes
               \/ /\ \/ p = "screen" /\ q = "screen_live"
                     \/ p = "enter" /\ q = "starting"
                     \/ p = "begun" /\ q = "running"
                  /\ u = o
    <2>1. PICK site \in {<<"screen", "screen_live">>, <<"enter", "starting">>, <<"begun", "running">>} :
            /\ p = site[1]
            /\ \/ /\ Tables!IsTerminal(c)
                  /\ WorkerGoto(w, "forget")
               \/ Decide(w, "confirm", "canceled", FALSE)
               \/ WorkerGoto(w, site[2])
      BY <1>a DEF CheckCanceled
    <2>2. \/ site[1] = "screen" /\ site[2] = "screen_live"
          \/ site[1] = "enter" /\ site[2] = "starting"
          \/ site[1] = "begun" /\ site[2] = "running"
      OBVIOUS
    <2>3. CASE Tables!IsTerminal(c) /\ WorkerGoto(w, "forget")
      BY <2>1, <2>2, <2>3, <1>1
    <2>4. CASE Decide(w, "confirm", "canceled", FALSE)
      BY <2>1, <2>2, <2>4, <1>1
    <2>5. CASE WorkerGoto(w, site[2])
      <3>1. q = site[2] /\ u = o
        BY <2>5, <1>1
      <3> QED
        BY <3>1, <2>1, <2>2
    <2> QED
      BY <2>1, <2>3, <2>4, <2>5
  <1>b. CheckLive(w) => /\ p = "screen_live"
                        /\ \/ q = "enter" /\ u = o /\ worker[w].handle /\ IsRunning(Shell(w))
                           \/ /\ q = "confirm" /\ u = "canceled"
                              /\ ~(worker[w].handle /\ IsRunning(Shell(w)))
    BY <1>1 DEF CheckLive
  <1>c. Watch(w) => /\ p = "watch" /\ u = o
                    /\ \/ q = "ended" /\ exec[c] \in Done
                       \/ q = "forget" /\ command[c].status \in Tables!Terminal
                       \/ q = "watch_cancel"
    BY <1>1 DEF Watch
  <1>d. WatchCancel(w) => /\ p = "watch_cancel"
                          /\ \/ q = "watch" /\ u = o
                             \/ q = "kill" /\ u = "canceled" /\ c \in canceled
    BY <1>1 DEF WatchCancel
  <1>e. WatchDeadline(w) => p = "watch_cancel" /\ q = "kill" /\ u = "timed_out"
    BY <1>1 DEF WatchDeadline
  <1>f. WorkerKill(w) => p = "kill" /\ q = "confirm" /\ u = o
    BY <1>1 DEF WorkerKill
  <1>g. ASSUME Ended(w)
        PROVE  /\ p = "ended"
               /\ \/ q = "forget" /\ u = o /\ command[c].status \in Tables!Terminal
                  \/ q = "confirm" /\ u = "canceled" /\ c \in canceled
                  \/ /\ \/ q = "finish"
                        \/ q = "output" /\ SessionOf(c) \in hosted
                     /\ \/ u = "completed" /\ exec[c] = "ok"
                        \/ u = "failed" /\ exec[c] = "bad"
                     /\ c \notin canceled /\ command[c].status \notin Tables!Terminal
                  \/ /\ q = "stderr" /\ u = o /\ exec[c] = "error"
                     /\ c \notin canceled /\ command[c].status \notin Tables!Terminal
    <2>1. \A pc \in AfterEnd(w) : \/ pc = "finish"
                                  \/ pc = "output" /\ SessionOf(c) \in hosted
      BY <1>2 DEF AfterEnd
    <2>2. p = "ended"
      BY <1>g DEF Ended
    <2>3. CASE command[c].status \in Tables!Terminal
      BY <1>1, <1>g, <2>2, <2>3 DEF Ended
    <2>4. CASE command[c].status \notin Tables!Terminal /\ c \in canceled
      BY <1>1, <1>g, <2>2, <2>4 DEF Ended, FoundCanceled
    <2>5. CASE command[c].status \notin Tables!Terminal /\ c \notin canceled
      <3>1. \/ exec[c] = "ok" /\ \E pc \in AfterEnd(w) : Decide(w, pc, "completed", FALSE)
            \/ exec[c] = "bad" /\ \E pc \in AfterEnd(w) : Decide(w, pc, "failed", FALSE)
            \/ exec[c] = "error" /\ WorkerGoto(w, "stderr")
        BY <1>g, <2>5 DEF Ended, FoundCanceled
      <3> HIDE DEF AfterEnd
      <3> QED
        BY <1>1, <2>1, <2>2, <2>5, <3>1
    <2> QED
      BY <2>3, <2>4, <2>5
  <1>h. WorkerError(w) => /\ p = "error" /\ u = o
                          /\ \/ q = "forget" /\ command[c].status \in Tables!Terminal
                             \/ q = "stderr" /\ command[c].status \notin Tables!Terminal
    BY <1>1 DEF WorkerError
  <1>i. Confirm(w) => /\ p = "confirm" /\ u = o
                      /\ \/ q = "forget" /\ command[c].status \in Tables!Terminal
                         \/ q = "mark" /\ worker[w].closes
                         \/ q = "finish"
    BY <1>1 DEF Confirm
  <1>j. /\ WorkerMark(w) => p = "mark" /\ q = "drop" /\ u = o
        /\ WorkerDrop(w) => p = "drop" /\ q = "finish" /\ u = o
    BY <1>1 DEF WorkerMark, WorkerDrop
  <1>k. /\ AppendStarted(w) => p = "started" /\ q = "begun" /\ u = o
        /\ AppendOutput(w) => p = "output" /\ q = "finish" /\ u = o
        /\ AppendStderr(w) => p = "stderr" /\ q = "finish" /\ u = "failed"
    BY <1>1 DEF AppendStarted, AppendOutput, AppendStderr
  <1> QED
    BY <1>a, <1>b, <1>c, <1>d, <1>e, <1>f, <1>g, <1>h, <1>i, <1>j, <1>k DEF WorkerPath

\* What a worker knows after a step of its own that leaves its command alone.
LEMMA KnowsAdvances ==
  ASSUME Shapes, NEW w \in Commands, QuietWorker(w), NEW c \in Commands, Own(w) = c,
         Knows(c, worker[w].pc, worker[w].outcome)
  PROVE  Knows(c, worker'[w].pc, worker'[w].outcome)
PROOF
  <1> DEFINE p == worker[w].pc
             o == worker[w].outcome
             q == worker'[w].pc
             u == worker'[w].outcome
             Goal == Knows(c, q, u)
  <1> SUFFICES Goal
    OBVIOUS
  <1>2. /\ command[c].status \in {"absent", "queued", "starting", "running"} \cup Tables!Terminal
        /\ exec[c] \in ExecStates
    BY DEF Shapes, Typed, Tables!CommandRows, Tables!CommandStatuses, Tables!Progress
  <1>3. p \in NeedsOutcome => o \in Tables!Terminal
    BY DEF Shapes, WorkersShaped
  <1>4. Knows(c, p, o)
    OBVIOUS
  <1>5. WorkerPath(w, c)
    BY QuietWorkerSteps
  <1> HIDE DEF Goal
  <1> USE <1>2, <1>3, <1>4, <1>5
      DEF Goal, WorkerPath, Knows, EndingPcs, NotLaunched, Undecided, NeedsOutcome,
          Tables!Terminal, ExecStates, Done
  <1>a. CheckCanceled(w) \/ CheckLive(w) => Goal
    OBVIOUS
  <1>b. Watch(w) \/ WatchCancel(w) \/ WatchDeadline(w) \/ WorkerKill(w) => Goal
    OBVIOUS
  <1>c. Ended(w) => Goal
    OBVIOUS
  <1>d. WorkerError(w) \/ Confirm(w) \/ WorkerMark(w) \/ WorkerDrop(w) => Goal
    OBVIOUS
  <1>e. AppendStarted(w) \/ AppendOutput(w) \/ AppendStderr(w) => Goal
    OBVIOUS
  <1> HIDE DEF Goal, WorkerPath, Knows
  <1> QED
    BY <1>a, <1>b, <1>c, <1>d, <1>e, Zenon DEF QuietWorker

LEMMA OwnersKnowKept ==
  ASSUME Shapes, Places, OwnersKnow, OthersFollow, [Next]_vars
  PROVE  OwnersKnow'
PROOF
  <1> SUFFICES ASSUME NEW w \in Commands, NEW c \in Commands, worker'[w].command = c
               PROVE  Knows(c, worker[w].pc, worker[w].outcome)'
    BY DEF OwnersKnow, Own
  <1>0. /\ WorkersShaped /\ CallsShaped /\ References /\ StartsApart /\ UnregisteredIsFree
        /\ QueuedIsFree /\ UnstartedIsCalled
    BY DEF Shapes, Places
  <1>1. Own(w) = c => Knows(c, worker[w].pc, worker[w].outcome)
    BY DEF OwnersKnow
  <1>2. CASE worker'[w] = worker[w]
    BY <1>1, <1>2, KnowsKept DEF Own
  <1>3. CASE QuietWorker(w)
    <2>1. Own(w) = c
      BY <1>0, <1>3, QuietWorkerMoves DEF Own
    <2>2. Knows(c, worker'[w].pc, worker'[w].outcome)
      BY <1>1, <1>3, <2>1, KnowsAdvances
    <2>3. UNCHANGED <<command, exec, canceled, hosted>>
      BY <1>3, QuietWorkerFrame
    <2> QED
      BY <2>2, <2>3 DEF Knows, SessionOf
  <1>4. CASE PopNothing(w) \/ Forget(w)
    BY <1>0, <1>4, BusyWorkerMoves, ForgetMoves, NamesAssumption
  <1>5. CASE Pop(w)
    <2>1. /\ Shell(w) \in Sessions /\ Head(queue[Shell(w)]) \in Commands
          /\ Queued(Head(queue[Shell(w)]), Shell(w))
          /\ live \in [Sessions -> BOOLEAN]
      BY <1>5, PopAtQueue DEF Shapes, Typed, Queued
    <2>2. worker[w].pc = "pop" /\ Own(w) = NoCommand
      BY <1>0, <1>5 DEF Pop, WorkerAt, WorkersShaped, Resting
    <2>3. worker'[w].pc = "screen" /\ c = Head(queue[Shell(w)])
      BY <1>0, <1>5, <2>1, <2>2, PopMoves, NamesAssumption DEF Own
    <2>4. command[c].status \in {"queued", "canceled"} /\ exec[c] = "none"
      BY <1>0, <2>1, <2>3 DEF OthersFollow, QueuedIsFree, Queued
    <2>5. command' = command /\ exec' = exec
      BY <1>5 DEF Pop, tables
    <2> QED
      BY <2>3, <2>4, <2>5 DEF Knows, EndingPcs, NotLaunched, Undecided
  <1>6. CASE SetProgress(w)
    <2>1. Own(w) = c
      BY <1>0, <1>6, BusyWorkerMoves DEF Own
    <2>2. PICK site \in {<<"starting", "started">>, <<"running", "launch">>} :
            /\ worker[w].pc = site[1]
            /\ IF Tables!CanUpdateCommand(c, site[1])
               THEN Tables!UpdateCommand(c, site[1]) /\ WorkerGoto(w, site[2])
               ELSE UNCHANGED tables /\ WorkerGoto(w, "error")
      BY <1>6, <2>1 DEF SetProgress, WorkerAt
    <2>3. exec' = exec
      BY <1>6 DEF SetProgress
    <2>4. \/ site[1] = "starting" /\ site[2] = "started"
          \/ site[1] = "running" /\ site[2] = "launch"
      OBVIOUS
    <2>5. Knows(c, site[1], worker[w].outcome)
      BY <1>1, <2>1, <2>2
    <2>6. exec[c] = "none" /\ (command[c].status \in Tables!Terminal => command[c].status = "canceled")
      BY <2>4, <2>5 DEF Knows, NotLaunched, Tables!Terminal
    <2>7. CASE Tables!CanUpdateCommand(c, site[1])
      <3>1. command'[c].status = site[1] /\ worker'[w].pc = site[2]
        BY <1>0, <2>2, <2>7, WorkerGoes DEF Tables!UpdateCommand, Shapes, Typed
      <3> QED
        BY <2>3, <2>4, <2>6, <3>1 DEF Knows, EndingPcs, NotLaunched, Undecided
    <2>8. CASE ~Tables!CanUpdateCommand(c, site[1])
      <3>1. command' = command /\ worker'[w].pc = "error"
        BY <1>0, <2>2, <2>8, WorkerGoes DEF tables
      <3>2. command[c].status \in Tables!Terminal
        BY <2>8 DEF Tables!CanUpdateCommand, OthersFollow, Tables!IsTerminal
      <3> QED
        BY <2>3, <2>6, <3>1, <3>2 DEF Knows, EndingPcs, NotLaunched, Undecided, Tables!Terminal
    <2> QED
      BY <2>7, <2>8
  <1>7. CASE Launch(w)
    <2>1. Own(w) = c /\ worker'[w].pc = "watch" /\ worker[w].pc = "launch" /\ command' = command
      BY <1>0, <1>7, BusyWorkerMoves DEF Own, Launch, WorkerAt, tables
    <2>2. command[c].status \in {"running", "canceled"}
      BY <1>1, <2>1 DEF Knows, Undecided
    <2> QED
      BY <2>1, <2>2 DEF Knows, EndingPcs, NotLaunched, Undecided
  <1>8. CASE WorkerFinish(w)
    <2>1. Own(w) = c /\ worker'[w].pc = "forget" /\ worker[w].pc = "finish"
      BY <1>0, <1>8, BusyWorkerMoves DEF Own, WorkerFinish, WorkerAt
    <2>2. worker[w].outcome \in Tables!Terminal
      BY <1>0, <2>1 DEF WorkersShaped, NeedsOutcome, EndingPcs
    <2>3. command'[c].status \in Tables!Terminal
      BY <1>8, <2>1, <2>2
      DEF WorkerFinish, Tables!FinishCommand, Tables!tables, Tables!IsTerminal, Shapes, Typed
    <2> QED
      BY <2>1, <2>3 DEF Knows, EndingPcs, NotLaunched, Undecided
  <1>9. CASE \E k \in Callers : (Register(k) \/ ThreadStart(k)) /\ call[k].command = w
    <2>1. PICK k \in Callers : (Register(k) \/ ThreadStart(k)) /\ call[k].command = w
      BY <1>9
    <2>2. Register(k) => worker[w].pc = "none"
      BY <1>0, <2>1 DEF Register, UnregisteredIsFree, Unregistered
    <2>3. ThreadStart(k) => worker[w].pc = "unstarted"
      BY <1>0, <2>1 DEF ThreadStart, StartsApart
    <2>4. worker[w].pc = "none" \/ worker[w].pc = "unstarted" => Own(w) = NoCommand
      BY <1>0 DEF WorkersShaped, Resting
    <2> QED
      BY <1>0, <1>2, <2>1, <2>2, <2>3, <2>4, StartMoves, NamesAssumption
  <1> QED
    BY <1>2, <1>3, <1>4, <1>5, <1>6, <1>7, <1>8, <1>9, WorkerMovedBy

\* A worker gives up its command by forgetting it.
LEMMA OwnersStay ==
  ASSUME Shapes, StartsApart, UnregisteredIsFree, [Next]_vars, NEW w \in Commands, Own(w) \in Commands
  PROVE  worker'[w].command = Own(w) \/ Forget(w)
PROOF
  <1>0. WorkersShaped /\ Own(w) # NoCommand
    BY NamesAssumption DEF Shapes
  <1>1. worker[w].pc \notin Resting
    BY <1>0 DEF WorkersShaped
  <1>2. ~PopNothing(w) /\ ~Pop(w)
    BY <1>1 DEF PopNothing, Pop, WorkerAt, Resting
  <1>3. ASSUME NEW k \in Callers, Register(k) \/ ThreadStart(k), call[k].command = w PROVE FALSE
    BY <1>1, <1>3
    DEF Register, ThreadStart, StartsApart, UnregisteredIsFree, Unregistered, Resting
  <1> QED
    BY <1>0, <1>2, <1>3, WorkerMovedBy, QuietWorkerMoves, BusyWorkerMoves DEF Own

\* A start call that has inserted its command stays until it queues it.
LEMMA RegistersStay ==
  ASSUME Shapes, [Next]_vars, NEW k \in Callers, At(k, "register")
  PROVE  Register(k) \/ call'[k] = call[k]
PROOF
  <1>1. ~QuietCall(k)
    BY QuietCallMoves DEF At, StartPcs
  <1>2. ~Insert(k) /\ ~ThreadStart(k) /\ ~Finish(k)
    BY DEF At, Insert, ThreadStart, Finish
  <1>3. \A s \in Sessions : ~CloseBegin(k, s)
    BY CloseMoves DEF At
  <1> QED
    BY <1>1, <1>2, <1>3, CallMovedBy

\* What comes to a queue is registered there.
LEMMA QueuedBefore ==
  ASSUME Shapes, [Next]_vars, NEW s \in Sessions, NEW c \in Commands, Queued(c, s)'
  PROVE  Queued(c, s) \/ \E k \in Callers : Register(k) /\ call[k].command = c
PROOF
  <1>0. queue[s] \in Seq(Commands)
    BY DEF Shapes, Typed
  <1>1. PICK i \in DOMAIN queue'[s] : queue'[s][i] = c
    BY DEF Queued
  <1>2. CASE queue'[s] = queue[s] \/ queue'[s] = <<>>
    BY <1>1, <1>2 DEF Queued
  <1>3. CASE \E w \in Commands : Pop(w) /\ Shell(w) = s /\ queue'[s] = Tail(queue[s])
    <2>1. queue[s] # <<>> /\ queue'[s] = Tail(queue[s])
      BY <1>3 DEF Pop
    <2>2. i + 1 \in DOMAIN queue[s] /\ queue[s][i + 1] = c
      BY <1>0, <1>1, <2>1
    <2> QED
      BY <2>2 DEF Queued
  <1>4. CASE \E k \in Callers : /\ Register(k) /\ call[k].session = s
                                /\ call[k].command \in Commands
                                /\ queue'[s] = Append(queue[s], call[k].command)
    <2>1. PICK k \in Callers : Register(k) /\ queue'[s] = Append(queue[s], call[k].command)
      BY <1>4
    <2>2. \/ i \in DOMAIN queue[s] /\ queue[s][i] = c
          \/ call[k].command = c
      BY <1>0, <1>1, <2>1
    <2> QED
      BY <2>1, <2>2 DEF Queued
  <1> QED
    BY <1>2, <1>3, <1>4, QueuesChange

LEMMA OthersFollowKept ==
  ASSUME Shapes, Places, OwnersKnow, OthersFollow, [Next]_vars
  PROVE  OthersFollow'
PROOF
  <1> SUFFICES ASSUME NEW c \in Commands
               PROVE  /\ command'[c].endedAt <=> command'[c].status \in Tables!Terminal
                      /\ Unregistered(c)' => command'[c].status \in {"absent", "queued", "canceled"}
                      /\ \A s \in Sessions :
                           Queued(c, s)' => command'[c].status \in {"queued", "canceled"}
                      /\ command'[c].status \in {"completed", "failed"} => exec'[c] \in Done
                      /\ command'[c].status = "failed" => exec'[c] # "ok"
    BY DEF OthersFollow, Tables!IsTerminal
  <1>0. /\ WorkersShaped /\ References /\ StartsApart /\ UnregisteredIsFree /\ QueuedIsFree
    BY DEF Shapes, Places
  <1>f. ASSUME NEW w \in Commands, WorkerFinish(w) \/ SetProgress(w) \/ Launch(w), Own(w) = c
        PROVE  /\ WorkerFinish(w) =>
                    /\ worker[w].outcome \in Tables!Terminal
                    /\ worker[w].outcome = "completed" => exec[c] = "ok"
                    /\ worker[w].outcome = "failed" => exec[c] \in {"bad", "error"}
                    /\ exec' = exec
               /\ Launch(w) => exec[c] = "none"
    <2>1. Knows(c, worker[w].pc, worker[w].outcome)
      BY <1>f DEF OwnersKnow
    <2>2. WorkerFinish(w) => worker[w].outcome \in Tables!Terminal
      BY <1>0 DEF WorkerFinish, WorkerAt, WorkersShaped, NeedsOutcome, EndingPcs
    <2> QED
      BY <2>1, <2>2 DEF WorkerFinish, Launch, WorkerAt, Knows, NotLaunched
  <1>1. command'[c].endedAt <=> command'[c].status \in Tables!Terminal
    <2>1. command[c].endedAt <=> command[c].status \in Tables!Terminal
      BY DEF OthersFollow, Tables!IsTerminal
    <2> QED
      BY <1>f, <2>1, StatusMoves DEF Tables!Terminal
  \* Without a worker a command is inserted or canceled.
  <1>a. ASSUME \A w \in Commands : Own(w) # c
        PROVE  \/ command'[c] = command[c]
               \/ command'[c].status \in {"queued", "canceled"}
    BY <1>a, StatusMoves
  <1>2. ASSUME Unregistered(c)'
        PROVE  command'[c].status \in {"absent", "queued", "canceled"}
    <2>1. Unregistered(c)
      BY <1>0, <1>2, UnregisteredBefore
    <2> QED
      BY <1>0, <1>a, <2>1 DEF OthersFollow, UnregisteredIsFree
  <1>3. ASSUME NEW s \in Sessions, Queued(c, s)'
        PROVE  command'[c].status \in {"queued", "canceled"}
    <2>1. Queued(c, s) \/ \E k \in Callers : Register(k) /\ call[k].command = c
      BY <1>3, QueuedBefore
    <2>2. CASE Queued(c, s)
      <3>1. command[c].status \in {"queued", "canceled"}
        BY <2>2 DEF OthersFollow
      <3>2. \A w \in Commands : Own(w) # c
        BY <1>0, <2>2 DEF QueuedIsFree, Queued
      <3> QED
        BY <1>a, <3>1, <3>2
    <2>3. ASSUME NEW k \in Callers, Register(k), call[k].command = c
          PROVE  command'[c].status \in {"queued", "canceled"}
      <3>1. Unregistered(c) /\ Present(c)
        BY <1>0, <2>3 DEF Register, At, Unregistered, Present, References, RowOf
      <3>2. command[c].status \in {"queued", "canceled"}
        BY <3>1 DEF OthersFollow, Present
      <3> QED
        BY <1>0, <1>a, <3>1, <3>2 DEF UnregisteredIsFree
    <2> QED
      BY <2>1, <2>2, <2>3
  <1>4. /\ command'[c].status \in {"completed", "failed"} => exec'[c] \in Done
        /\ command'[c].status = "failed" => exec'[c] # "ok"
    <2>1. /\ command[c].status \in {"completed", "failed"} => exec[c] \in Done
          /\ command[c].status = "failed" => exec[c] # "ok"
      BY DEF OthersFollow
    <2>2. exec[c] \in Done => exec'[c] = exec[c]
      BY <1>f, ExecMovedBy, ExecFrame DEF Done
    <2> QED
      BY <1>f, <2>1, <2>2, StatusMoves DEF Done
  <1> QED
    BY <1>1, <1>2, <1>3, <1>4

\* An active command that is not being inserted was active before.
LEMMA ActiveBefore ==
  ASSUME Shapes, UnregisteredIsFree, OthersFollow, [Next]_vars, NEW c \in Commands,
         Tables!IsActive(c)', ~\E k \in Callers : Insert(k) /\ call[k].command = c
  PROVE  Tables!IsActive(c)
PROOF
  <1>1. command[c] \in Tables!CommandRows
    BY DEF Shapes, Typed
  <1>2. ~Tables!IsTerminal(c)
    BY TerminalKept DEF Tables!IsActive, Tables!IsTerminal, Tables!Terminal, Tables!Progress
  <1>3. command[c].status # "absent"
    <2>1. command[c].status = "absent" => ~\E w \in Commands : Own(w) = c
      BY DEF UnregisteredIsFree, Unregistered, Present
    <2>2. command[c].status = "absent" => ~\E k \in Callers : Finish(k) /\ call[k].command = c
      BY FinishMoves DEF Shapes, References, RowOf
    <2> QED
      BY <2>1, <2>2, StatusMoves DEF Tables!IsActive, Tables!Progress
  <1> QED
    BY <1>1, <1>2, <1>3 DEF Tables!IsActive, Tables!IsTerminal, Tables!CommandRows,
       Tables!CommandStatuses

LEMMA ActiveHasEventKept ==
  ASSUME Shapes, Places, OwnersKnow, OthersFollow, ActiveHasEvent, [Next]_vars
  PROVE  ActiveHasEvent'
PROOF
  <1> SUFFICES ASSUME NEW c \in Commands, Tables!IsActive(c)'
               PROVE  Unregistered(c)' \/ c \in cancels'
    BY DEF ActiveHasEvent
  <1>0. StartsApart /\ UnregisteredIsFree
    BY DEF Places
  <1>1. CASE \E k \in Callers : Insert(k) /\ call[k].command = c
    BY <1>1, StartCallMoves DEF Unregistered, At
  <1>2. CASE ~\E k \in Callers : Insert(k) /\ call[k].command = c
    <2>1. Tables!IsActive(c)
      BY <1>0, <1>2, ActiveBefore
    <2>2. CASE Unregistered(c)
      <3>1. PICK k \in Callers : At(k, "register") /\ call[k].command = c
        BY <2>1, <2>2 DEF Unregistered, Present, Tables!IsActive, Tables!Progress
      <3>2. CASE Register(k)
        BY <3>1, <3>2 DEF Register
      <3>3. CASE call'[k] = call[k]
        BY <3>1, <3>3 DEF Unregistered, At
      <3> QED
        BY <3>1, <3>2, <3>3, RegistersStay
    <2>3. CASE c \in cancels
      <3>1. ASSUME NEW w \in Commands, Forget(w), Own(w) = c PROVE FALSE
        <4>1. command[c].status \in Tables!Terminal
          BY <3>1 DEF Forget, WorkerAt, OwnersKnow, Knows
        <4> QED
          BY <2>1, <4>1 DEF Tables!IsActive, Tables!Progress, Tables!Terminal
      <3> QED
        BY <2>3, <3>1, CancelsMovedBy
    <2> QED
      BY <2>1, <2>2, <2>3 DEF ActiveHasEvent
  <1> QED
    BY <1>1, <1>2

\* The queue of s has a worker w.
ServedBy(w, s) == Shell(w) = s /\ (IsAlive(w) \/ Unstarted(w))

\* A worker that runs or is about to be started is so after every step, unless
\* it dies at an empty queue.
LEMMA ServersStay ==
  ASSUME Shapes, Places, Places', [Next]_vars, NEW w \in Commands, NEW s, ServedBy(w, s),
         ~PopNothing(w)
  PROVE  ServedBy(w, s)'
PROOF
  <1>0. WorkersShaped /\ References /\ StartsApart /\ UnregisteredIsFree
    BY DEF Shapes, Places
  <1>1. worker[w].pc \notin {"none", "dead"} /\ Shell(w) = s
    BY DEF ServedBy, IsAlive, Unstarted
  <1>2. Shell(w)' = s
    BY <1>0, <1>1, RowsKept DEF References, RowOf, Shell, SessionOf
  <1>3. worker'[w].pc \notin {"none", "dead"}
    <2>1. ASSUME NEW k \in Callers, Register(k) \/ ThreadStart(k), call[k].command = w
          PROVE  worker'[w].pc = "pop"
      <3>1. ~Register(k)
        BY <1>0, <1>1, <2>1 DEF Register, UnregisteredIsFree, Unregistered
      <3> QED
        BY <1>0, <2>1, <3>1, StartMoves DEF Shapes
    <2>2. CASE Pop(w)
      <3>1. /\ Shell(w) \in Sessions /\ Head(queue[Shell(w)]) \in Commands
            /\ live \in [Sessions -> BOOLEAN]
        BY <2>2, PopAtQueue DEF Shapes, Typed
      <3> QED
        BY <1>0, <1>1, <2>2, <3>1, PopMoves
    <2>3. CASE QuietWorker(w)
      BY <1>0, <2>3, QuietWorkerMoves DEF Resting
    <2>4. CASE SetProgress(w) \/ Launch(w) \/ WorkerFinish(w) \/ Forget(w)
      BY <1>0, <2>4, BusyWorkerMoves, ForgetMoves
    <2> QED
      BY <1>1, <2>1, <2>2, <2>3, <2>4, WorkerMovedBy
  <1>4. worker'[w].pc = "unstarted" => Unstarted(w)'
    BY DEF Places, UnstartedIsCalled
  <1>5. w # NoThread
    BY NamesAssumption
  <1> QED
    BY <1>2, <1>3, <1>4, <1>5 DEF ServedBy, IsAlive

LEMMA QueueIsServedKept ==
  ASSUME Shapes, Places, Places', QueueIsServed, [Next]_vars
  PROVE  QueueIsServed'
PROOF
  <1> SUFFICES ASSUME NEW s \in Sessions, queue'[s] # <<>>
               PROVE  \E w \in Commands : ServedBy(w, s)'
    BY DEF QueueIsServed, ServedBy
  <1>0. WorkersShaped /\ CallsShaped /\ References /\ StartsApart /\ UnregisteredIsFree
    BY DEF Shapes, Places
  <1>1. CASE queue'[s] = queue[s]
    <2>1. PICK w \in Commands : ServedBy(w, s)
      BY <1>1 DEF QueueIsServed, ServedBy
    <2>2. ~PopNothing(w)
      BY <1>1, <2>1 DEF PopNothing, ServedBy
    <2> QED
      BY <2>1, <2>2, ServersStay
  <1>2. CASE \E w \in Commands : Pop(w) /\ Shell(w) = s
    <2>1. PICK w \in Commands : Pop(w) /\ Shell(w) = s
      BY <1>2
    <2>2. ServedBy(w, s) /\ ~PopNothing(w)
      BY <2>1, NamesAssumption DEF ServedBy, IsAlive, Pop, PopNothing, WorkerAt
    <2> QED
      BY <2>2, ServersStay
  <1>3. CASE \E k \in Callers : Register(k) /\ call[k].session = s
    <2>1. PICK k \in Callers : Register(k) /\ call[k].session = s
      BY <1>3
    <2>2. CASE ShouldStart(s)
      <3>1. PICK c \in Commands : c = call[k].command /\ worker'[c].pc = "unstarted"
        BY <1>0, <2>1, <2>2, StartMoves
      <3>2. Unstarted(c)'
        BY <3>1 DEF Places, UnstartedIsCalled
      <3>3. RowOf(c, s)
        BY <1>0, <2>1, <3>1 DEF Register, At, References
      <3>4. Shell(c)' = s
        BY <3>3, RowsKept DEF RowOf, Shell, SessionOf
      <3> QED
        BY <3>1, <3>2, <3>4 DEF ServedBy
    <2>3. CASE ~ShouldStart(s)
      <3>1. IsAlive(registered[s]) /\ registered[s] # NoThread
        BY <2>3 DEF ShouldStart, IsAlive
      <3>2. PICK t \in Commands : t = registered[s] /\ Shell(t) = s
        BY <1>0, <3>1 DEF References, RowOf, Shell, SessionOf
      <3>3. ~PopNothing(t)
        <4>1. call' # call
          BY <1>0, <2>1, <2>3, StartCallMoves DEF Register, At
        <4> QED
          BY <4>1 DEF PopNothing
      <3> QED
        BY <3>1, <3>2, <3>3, ServersStay DEF ServedBy
    <2> QED
      BY <2>2, <2>3
  <1> QED
    BY <1>1, <1>2, <1>3, QueuesChange

LEMMA FinishEnds ==
  ASSUME Shapes, NEW k \in Callers, Finish(k)
  PROVE  command'[call[k].command].status \in Tables!Terminal
PROOF
  <1>1. call[k].command \in Commands
    BY FinishMoves
  <1> QED
    BY <1>1 DEF Finish, Tables!FinishCommand, Tables!tables, Tables!IsTerminal, Tables!Terminal,
       Shapes, Typed

\* A close keeps the commands it found until it has finished each of them.
LEMMA ClosersStay ==
  ASSUME Shapes, [Next]_vars, NEW k \in Callers, call[k].op = "close", NEW c \in call[k].todo
  PROVE  \/ call'[k].op = "close" /\ c \in call'[k].todo
         \/ Finish(k) /\ call[k].command = c
PROOF
  <1>0. call[k].pc \in EndPcs
    BY DEF Shapes, CallsShaped
  <1>1. ~\E d \in Commands : CancelBegin(k, d)
    BY <1>0 DEF CancelBegin, Begins, At, EndPcs
  <1>2. ~\E s \in Sessions : CloseBegin(k, s)
    BY <1>0, CloseMoves DEF EndPcs
  <1>3. CASE QuietCall(k)
    BY <1>1, <1>3, QuietCallMoves
  <1>4. CASE Insert(k) \/ Register(k) \/ ThreadStart(k)
    BY <1>4, StartCallMoves
  <1>5. CASE Finish(k)
    BY <1>5, FinishMoves
  <1> QED
    BY <1>2, <1>3, <1>4, <1>5, CallMovedBy

LEMMA NoCommandStrandedKept ==
  ASSUME Shapes, Places, Places', OwnersKnow, OwnersKnow', OthersFollow, ActiveHasEvent,
         QueueIsServed', NoCommandStranded, [Next]_vars
  PROVE  NoCommandStranded'
PROOF
  <1> DEFINE ToQueue(c) == \E k \in Callers : At(k, "register") /\ call[k].command = c
             Owned(c) == \E w \in Commands : Own(w) = c /\ worker[w].pc # "forget"
             Closing(c) == \E k \in Callers : call[k].op = "close" /\ c \in call[k].todo
  <1> SUFFICES ASSUME NEW c \in Commands, Tables!IsActive(c)'
               PROVE  \/ ToQueue(c)' \/ Owned(c)' \/ Closing(c)'
                      \/ \E s \in Sessions : s = SessionOf(c)' /\ Queued(c, s)'
    <2>1. ASSUME NEW c \in Commands, NEW s \in Sessions, s = SessionOf(c)', Queued(c, s)'
          PROVE  /\ \E i \in DOMAIN queue[SessionOf(c)]' : queue[SessionOf(c)][i]' = c
                 /\ \E w \in Commands : (Shell(w) = SessionOf(c) /\ (IsAlive(w) \/ Unstarted(w)))'
      <3>1. \E i \in DOMAIN queue'[s] : queue'[s][i] = c
        BY <2>1 DEF Queued
      <3>2. queue'[s] # <<>>
        BY <3>1
      <3>3. \E w \in Commands : (Shell(w) = s /\ (IsAlive(w) \/ Unstarted(w)))'
        BY <3>2 DEF QueueIsServed
      <3> QED
        BY <2>1, <3>1, <3>3
    <2> QED
      BY <2>1 DEF NoCommandStranded
  <1>0. /\ WorkersShaped /\ CallsShaped /\ References /\ StartsApart /\ UnregisteredIsFree
        /\ QueuedIsFree
    BY DEF Shapes, Places
  <1>1. CASE \E k \in Callers : Insert(k) /\ call[k].command = c
    BY <1>1, StartCallMoves DEF At
  <1>2. CASE ~\E k \in Callers : Insert(k) /\ call[k].command = c
    <2>1. Tables!IsActive(c)
      BY <1>0, <1>2, ActiveBefore
    <2>2. RowOf(c, SessionOf(c)) /\ SessionOf(c) \in Sessions
      BY <1>0, <2>1 DEF Tables!IsActive, Tables!Progress, RowOf, References
    <2>3. SessionOf(c)' = SessionOf(c)
      BY <2>2, RowsKept DEF RowOf, SessionOf
    <2>4. CASE ToQueue(c)
      <3>1. PICK k \in Callers : At(k, "register") /\ call[k].command = c
        BY <2>4
      <3>2. CASE call'[k] = call[k]
        BY <3>1, <3>2 DEF At
      <3>3. CASE Register(k)
        <4>1. call[k].session = SessionOf(c)
          BY <1>0, <3>1 DEF At, References, RowOf, SessionOf
        <4>2. queue' = [queue EXCEPT ![SessionOf(c)] = Append(@, c)]
          BY <3>1, <3>3, <4>1 DEF Register
        <4> HIDE DEF SessionOf
        <4>3. queue'[SessionOf(c)] = Append(queue[SessionOf(c)], c)
              /\ queue[SessionOf(c)] \in Seq(Commands)
          BY <2>2, <4>2 DEF Shapes, Typed
        <4>4. Queued(c, SessionOf(c))'
          <5>1. Len(queue[SessionOf(c)]) + 1 \in DOMAIN queue'[SessionOf(c)]
                /\ queue'[SessionOf(c)][Len(queue[SessionOf(c)]) + 1] = c
            BY <4>3
          <5> QED
            BY <2>3, <5>1 DEF Queued
        <4> QED
          BY <2>2, <2>3, <4>4
      <3> QED
        BY <3>1, <3>2, <3>3, RegistersStay
    <2>5. CASE Queued(c, SessionOf(c))
      <3>1. PICK s \in Sessions : s = SessionOf(c)
        BY <2>2
      <3>2. queue[s] \in Seq(Commands)
        BY DEF Shapes, Typed
      <3>3. PICK i \in DOMAIN queue[s] : queue[s][i] = c
        BY <2>5, <3>1 DEF Queued
      <3>4. c \in cancels
        <4>1. ~Unregistered(c)
          BY <1>0, <2>5, <3>1 DEF UnregisteredIsFree
        <4> QED
          BY <2>1, <4>1 DEF ActiveHasEvent
      <3>5. CASE queue'[s] = queue[s]
        BY <2>3, <3>1, <3>3, <3>5 DEF Queued
      <3>6. CASE \E k \in Callers : CloseBegin(k, s)
        <4>1. PICK k \in Callers : CloseBegin(k, s)
          BY <3>6
        <4>2. c \in Tables!ActiveCommands(s)
          BY <2>1, <3>1 DEF Tables!ActiveCommands, SessionOf
        <4> QED
          BY <4>1, <4>2, CloseMoves
      <3>7. CASE \E w \in Commands : Pop(w) /\ Shell(w) = s /\ queue'[s] = Tail(queue[s])
        <4>1. PICK w \in Commands : Pop(w) /\ Shell(w) = s /\ queue'[s] = Tail(queue[s])
          BY <3>7
        <4>2. CASE Head(queue[s]) = c
          <5>1. live \in [Sessions -> BOOLEAN]
            BY DEF Shapes, Typed
          <5>2. worker'[w].pc = "screen" /\ worker'[w].command = c
            BY <1>0, <3>4, <4>1, <4>2, <5>1, PopMoves
          <5> QED
            BY <5>2 DEF Own
        <4>3. CASE Head(queue[s]) # c
          <5>1. i # 1 /\ queue[s] # <<>>
            BY <3>2, <3>3, <4>3
          <5>2. i - 1 \in DOMAIN queue'[s] /\ queue'[s][i - 1] = c
            BY <3>2, <3>3, <4>1, <5>1
          <5> QED
            BY <2>3, <3>1, <5>2 DEF Queued
        <4> QED
          BY <4>2, <4>3
      <3>8. CASE \E k \in Callers : Register(k) /\ call[k].session = s
                                    /\ call[k].command \in Commands
                                    /\ queue'[s] = Append(queue[s], call[k].command)
        <4>1. i \in DOMAIN queue'[s] /\ queue'[s][i] = c
          BY <3>2, <3>3, <3>8
        <4> QED
          BY <2>3, <3>1, <4>1 DEF Queued
      <3> QED
        BY <3>5, <3>6, <3>7, <3>8, QueuesChange
    <2>6. CASE Owned(c)
      <3>1. PICK w \in Commands : Own(w) = c /\ worker[w].pc # "forget"
        BY <2>6
      <3>2. worker'[w].command = c
        BY <1>0, <3>1, OwnersStay DEF Forget, WorkerAt
      <3>3. worker'[w].pc # "forget"
        BY <3>2 DEF OwnersKnow, Own, Knows, Tables!IsActive, Tables!Progress, Tables!Terminal
      <3> QED
        BY <3>2, <3>3 DEF Own
    <2>7. CASE Closing(c)
      <3>1. PICK k \in Callers : call[k].op = "close" /\ c \in call[k].todo
        BY <2>7
      <3>2. ~(Finish(k) /\ call[k].command = c)
        BY <1>0, FinishEnds DEF Tables!IsActive, Tables!Progress, Tables!Terminal
      <3> QED
        BY <3>1, <3>2, ClosersStay
    <2> QED
      BY <2>1, <2>2, <2>4, <2>5, <2>6, <2>7 DEF NoCommandStranded, Queued
  <1> QED
    BY <1>1, <1>2

LEMMA ExecutionIsWatchedKept ==
  ASSUME Shapes, Places, WorkersShaped', OwnersKnow, OwnersKnow', OthersFollow,
         ExecutionIsWatched, [Next]_vars
  PROVE  ExecutionIsWatched'
PROOF
  <1> DEFINE Watching == {"watch", "watch_cancel", "kill", "confirm", "mark", "drop", "finish"}
  <1> SUFFICES ASSUME NEW c \in Commands, exec'[c] \notin {"none"} \cup Done, ~Tables!IsTerminal(c)'
               PROVE  \E w \in Commands : worker'[w].command = c /\ worker'[w].pc \in Watching
    BY DEF ExecutionIsWatched, Own
  <1>0. /\ WorkersShaped /\ StartsApart /\ UnregisteredIsFree
    BY DEF Shapes, Places
  <1>1. ~Tables!IsTerminal(c)
    BY TerminalKept DEF Tables!IsTerminal
  <1>2. PICK w \in Commands : Own(w) = c /\ ~Forget(w)
    <2>1. CASE exec[c] \notin {"none"} \cup Done
      BY <1>1, <2>1 DEF ExecutionIsWatched, Forget, WorkerAt
    <2>2. CASE exec[c] \in {"none"} \cup Done
      <3>1. ~ExecSteps(c)
        BY <2>2, ExecFrame
      <3> QED
        BY <2>2, <3>1, ExecMovedBy DEF Launch, Forget, WorkerAt
    <2> QED
      BY <2>1, <2>2
  <1>3. worker'[w].command = c
    BY <1>0, <1>2, OwnersStay
  <1>4. Knows(c, worker[w].pc, worker[w].outcome)'
    BY <1>3 DEF OwnersKnow, Own
  <1>5. worker'[w].pc \in WorkerPcs \ Resting
    BY <1>3, NamesAssumption DEF WorkersShaped, Workers, Own
  <1> QED
    BY <1>3, <1>4, <1>5
    DEF Knows, WorkerPcs, Resting, NotLaunched, Done, Tables!IsTerminal

LEMMA InitProgressing == Init => Progressing
PROOF
  <1> SUFFICES ASSUME Init PROVE Progressing
    OBVIOUS
  <1> USE NamesAssumption
          DEF Init, Tables!Init, Tables!NoSessionRow, Tables!NoCommandRow, NoCall, NoWorker
  <1>1. OwnersKnow /\ QueueIsServed
    BY DEF OwnersKnow, Own, QueueIsServed
  <1>2. OthersFollow
    BY DEF OthersFollow, Tables!IsTerminal, Tables!Terminal, Queued
  <1>3. ActiveHasEvent /\ NoCommandStranded /\ ExecutionIsWatched
    BY DEF ActiveHasEvent, NoCommandStranded, ExecutionIsWatched, Tables!IsActive, Tables!Progress
  <1> QED
    BY <1>1, <1>2, <1>3 DEF Progressing

LEMMA ProgressingKept ==
  ASSUME Shapes, Places, Progressing, [Next]_vars
  PROVE  Progressing'
PROOF
  <1>1. Shapes' /\ Places'
    BY PlacesKept
  <1>2. OwnersKnow' /\ OthersFollow' /\ ActiveHasEvent' /\ QueueIsServed'
    BY <1>1, OwnersKnowKept, OthersFollowKept, ActiveHasEventKept, QueueIsServedKept DEF Progressing
  <1>3. NoCommandStranded' /\ ExecutionIsWatched'
    BY <1>1, <1>2, NoCommandStrandedKept, ExecutionIsWatchedKept DEF Progressing, Shapes
  <1> QED
    BY <1>2, <1>3 DEF Progressing

\* The layers that do not look at the events.
LEMMA ProgressInvariant == Spec => [](Shapes /\ Places /\ Progressing)
PROOF
  <1>1. Init => Shapes /\ Places /\ Progressing
    BY InitShapes, InitPlaces, InitProgressing
  <1>2. Shapes /\ Places /\ Progressing /\ [Next]_vars => (Shapes /\ Places /\ Progressing)'
    BY PlacesKept, ProgressingKept
  <1> QED
    BY <1>1, <1>2, PTL DEF Spec

\* No interleaving of starts, closes, cancels and exiting queue workers leaves
\* a command that is not terminal in nobody's hands.
THEOREM Stranded == Spec => []NoCommandStranded
PROOF
  BY ProgressInvariant, PTL DEF Progressing

\* A command's script executes only under the eyes of its worker, or after the
\* command has become terminal.
THEOREM Watched == Spec => []ExecutionIsWatched
PROOF
  BY ProgressInvariant, PTL DEF Progressing

-----------------------------------------------------------------------------
(* The store *)

\* The invariant of the store, which CommandStoreProofs shows of every use of it.
Stored == StoreProofs!IInv

LEMMA StoreBounds ==
  /\ StoreProofs!NoSessionAssumption /\ StoreProofs!BoundsAssumption
  /\ MaxOutput + 3 \in Nat
PROOF
  BY NamesAssumption, CallsAssumption
  DEF StoreProofs!NoSessionAssumption, StoreProofs!BoundsAssumption

LEMMA SameTables ==
  /\ Tables!Init => StoreProofs!Init
  /\ Tables!Next => StoreProofs!Next
  /\ Tables!tables = StoreProofs!tables
  /\ StoreProofs!TypeOK => Tables!TypeOK
  /\ StoreProofs!TerminalEventMatchesStatus => Tables!TerminalEventMatchesStatus
  /\ \A c : Tables!NextSeq(c) = StoreProofs!NextSeq(c)
PROOF
  <1>0. Tables!tables = StoreProofs!tables
    BY DEF Tables!tables, StoreProofs!tables
  <1> USE DEF Tables!SessionStatuses, StoreProofs!SessionStatuses,
              Tables!EndedSession, StoreProofs!EndedSession,
              Tables!Progress, StoreProofs!Progress,
              Tables!Terminal, StoreProofs!Terminal,
              Tables!CommandStatuses, StoreProofs!CommandStatuses,
              Tables!OutputEvents, StoreProofs!OutputEvents,
              Tables!TerminalEvent, StoreProofs!TerminalEvent
  <1>1. Tables!TerminalEvents = StoreProofs!TerminalEvents
    BY DEF Tables!TerminalEvents, StoreProofs!TerminalEvents
  <1>2. Tables!EventTypes = StoreProofs!EventTypes
    BY <1>1 DEF Tables!EventTypes, StoreProofs!EventTypes
  <1>3. /\ Tables!SessionRows = StoreProofs!SessionRows
        /\ Tables!CommandRows = StoreProofs!CommandRows
        /\ Tables!EventRows = StoreProofs!EventRows
    BY <1>2
    DEF Tables!SessionRows, StoreProofs!SessionRows, Tables!CommandRows, StoreProofs!CommandRows,
        Tables!EventRows, StoreProofs!EventRows
  <1>4. /\ Tables!NoSessionRow = StoreProofs!NoSessionRow
        /\ Tables!NoCommandRow = StoreProofs!NoCommandRow
    BY DEF Tables!NoSessionRow, StoreProofs!NoSessionRow, Tables!NoCommandRow, StoreProofs!NoCommandRow
  <1>5. \A c : Tables!NextSeq(c) = StoreProofs!NextSeq(c)
    BY DEF Tables!NextSeq, StoreProofs!NextSeq, Tables!Max, StoreProofs!Max
  <1>6. \A c : Tables!IsTerminal(c) <=> StoreProofs!IsTerminal(c)
    BY DEF Tables!IsTerminal, StoreProofs!IsTerminal
  <1>7. Tables!Batches = StoreProofs!Batches
    BY DEF Tables!Batches, StoreProofs!Batches
  <1>8. Tables!Init => StoreProofs!Init
    BY <1>4 DEF Tables!Init, StoreProofs!Init
  <1>9. StoreProofs!TypeOK => Tables!TypeOK
    BY <1>3, <1>4 DEF Tables!TypeOK, StoreProofs!TypeOK
  <1>10. StoreProofs!TerminalEventMatchesStatus => Tables!TerminalEventMatchesStatus
    BY <1>1, <1>6 DEF Tables!TerminalEventMatchesStatus, StoreProofs!TerminalEventMatchesStatus
  <1>11. \A s : Tables!CreateSession(s) => StoreProofs!CreateSession(s)
    BY DEF Tables!CreateSession, StoreProofs!CreateSession
  <1>12. \A s, st, closes : Tables!UpdateSession(s, st, closes) => StoreProofs!UpdateSession(s, st, closes)
    BY DEF Tables!UpdateSession, StoreProofs!UpdateSession,
           Tables!CanUpdateSession, StoreProofs!CanUpdateSession
  <1>13. \A c, s : Tables!CreateCommand(c, s) => StoreProofs!CreateCommand(c, s)
    BY DEF Tables!CreateCommand, StoreProofs!CreateCommand
  <1>14. \A c, st : Tables!UpdateCommand(c, st) => StoreProofs!UpdateCommand(c, st)
    BY DEF Tables!UpdateCommand, StoreProofs!UpdateCommand,
           Tables!CanUpdateCommand, StoreProofs!CanUpdateCommand
  <1>15. \A c, batch : Tables!AppendEvents(c, batch) => StoreProofs!AppendEvents(c, batch)
    BY <1>5 DEF Tables!AppendEvents, StoreProofs!AppendEvents
  <1>16. \A c, st : Tables!FinishCommand(c, st) => StoreProofs!FinishCommand(c, st)
    BY <1>5, <1>6
    DEF Tables!FinishCommand, StoreProofs!FinishCommand, Tables!tables, StoreProofs!tables
  <1>17. Tables!Next => StoreProofs!Next
    BY <1>5, <1>7, <1>11, <1>12, <1>13, <1>14, <1>15, <1>16, Zenon DEF Tables!Next, StoreProofs!Next
  <1> QED
    BY <1>0, <1>5, <1>8, <1>9, <1>10, <1>17

LEMMA StoredKept ==
  ASSUME Stored, [Tables!Next]_Tables!tables
  PROVE  Stored'
PROOF
  <1>1. Tables!tables = StoreProofs!tables /\ (Tables!Next => StoreProofs!Next)
    BY SameTables
  <1>2. [StoreProofs!Next]_StoreProofs!tables
    BY <1>1 DEF Tables!tables, StoreProofs!tables
  <1> QED
    BY <1>2, StoreBounds, StoreProofs!NextIInv DEF Stored

LEMMA InitStored == Init => Stored
PROOF
  BY SameTables, StoreBounds, StoreProofs!InitIInv DEF Init, Stored

\* The numbers of a command's events.
LEMMA EventsNumbered ==
  ASSUME Stored, NEW c \in Commands
  PROVE  /\ events \in [Commands -> SUBSET Tables!EventRows]
         /\ \E n \in Nat : /\ {e.seq : e \in events[c]} = 1..n
                           /\ \A e, f \in events[c] : e.seq = f.seq => e = f
                           /\ Tables!NextSeq(c) = n + 1
                           /\ IsFiniteSet(events[c]) /\ Cardinality(events[c]) = n
PROOF
  <1>1. PICK n \in Nat : /\ {e.seq : e \in events[c]} = 1..n
                         /\ \A e, f \in events[c] : e.seq = f.seq => e = f
    BY DEF Stored, StoreProofs!IInv, StoreProofs!Numbered
  <1>2. Tables!NextSeq(c) = n + 1
    BY <1>1, SameTables, StoreBounds, StoreProofs!NextSeqOfInterval
  <1>3. IsFiniteSet(events[c]) /\ Cardinality(events[c]) = n
    <2> DEFINE seq == [e \in events[c] |-> e.seq]
    <2>1. seq \in Injection(events[c], 1..n) /\ seq \in Surjection(events[c], 1..n)
      BY <1>1 DEF Injection, IsInjective, Surjection
    <2>2. IsFiniteSet(1..n) /\ Cardinality(1..n) = n
      BY FS_Interval
    <2> HIDE DEF seq
    <2> QED
      BY <2>1, <2>2, FS_Injection
  <1>4. events \in [Commands -> SUBSET Tables!EventRows]
    BY SameTables DEF Stored, StoreProofs!IInv, Tables!TypeOK
  <1> QED
    BY <1>1, <1>2, <1>3, <1>4

-----------------------------------------------------------------------------
(* What a command has logged, is kept *)

EventOf(c, type) == [seq |-> Tables!NextSeq(c), type |-> type]
Adds(c, type) == EventOf(c, type) \notin events[c] /\ events'[c] = events[c] \cup {EventOf(c, type)}

\* One transaction adds at most one event.
LEMMA OneEventAdded ==
  ASSUME Stored, NEW c \in Commands
  PROVE  /\ \A type : Tables!AppendEvents(c, <<type>>) => Adds(c, type)
         /\ \A st : Tables!FinishCommand(c, st) =>
              IF Tables!IsTerminal(c) THEN events' = events ELSE Adds(c, Tables!TerminalEvent[st])
         /\ \A d \in Commands : d # c =>
              /\ \A type : Tables!AppendEvents(d, <<type>>) => events'[c] = events[c]
              /\ \A st : Tables!FinishCommand(d, st) => events'[c] = events[c]
PROOF
  <1>1. PICK n \in Nat : /\ {e.seq : e \in events[c]} = 1..n
                         /\ Tables!NextSeq(c) = n + 1
    BY EventsNumbered
  <1>2. events \in [Commands -> SUBSET Tables!EventRows]
    BY EventsNumbered
  <1>3. \A type : EventOf(c, type) \notin events[c]
    <2> SUFFICES ASSUME NEW type, EventOf(c, type) \in events[c] PROVE FALSE
      OBVIOUS
    <2>1. EventOf(c, type).seq = n + 1
      BY <1>1 DEF EventOf
    <2>2. n + 1 \in 1..n
      BY <1>1, <2>1
    <2> QED
      BY <2>2
  <1>4. ASSUME NEW type, NEW d \in Commands, Tables!AppendEvents(d, <<type>>)
        PROVE  events' = [events EXCEPT ![d] = @ \cup {EventOf(d, type)}]
    <2>1. PICK m \in Nat : Tables!NextSeq(d) = m + 1
      BY EventsNumbered
    <2>2. {[seq |-> Tables!NextSeq(d) + i - 1, type |-> <<type>>[i]] : i \in DOMAIN <<type>>}
          = {EventOf(d, type)}
      BY <2>1 DEF EventOf
    <2> QED
      BY <1>4, <2>2 DEF Tables!AppendEvents
  <1>5. ASSUME NEW st, NEW d \in Commands, Tables!FinishCommand(d, st)
        PROVE  IF Tables!IsTerminal(d) THEN events' = events
               ELSE events' = [events EXCEPT ![d] = @ \cup {EventOf(d, Tables!TerminalEvent[st])}]
    BY <1>5 DEF Tables!FinishCommand, Tables!tables, EventOf
  <1> HIDE DEF EventOf
  <1> QED
    BY <1>2, <1>3, <1>4, <1>5 DEF Adds

LEMMA EventsMovedBy ==
  ASSUME Shapes, Stored, [Next]_vars, NEW c \in Commands
  PROVE  \/ events'[c] = events[c]
         \/ \E w \in Commands :
              /\ Own(w) = c
              /\ \/ AppendStarted(w) /\ Adds(c, "command_started")
                 \/ AppendOutput(w) /\ MaxOutput > 0 /\ Adds(c, "stdout")
                 \/ AppendStderr(w) /\ Adds(c, "stderr")
         \/ ExecEmit(c) /\ Adds(c, "stdout")
         \/ \E k \in Callers : /\ Finish(k) /\ call[k].command = c /\ ~Tables!IsTerminal(c)
                               /\ Adds(c, Tables!TerminalEvent["canceled"])
         \/ \E w \in Commands : /\ WorkerFinish(w) /\ Own(w) = c /\ ~Tables!IsTerminal(c)
                                /\ Adds(c, Tables!TerminalEvent[worker[w].outcome])
PROOF
  <1>1. ASSUME NEW k \in Callers, Finish(k)
        PROVE  \/ events'[c] = events[c]
               \/ /\ call[k].command = c /\ ~Tables!IsTerminal(c)
                  /\ Adds(c, Tables!TerminalEvent["canceled"])
    <2>1. call[k].command \in Commands /\ Tables!FinishCommand(call[k].command, "canceled")
      BY <1>1, FinishMoves DEF Finish
    <2> QED
      BY <2>1, OneEventAdded
  <1>2. ASSUME NEW w \in Commands, WorkerFinish(w)
        PROVE  \/ events'[c] = events[c]
               \/ /\ Own(w) = c /\ ~Tables!IsTerminal(c)
                  /\ Adds(c, Tables!TerminalEvent[worker[w].outcome])
    <2>1. Own(w) \in Commands
      BY <1>2 DEF WorkerFinish, WorkerAt, Shapes, WorkersShaped, Workers, Resting, Own
    <2> QED
      BY <1>2, <2>1, OneEventAdded DEF WorkerFinish
  <1>3. ASSUME NEW w \in Commands, QuietWorker(w), events'[c] # events[c]
        PROVE  /\ Own(w) = c
               /\ \/ AppendStarted(w) /\ Adds(c, "command_started")
                  \/ AppendOutput(w) /\ MaxOutput > 0 /\ Adds(c, "stdout")
                  \/ AppendStderr(w) /\ Adds(c, "stderr")
    <2>1. Own(w) \in Commands
      BY <1>3, QuietWorkerFrame DEF Shapes, WorkersShaped, Workers, Own
    <2>2. CASE AppendStarted(w) \/ AppendStderr(w)
      BY <1>3, <2>1, <2>2, OneEventAdded DEF AppendStarted, AppendStderr
    <2>3. CASE AppendOutput(w)
      BY <1>3, <2>1, <2>3, OneEventAdded DEF AppendOutput, tables
    <2>4. CASE CheckCanceled(w) \/ CheckLive(w) \/ Watch(w) \/ WatchCancel(w) \/ WatchDeadline(w)
      BY <1>3, <2>4 DEF CheckCanceled, CheckLive, Watch, WatchCancel, WatchDeadline, tables
    <2>5. CASE WorkerKill(w) \/ Ended(w) \/ WorkerError(w) \/ Confirm(w)
      BY <1>3, <2>5 DEF WorkerKill, Ended, WorkerError, Confirm, tables
    <2>6. CASE WorkerMark(w) \/ WorkerDrop(w)
      BY <1>3, <2>6 DEF WorkerMark, WorkerDrop, tables, Tables!UpdateSession
    <2> QED
      BY <1>3, <2>2, <2>3, <2>4, <2>5, <2>6 DEF QuietWorker
  <1>4. ASSUME NEW d \in Commands, ExecSteps(d), events'[c] # events[c]
        PROVE  d = c /\ ExecEmit(c) /\ Adds(c, "stdout")
    <2>1. CASE ExecEmit(d)
      BY <1>4, <2>1, OneEventAdded DEF ExecEmit
    <2>2. CASE ExecRefused(d) \/ ExecCheck(d) \/ ExecLock(d) \/ ExecLine(d) \/ ExecEnd(d) \/ ExecEof(d)
      BY <1>4, <2>2 DEF ExecRefused, ExecCheck, ExecLock, ExecLine, ExecEnd, ExecEof, tables
    <2> QED
      BY <1>4, <2>1, <2>2 DEF ExecSteps
  <1>5. ASSUME NEW k \in Callers,
               \/ Insert(k) \/ Register(k) \/ ThreadStart(k)
               \/ \E s \in Sessions : CloseBegin(k, s)
        PROVE  events' = events
    BY <1>5 DEF Insert, Register, ThreadStart, CloseBegin, CloseTaking, tables, Tables!CreateCommand
  <1>6. ASSUME NEW w \in Commands,
               PopNothing(w) \/ Pop(w) \/ SetProgress(w) \/ Launch(w) \/ Forget(w)
        PROVE  events' = events
    BY <1>6 DEF PopNothing, Pop, SetProgress, Launch, Forget, tables, Tables!UpdateCommand
  <1>7. UNCHANGED vars \/ (\E s \in Sessions : ShellEnds(s)) => events' = events
    BY DEF vars, tables, ShellEnds, ShellExits, Finalize
  <1> QED
    BY <1>1, <1>2, <1>3, <1>4, <1>5, <1>6, <1>7, NextCases, QuietCallFrame

LEMMA RowsGrow ==
  ASSUME NEW c \in Commands, NEW type, Adds(c, type), CountsOf(c), NEW t
  PROVE  /\ Rows(c, t) \subseteq Rows(c, t)'
         /\ t # type => Rows(c, t)' = Rows(c, t)
         /\ t = type => /\ Rows(c, t)' # {}
                        /\ Cardinality(Rows(c, t)') = Cardinality(Rows(c, t)) + 1
         /\ IsFiniteSet(events'[c])
         /\ IsFiniteSet(Rows(c, t)) /\ Cardinality(Rows(c, t)) \in Nat
PROOF
  <1> DEFINE e == EventOf(c, type)
  <1>1. e \notin events[c] /\ events'[c] = events[c] \cup {e} /\ e.type = type
    BY DEF Adds, EventOf
  <1>2. IsFiniteSet(events[c])
    BY DEF CountsOf
  <1> HIDE DEF e
  <1>3. IsFiniteSet(events'[c])
    BY <1>1, <1>2, FS_AddElement
  <1>4. /\ t # type => Rows(c, t)' = Rows(c, t)
        /\ t = type => Rows(c, t)' = Rows(c, t) \cup {e} /\ e \notin Rows(c, t)
    BY <1>1 DEF Rows
  <1>5. IsFiniteSet(Rows(c, t)) /\ Cardinality(Rows(c, t)) \in Nat
    BY <1>2, FS_Subset, FS_CardinalityType DEF Rows
  <1>6. t = type => Cardinality(Rows(c, t)') = Cardinality(Rows(c, t)) + 1
    BY <1>4, <1>5, FS_AddElement
  <1> QED
    BY <1>3, <1>4, <1>5, <1>6

\* The two progress updates.
LEMMA ProgressSteps ==
  ASSUME WorkersShaped, NEW w \in Commands, SetProgress(w)
  PROVE  /\ \/ worker[w].pc = "starting" /\ worker'[w].pc \in {"started", "error"}
            \/ worker[w].pc = "running" /\ worker'[w].pc \in {"launch", "error"}
         /\ worker'[w].outcome = worker[w].outcome /\ worker'[w].closes = worker[w].closes
PROOF
  <1>1. PICK site \in {<<"starting", "started">>, <<"running", "launch">>} :
          worker[w].pc = site[1] /\ (WorkerGoto(w, site[2]) \/ WorkerGoto(w, "error"))
    BY DEF SetProgress, WorkerAt
  <1>2. \/ site[1] = "starting" /\ site[2] = "started"
        \/ site[1] = "running" /\ site[2] = "launch"
    OBVIOUS
  <1> QED
    BY <1>1, <1>2, WorkerGoes

\* A command that has not started had not.
LEMMA NotStartedBefore ==
  ASSUME Shapes, Places, [Next]_vars, NEW c \in Commands, NotStarted(c)'
  PROVE  NotStarted(c)
PROOF
  <1>0. WorkersShaped /\ References /\ StartsApart /\ UnregisteredIsFree
    BY DEF Shapes, Places
  <1>1. CASE Unregistered(c)'
    BY <1>0, <1>1, UnregisteredBefore DEF NotStarted
  <1>2. ASSUME NEW s \in Sessions, Queued(c, s)' PROVE NotStarted(c)
    BY <1>2, QueuedBefore DEF NotStarted, Register, Unregistered
  <1>3. ASSUME NEW w \in Commands, worker'[w].command = c, worker'[w].pc \in BeforeStart
        PROVE  NotStarted(c)
    <2>1. CASE worker'[w].command = worker[w].command
      <3>1. Own(w) = c /\ worker[w].pc \notin Resting
        BY <1>0, <1>3, <2>1, NamesAssumption DEF WorkersShaped, Own
      <3>2. CASE worker'[w] = worker[w]
        BY <1>3, <3>1, <3>2 DEF NotStarted, Own
      <3>3. CASE QuietWorker(w)
        <4>1. WorkerPath(w, c)
          BY <3>1, <3>3, QuietWorkerSteps
        <4>2. worker[w].pc \in BeforeStart
          BY <1>3, <3>3, <4>1 DEF WorkerPath, BeforeStart, QuietWorker
        <4> QED
          BY <3>1, <4>2 DEF NotStarted
      <3>4. CASE SetProgress(w)
        BY <1>0, <1>3, <3>1, <3>4, ProgressSteps DEF NotStarted, BeforeStart
      <3>5. CASE PopNothing(w) \/ Launch(w) \/ WorkerFinish(w) \/ Forget(w)
        BY <1>0, <1>3, <3>5, BusyWorkerMoves, ForgetMoves DEF BeforeStart
      <3>6. CASE Pop(w) \/ \E k \in Callers : (Register(k) \/ ThreadStart(k)) /\ call[k].command = w
        BY <1>0, <3>1, <3>6
        DEF Pop, WorkerAt, Resting, Register, ThreadStart, StartsApart, UnregisteredIsFree, Unregistered
      <3> QED
        BY <3>2, <3>3, <3>4, <3>5, <3>6, WorkerMovedBy
    <2>2. CASE worker'[w].command # worker[w].command
      <3>1. Pop(w) /\ c = Head(queue[Shell(w)])
        BY <1>0, <1>3, <2>2, CommandsTaken, NamesAssumption
      <3> QED
        BY <3>1, PopAtQueue DEF NotStarted, Queued
    <2> QED
      BY <2>1, <2>2
  <1> QED
    BY <1>1, <1>2, <1>3 DEF NotStarted, Own

\* A terminal event is of no other type.
LEMMA EndTypes ==
  \A st \in Tables!Terminal :
    Tables!TerminalEvent[st] \notin {"command_started", "stdout", "stderr"}
PROOF
  BY DEF Tables!Terminal, Tables!TerminalEvent

\* What is added to the log of a command, and where its worker and its
\* execution are then.
LEMMA LogMoves ==
  ASSUME Shapes, Places, OwnersKnow, Stored, Counted, [Next]_vars, NEW c \in Commands
  PROVE  \/ events'[c] = events[c]
         \/ /\ Adds(c, "command_started") /\ exec'[c] = exec[c]
            /\ \E w \in Commands : Own(w) = c /\ worker[w].pc = "started" /\ worker'[w].pc = "begun"
                                   /\ worker'[w].command = c
         \/ /\ \/ Adds(c, "stdout") /\ MaxOutput > 0 /\ SessionOf(c) \in hosted
               \/ Adds(c, "stderr")
            /\ exec[c] \in Done /\ exec'[c] = exec[c]
            /\ \E w \in Commands : Own(w) = c /\ worker[w].pc \in {"output", "stderr"}
                                   /\ worker'[w].pc = "finish" /\ worker'[w].command = c
         \/ /\ Adds(c, "stdout") /\ exec[c] = "emitting" /\ exec'[c] = "running"
            /\ SessionOf(c) \notin hosted
         \/ /\ \E st \in Tables!Terminal : Adds(c, Tables!TerminalEvent[st])
            /\ exec' = exec
PROOF
  <1>0. WorkersShaped /\ exec \in [Commands -> ExecStates]
    BY DEF Shapes, Typed
  <1>1. ASSUME NEW w \in Commands, Own(w) = c, AppendStarted(w) \/ AppendOutput(w) \/ AppendStderr(w)
        PROVE  /\ WorkerPath(w, c) /\ worker'[w].command = c /\ exec' = exec
               /\ Knows(c, worker[w].pc, worker[w].outcome)
    <2>1. QuietWorker(w)
      BY <1>1 DEF QuietWorker
    <2> QED
      BY <1>0, <1>1, <2>1, QuietWorkerSteps, QuietWorkerMoves, QuietWorkerFrame DEF OwnersKnow, Own
  <1>2. ASSUME NEW w \in Commands, Own(w) = c, AppendStarted(w), Adds(c, "command_started")
        PROVE  /\ exec'[c] = exec[c]
               /\ worker[w].pc = "started" /\ worker'[w].pc = "begun" /\ worker'[w].command = c
    BY <1>1, <1>2 DEF WorkerPath
  <1>3. ASSUME NEW w \in Commands, Own(w) = c,
               \/ AppendOutput(w) /\ MaxOutput > 0 /\ Adds(c, "stdout")
               \/ AppendStderr(w) /\ Adds(c, "stderr")
        PROVE  /\ \/ Adds(c, "stdout") /\ MaxOutput > 0 /\ SessionOf(c) \in hosted
                  \/ Adds(c, "stderr")
               /\ exec[c] \in Done /\ exec'[c] = exec[c]
               /\ worker[w].pc \in {"output", "stderr"}
               /\ worker'[w].pc = "finish" /\ worker'[w].command = c
    BY <1>1, <1>3 DEF WorkerPath, Knows
  <1>4. ExecEmit(c) => exec[c] = "emitting" /\ exec'[c] = "running" /\ SessionOf(c) \notin hosted
    BY <1>0 DEF ExecEmit, ExecGoto, Counted, LoggedOf
  <1>5. \A k \in Callers : Finish(k) => exec' = exec
    BY DEF Finish
  <1>6. \A w \in Commands : WorkerFinish(w) =>
          exec' = exec /\ worker[w].outcome \in Tables!Terminal
    BY <1>0 DEF WorkerFinish, WorkerAt, WorkersShaped, NeedsOutcome, EndingPcs
  <1>7. "canceled" \in Tables!Terminal
    BY DEF Tables!Terminal
  <1> QED
    BY <1>2, <1>3, <1>4, <1>5, <1>6, <1>7, EventsMovedBy

\* The row of a command keeps its session.
LEMMA PresentStays ==
  ASSUME Shapes, [Next]_vars, NEW c \in Commands, Present(c)
  PROVE  Present(c)' /\ SessionOf(c)' = SessionOf(c)
PROOF
  <1>1. RowOf(c, SessionOf(c))
    BY DEF RowOf, Present
  <1>2. \A s : RowOf(c, s) => RowOf(c, s)'
    BY RowsKept
  <1> QED
    BY <1>1, <1>2 DEF RowOf, Present, SessionOf

\* What has no row has no event.
LEMMA AbsentLogsNothing ==
  ASSUME Stored, NEW c \in Commands, ~Present(c)
  PROVE  events[c] = {} /\ \A t : Rows(c, t) = {}
PROOF
  <1>1. events[c] = {}
    BY SameTables DEF Stored, StoreProofs!IInv, Tables!TypeOK, Present
  <1> QED
    BY <1>1 DEF Rows

LEMMA ExecEmits ==
  ASSUME Shapes, [Next]_vars, NEW c \in Commands, exec'[c] = "emitting", exec[c] # "emitting"
  PROVE  ExecLine(c)
PROOF
  <1>0. exec \in [Commands -> ExecStates]
    BY DEF Shapes, Typed
  <1>1. ~\E w \in Commands : Launch(w) /\ Own(w) = c
    BY <1>0 DEF Launch
  <1>2. ExecSteps(c)
    BY <1>1, ExecMovedBy
  <1> QED
    BY <1>0, <1>2
    DEF ExecSteps, ExecRefused, ExecCheck, ExecLock, ExecEnd, ExecEof, ExecEmit, ExecGoto, Done

LEMMA CountsKept ==
  ASSUME Shapes, Places, OwnersKnow, Stored, Counted, [Next]_vars, NEW c \in Commands
  PROVE  CountsOf(c)'
PROOF
  <1>0. CountsOf(c) /\ LoggedOf(c) /\ MaxOutput \in Nat
    BY CallsAssumption DEF Counted
  <1>1. ASSUME NEW type, Adds(c, type),
               type = "command_started" => Rows(c, "command_started") = {},
               type = "stderr" => Rows(c, "stderr") = {},
               type = "stdout" => Cardinality(Rows(c, "stdout")) < MaxOutput
        PROVE  CountsOf(c)'
    BY <1>0, <1>1, RowsGrow, FS_EmptySet DEF CountsOf
  <1>2. CASE events'[c] = events[c]
    BY <1>0, <1>2 DEF CountsOf, Rows
  <1>3. CASE Adds(c, "command_started") /\ \E w \in Commands : Own(w) = c /\ worker[w].pc = "started"
    <2>1. NotStarted(c)
      BY <1>3 DEF NotStarted, BeforeStart
    <2> QED
      BY <1>0, <1>1, <1>3, <2>1 DEF LoggedOf
  <1>4. CASE /\ \/ Adds(c, "stdout") /\ MaxOutput > 0 /\ SessionOf(c) \in hosted
                \/ Adds(c, "stderr")
             /\ \E w \in Commands : Own(w) = c /\ worker[w].pc \in {"output", "stderr"}
    BY <1>0, <1>1, <1>4, FS_EmptySet DEF LoggedOf
  <1>5. CASE Adds(c, "stdout") /\ exec[c] = "emitting"
    BY <1>0, <1>1, <1>5 DEF LoggedOf
  <1>6. CASE \E st \in Tables!Terminal : Adds(c, Tables!TerminalEvent[st])
    BY <1>1, <1>6, EndTypes
  <1> QED
    BY <1>2, <1>3, <1>4, <1>5, <1>6, LogMoves

\* What a step does to the rows of one type.
LEMMA RowsMoved ==
  ASSUME Shapes, Places, OwnersKnow, Stored, Counted, [Next]_vars, NEW c \in Commands,
         NEW t \in {"command_started", "stdout", "stderr"}
  PROVE  \/ Rows(c, t)' = Rows(c, t)
         \/ /\ t = "command_started"
            /\ \E w \in Commands : Own(w) = c /\ worker[w].pc = "started" /\ worker'[w].pc = "begun"
                                   /\ worker'[w].command = c
         \/ /\ t = "stderr" \/ (t = "stdout" /\ SessionOf(c) \in hosted)
            /\ exec[c] \in Done /\ exec'[c] = exec[c]
            /\ \E w \in Commands : Own(w) = c /\ worker[w].pc \in {"output", "stderr"}
                                   /\ worker'[w].pc = "finish" /\ worker'[w].command = c
         \/ /\ t = "stdout" /\ SessionOf(c) \notin hosted
            /\ exec[c] = "emitting" /\ exec'[c] = "running"
PROOF
  <1>0. CountsOf(c)
    BY DEF Counted
  <1>1. \A type : Adds(c, type) /\ type # t => Rows(c, t)' = Rows(c, t)
    BY <1>0, RowsGrow
  <1>2. CASE events'[c] = events[c]
    BY <1>2 DEF Rows
  <1>3. CASE /\ Adds(c, "command_started") /\ exec'[c] = exec[c]
             /\ \E w \in Commands : Own(w) = c /\ worker[w].pc = "started" /\ worker'[w].pc = "begun"
                                    /\ worker'[w].command = c
    BY <1>1, <1>3
  <1>4. CASE /\ \/ Adds(c, "stdout") /\ MaxOutput > 0 /\ SessionOf(c) \in hosted
                \/ Adds(c, "stderr")
             /\ exec[c] \in Done /\ exec'[c] = exec[c]
             /\ \E w \in Commands : Own(w) = c /\ worker[w].pc \in {"output", "stderr"}
                                    /\ worker'[w].pc = "finish" /\ worker'[w].command = c
    BY <1>1, <1>4
  <1>5. CASE /\ Adds(c, "stdout") /\ exec[c] = "emitting" /\ exec'[c] = "running"
             /\ SessionOf(c) \notin hosted
    BY <1>1, <1>5
  <1>6. CASE /\ \E st \in Tables!Terminal : Adds(c, Tables!TerminalEvent[st])
             /\ exec' = exec
    BY <1>1, <1>6, EndTypes
  <1> QED
    BY <1>2, <1>3, <1>4, <1>5, <1>6, LogMoves

LEMMA LoggedKept ==
  ASSUME Shapes, Places, Places', Shapes', OwnersKnow, Stored, Counted, [Next]_vars, NEW c \in Commands
  PROVE  LoggedOf(c)'
PROOF
  <1>0. /\ CountsOf(c) /\ LoggedOf(c) /\ WorkersShaped /\ References /\ StartsApart
        /\ UnregisteredIsFree /\ QueuedIsFree /\ OwnersApart
    BY DEF Counted, Shapes, Places
  <1>p. UnregisteredIsFree' /\ QueuedIsFree' /\ OwnersApart'
    BY DEF Places
  <1>g. \A t : Rows(c, t) \subseteq Rows(c, t)'
    BY <1>0, LogMoves, RowsGrow DEF Rows
  <1>h. hosted' = hosted
    BY ProcessesKept
  <1>e. exec[c] \in Done => exec'[c] = exec[c]
    <2>1. \A w \in Commands : Launch(w) /\ Own(w) = c => exec[c] = "none"
      BY DEF Launch, WorkerAt, OwnersKnow, Knows, NotLaunched
    <2> QED
      BY <2>1, ExecMovedBy, ExecFrame DEF Done
  <1>1. NotStarted(c)' => Rows(c, "command_started")' = {}
    <2> SUFFICES ASSUME NotStarted(c)' PROVE Rows(c, "command_started")' = {}
      OBVIOUS
    <2>1. Rows(c, "command_started") = {}
      BY <1>0, NotStartedBefore DEF LoggedOf
    <2>2. ASSUME NEW w \in Commands, worker'[w].command = c, worker'[w].pc = "begun" PROVE FALSE
      <3>1. ~Unregistered(c)' /\ \A s \in Sessions : ~Queued(c, s)'
        BY <1>p, <2>2 DEF UnregisteredIsFree, QueuedIsFree, Queued, Own
      <3>2. \A v \in Commands : worker'[v].command = c => v = w
        BY <1>p, <2>2 DEF OwnersApart, Own
      <3> QED
        BY <2>2, <3>1, <3>2 DEF NotStarted, BeforeStart, Own
    <2>3. \/ Rows(c, "command_started")' = Rows(c, "command_started")
          \/ \E w \in Commands : worker'[w].command = c /\ worker'[w].pc = "begun"
      BY RowsMoved
    <2> QED
      BY <2>1, <2>2, <2>3
  <1>2. \/ exec'[c] # "none"
        \/ \E w \in Commands : worker'[w].command = c /\ worker'[w].pc \in {"begun", "running", "launch"}
        => Rows(c, "command_started")' # {}
    <2>1. CASE exec[c] # "none" \/ \E w \in Commands : Own(w) = c /\ worker[w].pc \in {"begun", "running", "launch"}
      BY <1>0, <1>g, <2>1 DEF LoggedOf
    <2>2. CASE /\ exec[c] = "none"
               /\ \A w \in Commands : Own(w) = c => worker[w].pc \notin {"begun", "running", "launch"}
      <3>1. exec'[c] = "none"
        BY <2>2, ExecMovedBy, ExecFrame DEF Launch, WorkerAt
      <3>2. ASSUME NEW w \in Commands, worker'[w].command = c, worker'[w].pc \in {"begun", "running", "launch"}
            PROVE  Rows(c, "command_started")' # {}
        <4>1. Own(w) = c
          <5>1. ~Pop(w) \/ worker'[w].command = worker[w].command
            BY <1>0, <3>2, PopAtQueue, PopMoves DEF Shapes, Typed
          <5> QED
            BY <1>0, <3>2, <5>1, CommandsTaken, NamesAssumption DEF Own
        <4>2. worker'[w] # worker[w] /\ worker[w].pc \notin Resting
          BY <1>0, <2>2, <3>2, <4>1, NamesAssumption DEF WorkersShaped, Own
        <4>3. QuietWorker(w)
          <5>1. ~SetProgress(w)
            BY <1>0, <2>2, <3>2, <4>1, ProgressSteps
          <5>2. ~(PopNothing(w) \/ Launch(w) \/ WorkerFinish(w) \/ Forget(w) \/ Pop(w))
            BY <1>0, <3>2, <4>2, BusyWorkerMoves, ForgetMoves DEF Pop, WorkerAt, Resting
          <5>3. ASSUME NEW k \in Callers, Register(k) \/ ThreadStart(k), call[k].command = w
                PROVE  FALSE
            BY <1>0, <3>2, <4>1, <4>2, <5>3
            DEF Register, ThreadStart, At, StartsApart, UnregisteredIsFree, Unregistered, Resting
          <5> QED
            BY <4>2, <5>1, <5>2, <5>3, WorkerMovedBy
        <4>4. WorkerPath(w, c)
          BY <4>1, <4>3, QuietWorkerSteps
        <4>5. AppendStarted(w)
          BY <2>2, <3>2, <4>1, <4>3, <4>4 DEF WorkerPath, QuietWorker
        <4>6. Adds(c, "command_started")
          BY <4>1, <4>5, OneEventAdded DEF AppendStarted
        <4> QED
          BY <1>0, <4>6, RowsGrow
      <3> QED
        BY <3>1, <3>2
    <2> QED
      BY <2>1, <2>2
  <1>3. exec'[c] = "none" => Rows(c, "stdout")' = {} /\ Rows(c, "stderr")' = {}
    <2>1. exec'[c] = "none" => exec[c] = "none"
      <3>1. ASSUME NEW w \in Commands, Launch(w), Own(w) = c PROVE exec'[c] = "ready"
        BY <3>1 DEF Launch, Shapes, Typed
      <3>2. ExecSteps(c) => exec'[c] # "none"
        BY ExecFrame DEF Shapes, Typed
      <3> QED
        BY <3>1, <3>2, ExecMovedBy
    <2>2. ASSUME exec[c] = "none", NEW t \in {"stdout", "stderr"} PROVE Rows(c, t)' = Rows(c, t)
      BY <2>2, RowsMoved DEF Done
    <2> QED
      BY <1>0, <2>1, <2>2 DEF LoggedOf
  <1>4. exec'[c] = "emitting" =>
          SessionOf(c)' \notin hosted' /\ Cardinality(Rows(c, "stdout")') < MaxOutput
    <2> SUFFICES ASSUME exec'[c] = "emitting"
                 PROVE  SessionOf(c)' \notin hosted' /\ Cardinality(Rows(c, "stdout")') < MaxOutput
      OBVIOUS
    <2>1. CASE exec[c] = "emitting"
      <3>1. SessionOf(c)' = SessionOf(c)
        <4>1. Present(c)
          BY <1>0, <2>1 DEF UnregisteredIsFree, Unregistered
        <4> QED
          BY <4>1, PresentStays
      <3>2. Rows(c, "stdout")' = Rows(c, "stdout")
        BY <2>1, RowsMoved DEF Done
      <3> QED
        BY <1>0, <1>h, <2>1, <3>1, <3>2 DEF LoggedOf
    <2>2. CASE exec[c] # "emitting"
      <3>1. ExecLine(c)
        BY <2>2, ExecEmits
      <3>2. SessionOf(c)' = SessionOf(c) /\ Rows(c, "stdout")' = Rows(c, "stdout")
        BY <3>1 DEF ExecLine, tables, SessionOf, Rows
      <3> QED
        BY <1>h, <3>1, <3>2 DEF ExecLine, Rows
    <2> QED
      BY <2>1, <2>2
  <1>5. Rows(c, "stderr")' # {} \/ (SessionOf(c)' \in hosted' /\ Rows(c, "stdout")' # {}) =>
          /\ exec'[c] \in Done
          /\ \A w \in Commands : worker'[w].command = c => worker'[w].pc \in {"finish", "forget"}
    <2>1. CASE Rows(c, "stderr") # {} \/ (SessionOf(c) \in hosted /\ Rows(c, "stdout") # {})
      <3>1. exec[c] \in Done /\ \A w \in Commands : Own(w) = c => worker[w].pc \in {"finish", "forget"}
        BY <1>0, <2>1 DEF LoggedOf
      <3>2. ASSUME NEW w \in Commands, worker'[w].command = c
            PROVE  worker'[w].pc \in {"finish", "forget"}
        <4>1. Own(w) = c
          <5>1. ASSUME Pop(w), c = Head(queue[Shell(w)]) PROVE FALSE
            BY <1>0, <3>1, <5>1, PopAtQueue DEF QueuedIsFree, Done
          <5> QED
            BY <1>0, <3>2, <5>1, CommandsTaken, NamesAssumption DEF Own
        <4>2. ~QuietWorker(w)
          <5>1. QuietWorker(w) => WorkerPath(w, c)
            BY <4>1, QuietWorkerSteps
          <5> QED
            BY <3>1, <4>1, <5>1 DEF WorkerPath, QuietWorker
        <4>3. worker[w].pc \in {"finish", "forget"}
          BY <3>1, <4>1
        <4>5. ~(PopNothing(w) \/ Pop(w) \/ SetProgress(w) \/ Launch(w))
          BY <4>3 DEF PopNothing, Pop, SetProgress, Launch, WorkerAt
        <4>6. WorkerFinish(w) \/ Forget(w) => worker'[w].pc = "forget" \/ worker'[w].command # c
          BY <1>0, BusyWorkerMoves, ForgetMoves, NamesAssumption
        <4>7. ASSUME NEW k \in Callers, Register(k) \/ ThreadStart(k), call[k].command = w
              PROVE  FALSE
          BY <1>0, <4>3, <4>7
          DEF Register, ThreadStart, At, StartsApart, UnregisteredIsFree, Unregistered
        <4> QED
          BY <3>2, <4>2, <4>3, <4>5, <4>6, <4>7, WorkerMovedBy
      <3> QED
        BY <1>e, <3>1, <3>2
    <2>2. CASE ~(Rows(c, "stderr") # {} \/ (SessionOf(c) \in hosted /\ Rows(c, "stdout") # {}))
      <3> SUFFICES ASSUME Rows(c, "stderr")' # {} \/ (SessionOf(c)' \in hosted' /\ Rows(c, "stdout")' # {})
                   PROVE  /\ exec'[c] \in Done
                          /\ \E w \in Commands : worker'[w].command = c /\ worker'[w].pc = "finish"
        BY <1>p DEF OwnersApart, Own
      <3>1. Present(c) => SessionOf(c)' = SessionOf(c)
        BY PresentStays
      <3>2. ~Present(c) => exec[c] = "none" /\ \A w \in Commands : Own(w) # c
        BY <1>0 DEF UnregisteredIsFree, Unregistered
      <3>3. \A t : ~Present(c) => Rows(c, t) = {}
        BY AbsentLogsNothing
      <3>4. \/ Rows(c, "stderr")' # Rows(c, "stderr")
            \/ SessionOf(c) \in hosted /\ Rows(c, "stdout")' # Rows(c, "stdout")
        <4>1. CASE Present(c)
          BY <1>h, <2>2, <3>1, <4>1
        <4>2. CASE ~Present(c)
          BY <2>2, <3>2, <3>3, <4>2, RowsMoved DEF Done
        <4> QED
          BY <4>1, <4>2
      <3>5. ASSUME Rows(c, "stderr")' # Rows(c, "stderr")
            PROVE  /\ exec'[c] \in Done
                   /\ \E w \in Commands : worker'[w].command = c /\ worker'[w].pc = "finish"
        BY <3>5, RowsMoved
      <3>6. ASSUME SessionOf(c) \in hosted, Rows(c, "stdout")' # Rows(c, "stdout")
            PROVE  /\ exec'[c] \in Done
                   /\ \E w \in Commands : worker'[w].command = c /\ worker'[w].pc = "finish"
        BY <3>6, RowsMoved
      <3> QED
        BY <3>4, <3>5, <3>6
    <2> QED
      BY <2>1, <2>2
  <1> QED
    BY <1>1, <1>2, <1>3, <1>4, <1>5 DEF LoggedOf, Own

LEMMA CountedKept ==
  ASSUME Shapes, Places, Progressing, Stored, Counted, [Next]_vars
  PROVE  Counted'
PROOF
  <1>1. Shapes' /\ Places' /\ OwnersKnow
    BY PlacesKept DEF Progressing
  <1> QED
    BY <1>1, LoggedKept, CountsKept DEF Counted

LEMMA InitCounted == Init => Counted
PROOF
  <1> SUFFICES ASSUME Init, NEW c \in Commands PROVE LoggedOf(c) /\ CountsOf(c)
    BY DEF Counted
  <1>1. events[c] = {} /\ exec[c] = "none"
    BY DEF Init, Tables!Init
  <1>2. \A w \in Commands : Own(w) # c
    BY NamesAssumption DEF Init, NoWorker, Own
  <1>3. \A t : Rows(c, t) = {}
    BY <1>1 DEF Rows
  <1>4. MaxOutput \in Nat
    BY CallsAssumption
  <1>5. LoggedOf(c)
    BY <1>1, <1>2, <1>3 DEF LoggedOf
  <1>6. CountsOf(c)
    BY <1>1, <1>3, <1>4, FS_EmptySet DEF CountsOf
  <1> QED
    BY <1>5, <1>6

-----------------------------------------------------------------------------
(* The service uses the store *)

\* The events of a command are its start, its output, its errors and its end.
LEMMA EventsCounted ==
  ASSUME Stored, NEW c \in Commands, CountsOf(c)
  PROVE  /\ Tables!NextSeq(c) \in Nat
         /\ \A t : Cardinality(Rows(c, t)) \in Nat
         /\ Tables!NextSeq(c) <= Cardinality(Rows(c, "command_started")) + Cardinality(Rows(c, "stdout"))
                                 + Cardinality(Rows(c, "stderr")) + 2
         /\ ~Tables!IsTerminal(c) =>
              Tables!NextSeq(c) <= Cardinality(Rows(c, "command_started"))
                                   + Cardinality(Rows(c, "stdout")) + Cardinality(Rows(c, "stderr")) + 1
PROOF
  <1> DEFINE A == Rows(c, "command_started")
             B == Rows(c, "stdout")
             C == Rows(c, "stderr")
             D == Ends(c)
  <1>1. PICK n \in Nat : Tables!NextSeq(c) = n + 1 /\ Cardinality(events[c]) = n
    BY EventsNumbered
  <1>2. events[c] = ((A \cup B) \cup C) \cup D
    <2>1. events[c] \subseteq Tables!EventRows
      BY EventsNumbered
    <2> QED
      BY <2>1 DEF Tables!EventRows, Tables!EventTypes, Tables!OutputEvents, Rows, Ends
  <1>3. IsFiniteSet(events[c])
    BY DEF CountsOf
  <1>4. IsFiniteSet(A) /\ IsFiniteSet(B) /\ IsFiniteSet(C) /\ IsFiniteSet(D)
    BY <1>3, FS_Subset DEF Rows, Ends
  <1>5. \A t : Cardinality(Rows(c, t)) \in Nat
    BY <1>3, FS_Subset, FS_CardinalityType DEF Rows
  <1>6. IF Tables!IsTerminal(c) THEN Cardinality(D) = 1 ELSE Cardinality(D) = 0
    <2>1. IF Tables!IsTerminal(c) THEN \E e : D = {e} ELSE D = {}
      BY SameTables DEF Stored, StoreProofs!IInv, Tables!TerminalEventMatchesStatus, Ends
    <2> HIDE DEF D
    <2> QED
      BY <2>1, FS_Singleton, FS_EmptySet
  <1> HIDE DEF A, B, C, D
  <1>7. \A S, T : IsFiniteSet(S) /\ IsFiniteSet(T) =>
          /\ IsFiniteSet(S \cup T)
          /\ Cardinality(S \cup T) \in Nat /\ Cardinality(S) \in Nat /\ Cardinality(T) \in Nat
          /\ Cardinality(S \cup T) <= Cardinality(S) + Cardinality(T)
    <2> SUFFICES ASSUME NEW S, NEW T, IsFiniteSet(S), IsFiniteSet(T)
                 PROVE  /\ IsFiniteSet(S \cup T)
                        /\ Cardinality(S \cup T) \in Nat /\ Cardinality(S) \in Nat
                        /\ Cardinality(T) \in Nat
                        /\ Cardinality(S \cup T) <= Cardinality(S) + Cardinality(T)
      OBVIOUS
    <2>1. /\ IsFiniteSet(S \cup T)
          /\ Cardinality(S \cup T) = Cardinality(S) + Cardinality(T) - Cardinality(S \cap T)
      BY FS_Union
    <2>2. IsFiniteSet(S \cap T)
      BY FS_Intersection
    <2>3. /\ Cardinality(S \cap T) \in Nat /\ Cardinality(S) \in Nat
          /\ Cardinality(T) \in Nat /\ Cardinality(S \cup T) \in Nat
      BY <2>1, <2>2, FS_CardinalityType
    <2> QED
      BY <2>1, <2>3
  <1>8. n <= Cardinality(A) + Cardinality(B) + Cardinality(C) + Cardinality(D)
    <2>1. /\ IsFiniteSet(A \cup B) /\ Cardinality(A \cup B) <= Cardinality(A) + Cardinality(B)
          /\ Cardinality(A) \in Nat /\ Cardinality(B) \in Nat /\ Cardinality(A \cup B) \in Nat
      BY <1>4, <1>7
    <2>2. /\ IsFiniteSet((A \cup B) \cup C)
          /\ Cardinality((A \cup B) \cup C) <= Cardinality(A \cup B) + Cardinality(C)
          /\ Cardinality(C) \in Nat /\ Cardinality((A \cup B) \cup C) \in Nat
      BY <1>4, <1>7, <2>1
    <2>3. /\ n <= Cardinality((A \cup B) \cup C) + Cardinality(D)
          /\ Cardinality(D) \in Nat
      BY <1>1, <1>2, <1>4, <1>7, <2>2
    <2> QED
      BY <2>1, <2>2, <2>3
  <1> QED
    BY <1>1, <1>5, <1>6, <1>8 DEF A, B, C

\* What is added to a log was not there, or there is room for it.
LEMMA AddsRoom ==
  ASSUME Shapes, Places, OwnersKnow, Stored, Counted, [Next]_vars, NEW c \in Commands,
         NEW type \in {"command_started", "stdout", "stderr"}, Adds(c, type)
  PROVE  Tables!NextSeq(c) <= MaxOutput + 3
PROOF
  <1>0. CountsOf(c) /\ LoggedOf(c) /\ MaxOutput \in Nat
    BY CallsAssumption DEF Counted
  <1>1. Rows(c, type)' # Rows(c, type)
    BY <1>0, RowsGrow
  <1>2. /\ type = "command_started" => Rows(c, "command_started") = {}
        /\ type = "stderr" => Rows(c, "stderr") = {}
        /\ type = "stdout" => Cardinality(Rows(c, "stdout")) < MaxOutput
    <2>1. ASSUME type = "command_started",
                 \E w \in Commands : Own(w) = c /\ worker[w].pc = "started"
          PROVE  Rows(c, "command_started") = {}
      BY <1>0, <2>1 DEF LoggedOf, NotStarted, BeforeStart
    <2>2. ASSUME \E w \in Commands : Own(w) = c /\ worker[w].pc \in {"output", "stderr"}
          PROVE  Rows(c, "stderr") = {} /\ (SessionOf(c) \in hosted => Rows(c, "stdout") = {})
      BY <1>0, <2>2 DEF LoggedOf
    <2>3. type = "stdout" /\ exec[c] # "emitting" => MaxOutput > 0
      <3>1. \A t \in Tables!Terminal : Adds(c, Tables!TerminalEvent[t]) => type = Tables!TerminalEvent[t]
        BY <1>0, <1>1, RowsGrow
      <3>2. Adds(c, "stderr") => type = "stderr"
        BY <1>0, <1>1, RowsGrow
      <3>3. Adds(c, "command_started") => type = "command_started"
        BY <1>0, <1>1, RowsGrow
      <3>4. events'[c] # events[c]
        BY DEF Adds
      <3> QED
        BY <3>1, <3>2, <3>3, <3>4, LogMoves, EndTypes
    <2> QED
      BY <1>0, <1>1, <2>1, <2>2, <2>3, RowsMoved, FS_EmptySet DEF LoggedOf
  <1>3. /\ type = "command_started" => Cardinality(Rows(c, "command_started")) = 0
        /\ type = "stderr" => Cardinality(Rows(c, "stderr")) = 0
    BY <1>2, FS_EmptySet
  <1> DEFINE A == Cardinality(Rows(c, "command_started"))
             B == Cardinality(Rows(c, "stdout"))
             C == Cardinality(Rows(c, "stderr"))
             N == Tables!NextSeq(c)
  <1>4. /\ N \in Nat /\ A \in Nat /\ B \in Nat /\ C \in Nat
        /\ N <= A + B + C + 2
    BY <1>0, EventsCounted
  <1>5. A <= 1 /\ B <= MaxOutput /\ C <= 1
    BY <1>0 DEF CountsOf
  <1>6. \/ A = 0 \/ C = 0 \/ B < MaxOutput
    BY <1>2, <1>3
  <1> HIDE DEF A, B, C, N
  <1>7. N <= MaxOutput + 3
    BY <1>0, <1>4, <1>5, <1>6
  <1> QED
    BY <1>7 DEF N

LEMMA BatchesOfOne ==
  \A t \in {"command_started", "stdout", "stderr"} : <<t>> \in Tables!Batches
PROOF
  <1> DEFINE first == [i \in {1} |-> "command_started"]
             streams == {[1..n -> {u}] : n \in 1..1, u \in Tables!OutputEvents}
  <1>1. Tables!Batches = {first} \cup (UNION streams)
    BY DEF Tables!Batches
  <1>2. <<"command_started">> = first
    OBVIOUS
  <1>3. \A u \in Tables!OutputEvents : [1..1 -> {u}] \in streams
    OBVIOUS
  <1>4. \A u : <<u>> \in [1..1 -> {u}]
    OBVIOUS
  <1> HIDE DEF first, streams
  <1>5. <<"command_started">> \in Tables!Batches
    BY <1>1, <1>2
  <1>6. \A u \in Tables!OutputEvents : <<u>> \in Tables!Batches
    BY <1>1, <1>3, <1>4
  <1> QED
    BY <1>5, <1>6 DEF Tables!OutputEvents

\* Every step of the service is one transaction of the store or none.
LEMMA StoreStep ==
  ASSUME Shapes, Places, OwnersKnow, Stored, Counted, [Next]_vars
  PROVE  [Tables!Next]_Tables!tables
PROOF
  <1> DEFINE Goal == Tables!Next \/ UNCHANGED tables
  <1>0. Tables!tables = tables
    BY DEF Tables!tables, tables
  <1>k. /\ call \in [Callers -> Calls]
        /\ \A k \in Callers : call[k].pc # "idle" => call[k].session \in Sessions
        /\ \A k \in Callers : At(k, "insert") => call[k].command \in Commands
        /\ \A w \in Commands : worker[w].pc # "none" => Shell(w) \in Sessions
        /\ \A w \in Commands : worker[w].pc \notin Resting => Own(w) \in Commands
    BY DEF Shapes, CallsShaped, WorkersShaped, Workers, References, RowOf, SessionOf, Shell, Own, At, StartPcs
  <1>1. ASSUME NEW s \in Sessions,
               \/ Tables!CreateSession(s)
               \/ Tables!UpdateSession(s, "running", FALSE)
               \/ \E st \in {"closed", "crashed"} : Tables!UpdateSession(s, st, TRUE)
        PROVE  Tables!Next
    BY <1>1 DEF Tables!Next, Tables!EndedSession
  <1>2. ASSUME NEW c \in Commands,
               \/ \E s \in Sessions : Tables!CreateCommand(c, s)
               \/ \E st \in {"starting", "running"} : Tables!UpdateCommand(c, st)
        PROVE  Tables!Next
    BY <1>2 DEF Tables!Next, Tables!Progress
  <1>3. ASSUME NEW c \in Commands, NEW t \in {"command_started", "stdout", "stderr"},
               Tables!AppendEvents(c, <<t>>)
        PROVE  Tables!Next
    <2>1. Tables!NextSeq(c) <= MaxOutput + 3
      BY <1>3, OneEventAdded, AddsRoom
    <2> QED
      BY <1>3, <2>1, BatchesOfOne DEF Tables!Next
  <1>4. ASSUME NEW c \in Commands, NEW st \in Tables!Terminal, Tables!FinishCommand(c, st)
        PROVE  Goal
    <2>1. CASE Tables!IsTerminal(c)
      BY <1>4, <2>1 DEF Tables!FinishCommand, Tables!tables, tables
    <2>2. CASE ~Tables!IsTerminal(c)
      <3>1. Tables!NextSeq(c) <= MaxOutput + 3
        BY <2>2, EventsCounted, CallsAssumption DEF Counted, CountsOf
      <3> QED
        BY <1>4, <3>1 DEF Tables!Next
    <2> QED
      BY <2>1, <2>2
  <1>5. ASSUME NEW k \in Callers, QuietCall(k) PROVE Goal
    <2>1. CASE \E s \in Sessions : CreateBegin(k, s)
      BY <1>1, <2>1 DEF CreateBegin
    <2>2. CASE SetRunning(k)
      BY <1>1, <1>k, <2>2 DEF SetRunning, At
    <2>3. CASE CreateCrash(k) \/ Mark(k) \/ Stamp(k)
      BY <1>1, <1>k, <2>3 DEF CreateCrash, Mark, Stamp, At
    <2>4. CASE \/ \E s \in Sessions, c \in Commands : StartBegin(k, s, c)
               \/ \E c \in Commands : CancelBegin(k, c)
      BY <2>4 DEF StartBegin, CancelBegin
    <2>5. CASE Spawn(k) \/ Adopt(k) \/ CreateClose(k) \/ CancelLock(k) \/ SetEvents(k)
      BY <2>5 DEF Spawn, Adopt, CreateClose, CancelLock, SetEvents
    <2>6. CASE Kill(k) \/ Drop(k) \/ Join(k) \/ Shut(k)
      BY <2>6 DEF Kill, Drop, Join, Shut
    <2> QED
      BY <1>5, <2>1, <2>2, <2>3, <2>4, <2>5, <2>6 DEF QuietCall
  <1>6. ASSUME NEW k \in Callers,
               \/ Insert(k) \/ Register(k) \/ ThreadStart(k) \/ Finish(k)
               \/ \E s \in Sessions : CloseBegin(k, s)
        PROVE  Goal
    <2>1. CASE Insert(k)
      BY <1>2, <1>k, <2>1 DEF Insert, At
    <2>2. CASE Finish(k)
      BY <1>4, <2>2, FinishMoves DEF Finish, Tables!Terminal
    <2>3. CASE Register(k) \/ ThreadStart(k) \/ \E s \in Sessions : CloseBegin(k, s)
      BY <2>3 DEF Register, ThreadStart, CloseBegin, CloseTaking
    <2> QED
      BY <1>6, <2>1, <2>2, <2>3
  <1>7. ASSUME NEW w \in Commands, QuietWorker(w) PROVE Goal
    <2>0. Own(w) \in Commands /\ Shell(w) \in Sessions
      BY <1>k, <1>7, QuietWorkerFrame DEF Resting
    <2>1. CASE AppendStarted(w) \/ AppendOutput(w) \/ AppendStderr(w)
      BY <1>3, <2>0, <2>1 DEF AppendStarted, AppendOutput, AppendStderr
    <2>2. CASE WorkerMark(w)
      BY <1>1, <2>0, <2>2 DEF WorkerMark
    <2>3. CASE CheckCanceled(w) \/ CheckLive(w) \/ Watch(w) \/ WatchCancel(w) \/ WatchDeadline(w)
      BY <2>3 DEF CheckCanceled, CheckLive, Watch, WatchCancel, WatchDeadline
    <2>4. CASE WorkerKill(w) \/ Ended(w) \/ WorkerError(w) \/ Confirm(w) \/ WorkerDrop(w)
      BY <2>4 DEF WorkerKill, Ended, WorkerError, Confirm, WorkerDrop
    <2> QED
      BY <1>7, <2>1, <2>2, <2>3, <2>4 DEF QuietWorker
  <1>8. ASSUME NEW w \in Commands,
               PopNothing(w) \/ Pop(w) \/ SetProgress(w) \/ Launch(w) \/ WorkerFinish(w) \/ Forget(w)
        PROVE  Goal
    <2>1. CASE SetProgress(w)
      <3>1. Own(w) \in Commands
        BY <1>k, <2>1 DEF SetProgress, WorkerAt, Resting
      <3> QED
        BY <1>2, <2>1, <3>1 DEF SetProgress
    <2>2. CASE WorkerFinish(w)
      <3>1. Own(w) \in Commands /\ worker[w].outcome \in Tables!Terminal
        BY <1>k, <2>2 DEF WorkerFinish, WorkerAt, Resting, Shapes, WorkersShaped, NeedsOutcome, EndingPcs
      <3> QED
        BY <1>4, <2>2, <3>1 DEF WorkerFinish
    <2>3. CASE PopNothing(w) \/ Pop(w) \/ Launch(w) \/ Forget(w)
      BY <2>3 DEF PopNothing, Pop, Launch, Forget
    <2> QED
      BY <1>8, <2>1, <2>2, <2>3
  <1>9. ASSUME NEW c \in Commands, ExecSteps(c) PROVE Goal
    <2>1. CASE ExecEmit(c)
      BY <1>3, <2>1 DEF ExecEmit
    <2>2. CASE ExecRefused(c) \/ ExecCheck(c) \/ ExecLock(c) \/ ExecLine(c) \/ ExecEnd(c) \/ ExecEof(c)
      BY <2>2 DEF ExecRefused, ExecCheck, ExecLock, ExecLine, ExecEnd, ExecEof
    <2> QED
      BY <1>9, <2>1, <2>2 DEF ExecSteps
  <1>10. UNCHANGED vars \/ (\E s \in Sessions : ShellEnds(s)) => UNCHANGED tables
    BY DEF vars, ShellEnds, ShellExits, Finalize
  <1> QED
    BY <1>0, <1>5, <1>6, <1>7, <1>8, <1>9, <1>10, NextCases DEF Tables!tables, tables

-----------------------------------------------------------------------------
(* The core of the invariant *)

Core == Shapes /\ Places /\ Progressing /\ Stored /\ Counted

LEMMA InitCore == Init => Core
PROOF
  BY InitShapes, InitPlaces, InitProgressing, InitStored, InitCounted DEF Core

LEMMA CoreKept ==
  ASSUME Core, [Next]_vars
  PROVE  Core' /\ [Tables!Next]_Tables!tables
PROOF
  <1>1. Shapes' /\ Places'
    BY PlacesKept DEF Core
  <1>2. Progressing'
    BY ProgressingKept DEF Core
  <1>3. Counted'
    BY CountedKept DEF Core
  <1>4. [Tables!Next]_Tables!tables
    BY StoreStep DEF Core, Progressing
  <1>5. Stored'
    BY <1>4, StoredKept DEF Core
  <1> QED
    BY <1>1, <1>2, <1>3, <1>4, <1>5 DEF Core

LEMMA CoreInvariant == Spec => []Core
PROOF
  <1>1. Init => Core
    BY InitCore
  <1>2. Core /\ [Next]_vars => Core'
    BY CoreKept
  <1> QED
    BY <1>1, <1>2, PTL DEF Spec

\* Whatever the threads do, the tables only ever change by one transaction of
\* the store at a time, with room for the event it appends, so what
\* CommandStoreProofs proves of every use of the tables holds here: one
\* terminal event that matches the status, numbers without a gap.
THEOREM StoreImplemented == Spec => ImplementsStore
PROOF
  <1>1. Init => Tables!Init
    BY DEF Init
  <1>2. Core /\ [Next]_vars => [Tables!Next]_Tables!tables
    BY CoreKept
  <1> QED
    BY <1>1, <1>2, CoreInvariant, PTL DEF Spec, ImplementsStore, Tables!Spec

\* Every variable is of its type, and no row, queue entry or thread refers to a
\* row that is not there.
THEOREM Types == Spec => []TypeOK
PROOF
  <1>1. Core => TypeOK
    <2>1. Core => Tables!TypeOK
      BY SameTables DEF Core, Stored, StoreProofs!IInv
    <2> QED
      BY <2>1 DEF Core, Shapes, Typed, CallsShaped, WorkersShaped, TypeOK
  <1> QED
    BY <1>1, CoreInvariant, PTL

-----------------------------------------------------------------------------
(* The ways of the calls *)

SameErrand(k) ==
  /\ call'[k].op = call[k].op /\ call'[k].session = call[k].session
  /\ call'[k].command = call[k].command /\ call'[k].handle = call[k].handle
  /\ call'[k].closes = call[k].closes /\ call'[k].events = call[k].events
  /\ call'[k].todo = call[k].todo

\* How each quiet step takes its call on.
CallPath(k) ==
  LET p == call[k].pc
      q == call'[k].pc
  IN  /\ \A s \in Sessions : CreateBegin(k, s) =>
           p = "idle" /\ q = "spawn" /\ call'[k].session = s /\ call'[k].op = "create"
      /\ \A s \in Sessions, c \in Commands : StartBegin(k, s, c) =>
           /\ p = "idle" /\ q = "insert" /\ call'[k].op = "start"
           /\ call'[k].session = s /\ call'[k].command = c
      /\ \A c \in Commands : CancelBegin(k, c) =>
           /\ p = "idle" /\ q = "cancel_lock" /\ call'[k].op = "cancel"
           /\ call'[k].session = SessionOf(c) /\ call'[k].command = c /\ call'[k].todo = {c}
           /\ call'[k].events = {} /\ call'[k].closes = (command[c].status # "queued")
      /\ Spawn(k) => p = "spawn" /\ q \in {"adopt", "create_crash"} /\ SameErrand(k)
      /\ Adopt(k) => p = "adopt" /\ q = "set_running" /\ SameErrand(k)
      /\ SetRunning(k) =>
           p = "set_running" /\ (q = "idle" \/ (q = "create_close" /\ SameErrand(k)))
      /\ CreateClose(k) => p = "create_close" /\ q = "create_crash" /\ SameErrand(k)
      /\ CreateCrash(k) => p = "create_crash" /\ q = "idle"
      /\ CancelLock(k) =>
           /\ p = "cancel_lock" /\ q = "set" /\ call'[k].op = call[k].op
           /\ call'[k].session = call[k].session /\ call'[k].command = call[k].command
           /\ call'[k].todo = call[k].todo /\ call'[k].closes = call[k].closes
           /\ call'[k].handle = live[call[k].session]
           /\ call'[k].events = {call[k].command} \cap cancels
      /\ SetEvents(k) =>
           p = "set" /\ q = (IF call[k].closes THEN "kill" ELSE "finish") /\ SameErrand(k)
      /\ Kill(k) => p = "kill" /\ q = "mark" /\ SameErrand(k)
      /\ Mark(k) => p = "mark" /\ q = "drop" /\ SameErrand(k)
      /\ Drop(k) => p = "drop" /\ q = "finish" /\ SameErrand(k)
      /\ Join(k) => p = "join" /\ (q = "idle" \/ (q = "stamp" /\ SameErrand(k)))
      /\ Shut(k) => p = "shut" /\ q \in {"stamp", "stamp_crashed"} /\ SameErrand(k)
      /\ Stamp(k) => p \in {"stamp", "stamp_crashed"} /\ q = "idle"

LEMMA QuietCallSteps ==
  ASSUME call \in [Callers -> Calls], NEW k \in Callers
  PROVE  CallPath(k)
PROOF
  <1>1. \A pc \in CallPcs : Goto(k, pc) => call'[k].pc = pc /\ SameErrand(k)
    BY CallMoves DEF SameErrand
  <1>2. Return(k) => call'[k].pc = "idle"
    BY CallReturns
  <1>3. {"adopt", "create_crash", "set_running", "create_close", "kill", "finish", "mark", "drop",
         "stamp", "stamp_crashed"} \subseteq CallPcs
    BY DEF CallPcs
  <1>4. \A r : call' = [call EXCEPT ![k] = r] => call'[k] = r
    OBVIOUS
  <1>5. ASSUME NEW s \in Sessions, CreateBegin(k, s)
        PROVE  At(k, "idle") /\ call'[k].pc = "spawn" /\ call'[k].session = s /\ call'[k].op = "create"
    BY <1>5 DEF CreateBegin, NoCall, Begins
  <1>6. ASSUME NEW s \in Sessions, NEW c \in Commands, StartBegin(k, s, c)
        PROVE  /\ At(k, "idle") /\ call'[k].pc = "insert" /\ call'[k].op = "start"
               /\ call'[k].session = s /\ call'[k].command = c
    BY <1>6 DEF StartBegin, NoCall, Begins
  <1>7. ASSUME NEW c \in Commands, CancelBegin(k, c)
        PROVE  /\ At(k, "idle") /\ call'[k].pc = "cancel_lock" /\ call'[k].op = "cancel"
               /\ call'[k].session = SessionOf(c) /\ call'[k].command = c /\ call'[k].todo = {c}
               /\ call'[k].events = {} /\ call'[k].closes = (command[c].status # "queued")
    <2> DEFINE r == [NoCall EXCEPT !.pc = "cancel_lock", !.op = "cancel", !.session = SessionOf(c),
                               !.command = c, !.todo = {c},
                               !.closes = command[c].status # "queued"]
    <2>1. call' = [call EXCEPT ![k] = r] /\ At(k, "idle")
      BY <1>7 DEF CancelBegin, Begins
    <2>2. call'[k] = r
      BY <1>4, <2>1
    <2>3. /\ r.pc = "cancel_lock" /\ r.op = "cancel" /\ r.session = SessionOf(c) /\ r.command = c
          /\ r.todo = {c} /\ r.events = {} /\ r.closes = (command[c].status # "queued")
      BY DEF NoCall
    <2> HIDE DEF r
    <2> QED
      BY <2>1, <2>2, <2>3
  <1>8. ASSUME CancelLock(k)
        PROVE  /\ At(k, "cancel_lock") /\ call'[k].pc = "set" /\ call'[k].op = call[k].op
               /\ call'[k].session = call[k].session /\ call'[k].command = call[k].command
               /\ call'[k].todo = call[k].todo /\ call'[k].closes = call[k].closes
               /\ call'[k].handle = live[call[k].session]
               /\ call'[k].events = {call[k].command} \cap cancels
    <2> DEFINE r == [call[k] EXCEPT !.pc = "set", !.handle = live[call[k].session],
                                    !.events = {call[k].command} \cap cancels,
                                    !.joins = {threadOf[call[k].command]} \ {NoThread}]
    <2>1. call' = [call EXCEPT ![k] = r] /\ At(k, "cancel_lock")
      BY <1>8 DEF CancelLock
    <2>2. call'[k] = r
      BY <1>4, <2>1
    <2>3. call[k] \in Calls
      OBVIOUS
    <2>4. /\ r.pc = "set" /\ r.op = call[k].op /\ r.session = call[k].session
          /\ r.command = call[k].command /\ r.todo = call[k].todo /\ r.closes = call[k].closes
          /\ r.handle = live[call[k].session] /\ r.events = {call[k].command} \cap cancels
      BY <2>3 DEF Calls
    <2> HIDE DEF r
    <2> QED
      BY <2>1, <2>2, <2>4
  <1>9. /\ Spawn(k) => At(k, "spawn") /\ call'[k].pc \in {"adopt", "create_crash"} /\ SameErrand(k)
        /\ Adopt(k) => At(k, "adopt") /\ call'[k].pc = "set_running" /\ SameErrand(k)
        /\ SetRunning(k) => /\ At(k, "set_running")
                            /\ call'[k].pc = "idle" \/ (call'[k].pc = "create_close" /\ SameErrand(k))
        /\ CreateClose(k) => At(k, "create_close") /\ call'[k].pc = "create_crash" /\ SameErrand(k)
        /\ CreateCrash(k) => At(k, "create_crash") /\ call'[k].pc = "idle"
    BY <1>1, <1>2, <1>3 DEF Spawn, Adopt, SetRunning, CreateClose, CreateCrash
  <1>10. /\ SetEvents(k) => /\ At(k, "set") /\ SameErrand(k)
                            /\ call'[k].pc = IF call[k].closes THEN "kill" ELSE "finish"
         /\ Kill(k) => At(k, "kill") /\ call'[k].pc = "mark" /\ SameErrand(k)
         /\ Mark(k) => At(k, "mark") /\ call'[k].pc = "drop" /\ SameErrand(k)
         /\ Drop(k) => At(k, "drop") /\ call'[k].pc = "finish" /\ SameErrand(k)
    BY <1>1, <1>3 DEF SetEvents, Kill, Mark, Drop
  <1>11. /\ Join(k) => /\ At(k, "join")
                       /\ call'[k].pc = "idle" \/ (call'[k].pc = "stamp" /\ SameErrand(k))
         /\ Shut(k) => At(k, "shut") /\ call'[k].pc \in {"stamp", "stamp_crashed"} /\ SameErrand(k)
         /\ Stamp(k) => (At(k, "stamp") \/ At(k, "stamp_crashed")) /\ call'[k].pc = "idle"
    BY <1>1, <1>2, <1>3 DEF Join, Shut, Stamp
  <1> HIDE DEF SameErrand
  <1> QED
    BY <1>5, <1>6, <1>7, <1>8, <1>9, <1>10, <1>11 DEF CallPath, At

-----------------------------------------------------------------------------
(* New sessions have no commands *)

LEMMA SessionMoves ==
  ASSUME Shapes, [Next]_vars, NEW s \in Sessions
  PROVE  \/ session'[s] = session[s]
         \/ \E k \in Callers :
              CreateBegin(k, s) /\ session[s].status = "absent" /\ session'[s].status = "starting"
         \/ \E k \in Callers :
              /\ SetRunning(k) /\ call[k].session = s
              /\ session[s].status # "absent" /\ session'[s].status = "running"
         \/ session[s].status # "absent" /\ session'[s].status \in {"closed", "crashed"}
PROOF
  <1>0. session \in [Sessions -> Tables!SessionRows]
    BY DEF Shapes, Typed
  <1> DEFINE Over == session[s].status # "absent" /\ session'[s].status \in {"closed", "crashed"}
  <1>a. ASSUME NEW r, Tables!CreateSession(r), session'[s] # session[s]
        PROVE  r = s /\ session[s].status = "absent" /\ session'[s].status = "starting"
    BY <1>0, <1>a DEF Tables!CreateSession
  <1>b. ASSUME NEW r, NEW st, NEW closes, Tables!UpdateSession(r, st, closes), session'[s] # session[s]
        PROVE  r = s /\ session[s].status # "absent" /\ session'[s].status = st
    BY <1>0, <1>b DEF Tables!UpdateSession
  <1>1. ASSUME NEW k \in Callers, QuietCall(k), session'[s] # session[s]
        PROVE  \/ CreateBegin(k, s) /\ session[s].status = "absent" /\ session'[s].status = "starting"
               \/ /\ SetRunning(k) /\ call[k].session = s
                  /\ session[s].status # "absent" /\ session'[s].status = "running"
               \/ Over
    <2>1. CASE \E r \in Sessions : CreateBegin(k, r)
      BY <1>1, <2>1, <1>a DEF CreateBegin
    <2>2. CASE SetRunning(k)
      BY <1>1, <2>2, <1>b DEF SetRunning, tables
    <2>3. CASE CreateCrash(k) \/ Mark(k) \/ Stamp(k)
      BY <1>1, <2>3, <1>b DEF CreateCrash, Mark, Stamp
    <2>4. CASE (\E r \in Sessions, c \in Commands : StartBegin(k, r, c)) \/ \E c \in Commands : CancelBegin(k, c)
      BY <1>1, <2>4 DEF StartBegin, CancelBegin, tables
    <2>5. CASE Spawn(k) \/ Adopt(k) \/ CreateClose(k) \/ CancelLock(k) \/ SetEvents(k)
      BY <1>1, <2>5 DEF Spawn, Adopt, CreateClose, CancelLock, SetEvents, tables
    <2>6. CASE Kill(k) \/ Drop(k) \/ Join(k) \/ Shut(k)
      BY <1>1, <2>6 DEF Kill, Drop, Join, Shut, tables
    <2> HIDE DEF Over
    <2> QED
      BY <1>1, <2>1, <2>2, <2>3, <2>4, <2>5, <2>6, Zenon DEF QuietCall
  <1>2. ASSUME NEW w \in Commands, QuietWorker(w), session'[s] # session[s] PROVE Over
    <2>1. CASE WorkerMark(w)
      BY <1>2, <2>1, <1>b DEF WorkerMark
    <2>2. CASE AppendStarted(w) \/ AppendOutput(w) \/ AppendStderr(w)
      BY <1>2, <2>2 DEF AppendStarted, AppendOutput, AppendStderr, Tables!AppendEvents, tables
    <2>3. CASE CheckCanceled(w) \/ CheckLive(w) \/ Watch(w) \/ WatchCancel(w) \/ WatchDeadline(w)
      BY <1>2, <2>3 DEF CheckCanceled, CheckLive, Watch, WatchCancel, WatchDeadline, tables
    <2>4. CASE WorkerKill(w) \/ Ended(w) \/ WorkerError(w) \/ Confirm(w) \/ WorkerDrop(w)
      BY <1>2, <2>4 DEF WorkerKill, Ended, WorkerError, Confirm, WorkerDrop, tables
    <2> QED
      BY <1>2, <2>1, <2>2, <2>3, <2>4 DEF QuietWorker
  <1>3. ASSUME NEW k \in Callers,
               \/ Insert(k) \/ Register(k) \/ ThreadStart(k) \/ Finish(k)
               \/ \E r \in Sessions : CloseBegin(k, r)
        PROVE  session' = session
    BY <1>3
    DEF Insert, Register, ThreadStart, Finish, CloseBegin, CloseTaking, tables,
        Tables!CreateCommand, Tables!FinishCommand, Tables!tables
  <1>4. ASSUME NEW w \in Commands,
               PopNothing(w) \/ Pop(w) \/ SetProgress(w) \/ Launch(w) \/ WorkerFinish(w) \/ Forget(w)
        PROVE  session' = session
    BY <1>4
    DEF PopNothing, Pop, SetProgress, Launch, WorkerFinish, Forget, tables,
        Tables!UpdateCommand, Tables!FinishCommand, Tables!tables
  <1>5. UNCHANGED vars \/ (\E r \in Sessions : ShellEnds(r)) => session' = session
    BY DEF vars, tables, ShellEnds, ShellExits, Finalize
  <1> HIDE DEF Over
  <1>6. Over => session[s].status # "absent" /\ session'[s].status \in {"closed", "crashed"}
    BY DEF Over
  <1> QED
    BY <1>1, <1>2, <1>3, <1>4, <1>5, <1>6, NextCases, ExecFrame

\* A row comes from its start call.
LEMMA PresentBefore ==
  ASSUME Shapes, [Next]_vars, NEW c \in Commands, ~Present(c), Present(c)'
  PROVE  \E k \in Callers : /\ Insert(k) /\ At(k, "insert") /\ call[k].command = c
                             /\ SessionOf(c)' = call[k].session
PROOF
  <1>1. ASSUME NEW k \in Callers, Insert(k), call[k].command = c
        PROVE  At(k, "insert") /\ SessionOf(c)' = call[k].session
    BY <1>1 DEF Insert, Tables!CreateCommand, SessionOf, Shapes, Typed
  <1>2. \A k \in Callers : ~(Finish(k) /\ call[k].command = c)
    BY DEF Finish, Tables!FinishCommand, Present
  <1>3. \A w \in Commands : ~(WorkerFinish(w) /\ Own(w) = c)
    BY DEF WorkerFinish, Tables!FinishCommand, Present
  <1>4. \A w \in Commands : ~(SetProgress(w) /\ Own(w) = c /\ command'[c] # command[c])
    BY DEF SetProgress, Tables!UpdateCommand, Present, tables
  <1> QED
    BY <1>1, <1>2, <1>3, <1>4, CommandMovedBy DEF Present

LEMMA CreatorsMove ==
  ASSUME Shapes, [Next]_vars, NEW k \in Callers, Creating(k)'
  PROVE  \/ Creating(k) /\ call'[k].session = call[k].session /\ ~SetRunning(k)
         \/ \E s \in Sessions : /\ CreateBegin(k, s) /\ call'[k].session = s
                                /\ \A j \in Callers : j # k => call'[j] = call[j]
PROOF
  <1>0. call \in [Callers -> Calls]
    BY DEF Shapes, CallsShaped
  <1>1. CallPath(k)
    BY <1>0, QuietCallSteps
  <1>2. SetRunning(k) => At(k, "set_running") /\ call'[k].pc \in {"idle", "create_close"}
    BY <1>1 DEF CallPath, At
  <1>3. CASE call'[k] = call[k]
    BY <1>2, <1>3 DEF Creating
  <1>4. CASE QuietCall(k)
    <2>1. CASE \E s \in Sessions : CreateBegin(k, s)
      BY <1>1, <1>4, <2>1, QuietCallMoves DEF CallPath
    <2>2. CASE ~\E s \in Sessions : CreateBegin(k, s)
      BY <1>1, <1>2, <1>4, <2>2 DEF CallPath, SameErrand, QuietCall, Creating
    <2> QED
      BY <2>1, <2>2
  <1>5. ~(Insert(k) \/ Register(k) \/ ThreadStart(k) \/ Finish(k) \/ \E s \in Sessions : CloseBegin(k, s))
    BY StartCallMoves, FinishMoves, CloseMoves DEF Creating
  <1> QED
    BY <1>3, <1>4, <1>5, CallMovedBy

\* A session's row is never removed.
LEMMA SessionsStay ==
  ASSUME Shapes, [Next]_vars, NEW s \in Sessions, session[s].status # "absent"
  PROVE  session'[s].status # "absent"
PROOF
  BY SessionMoves

LEMMA NewSessionsKept ==
  ASSUME Core, NewSessions, [Next]_vars
  PROVE  NewSessions'
PROOF
  <1>0. /\ Shapes /\ Tables!TypeOK /\ call \in [Callers -> Calls]
        /\ command \in [Commands -> Tables!CommandRows]
        /\ \A k \in Callers : call[k].pc # "idle" => call[k].session \in Sessions
    BY SameTables DEF Core, Stored, StoreProofs!IInv, Shapes, Typed, CallsShaped
  <1>1. \A k \in Callers : CallPath(k)
    BY <1>0, QuietCallSteps
  <1>2. ASSUME NEW j \in Callers, call'[j].pc = "insert"
        PROVE  \/ At(j, "insert") /\ call'[j].session = call[j].session
               \/ /\ call'[j].session \in Sessions
                  /\ session[call'[j].session].status = "running"
    <2>1. call'[j].pc \in StartPcs /\ call'[j].pc \notin {"register", "thread_start"}
      BY <1>2 DEF StartPcs
    <2>2. \/ call'[j].pc = call[j].pc /\ call'[j].session = call[j].session
          \/ \E s \in Sessions, c \in Commands : StartBegin(j, s, c) /\ call'[j].session = s
      BY <1>0, <2>1, StartersKept
    <2>3. \A s \in Sessions, c \in Commands : StartBegin(j, s, c) => session[s].status = "running"
      BY DEF StartBegin
    <2> QED
      BY <1>2, <2>2, <2>3 DEF At
  <1>3. ASSUME NEW k \in Callers, call'[k].pc = "insert"
        PROVE  session'[call'[k].session].status # "absent"
    <2>1. call'[k].session \in Sessions /\ session[call'[k].session].status # "absent"
      BY <1>0, <1>2, <1>3 DEF NewSessions, At
    <2> QED
      BY <1>0, <2>1, SessionsStay
  <1>4. ASSUME NEW k \in Callers, Creating(k)', NEW s \in Sessions, call'[k].session = s
        PROVE  /\ session'[s].status \notin {"absent", "running"}
               /\ \A c \in Commands : Present(c)' => SessionOf(c)' # s
               /\ \A j \in Callers :
                    /\ call'[j].pc = "insert" => call'[j].session # s
                    /\ j # k /\ Creating(j)' => call'[j].session # s
    <2>1. CASE Creating(k) /\ call[k].session = s /\ ~SetRunning(k)
      <3>1. session[s].status \notin {"absent", "running"}
        BY <2>1 DEF NewSessions
      <3>2. \A j \in Callers : SetRunning(j) /\ call[j].session = s => FALSE
        <4>1. \A j \in Callers : SetRunning(j) => Creating(j)
          BY <1>1 DEF CallPath, Creating
        <4> QED
          BY <2>1, <4>1 DEF NewSessions
      <3>3. session'[s].status \notin {"absent", "running"}
        BY <1>0, <3>1, <3>2, SessionMoves
      <3>4. ASSUME NEW c \in Commands, Present(c)' PROVE SessionOf(c)' # s
        <4>1. CASE Present(c)
          BY <1>0, <2>1, <4>1, PresentStays DEF NewSessions
        <4>2. CASE ~Present(c)
          <5>1. \E j \in Callers : At(j, "insert") /\ SessionOf(c)' = call[j].session
            BY <1>0, <3>4, <4>2, PresentBefore
          <5> QED
            BY <2>1, <5>1 DEF NewSessions
        <4> QED
          BY <4>1, <4>2
      <3>5. ASSUME NEW j \in Callers, call'[j].pc = "insert" PROVE call'[j].session # s
        BY <1>2, <2>1, <3>1, <3>5 DEF NewSessions
      <3>6. ASSUME NEW j \in Callers, j # k, Creating(j)' PROVE call'[j].session # s
        <4>1. CASE Creating(j) /\ call'[j].session = call[j].session
          BY <2>1, <3>6, <4>1 DEF NewSessions
        <4>2. CASE \E r \in Sessions : CreateBegin(j, r) /\ call'[j].session = r
          BY <3>1, <4>2 DEF CreateBegin, Tables!CreateSession
        <4> QED
          BY <1>0, <3>6, <4>1, <4>2, CreatorsMove
      <3> QED
        BY <3>3, <3>4, <3>5, <3>6
    <2>2. CASE CreateBegin(k, s) /\ \A j \in Callers : j # k => call'[j] = call[j]
      <3>1. session[s].status = "absent" /\ session'[s].status = "starting" /\ command' = command
        BY <1>0, <2>2 DEF CreateBegin, Tables!CreateSession, Shapes, Typed
      <3>2. ASSUME NEW c \in Commands, Present(c)' PROVE SessionOf(c)' # s
        BY <1>0, <3>1, <3>2 DEF Present, SessionOf, Tables!TypeOK
      <3>3. call'[k].pc = "spawn"
        BY <1>1, <2>2 DEF CallPath
      <3>4. ASSUME NEW j \in Callers, call'[j].pc = "insert" PROVE call'[j].session # s
        BY <2>2, <3>1, <3>3, <3>4 DEF NewSessions, At
      <3>5. ASSUME NEW j \in Callers, j # k, Creating(j)' PROVE call'[j].session # s
        BY <2>2, <3>1, <3>5 DEF NewSessions, Creating
      <3> QED
        BY <3>1, <3>2, <3>4, <3>5
    <2> QED
      BY <1>0, <1>4, <2>1, <2>2, CreatorsMove
  <1>5. \A k \in Callers : Creating(k)' => call'[k].session \in Sessions
    <2>1. \A k \in Callers : call'[k].pc # "idle" => call'[k].session \in Sessions
      BY <1>0, CallsKept DEF CallsShaped
    <2> QED
      BY <2>1 DEF Creating
  <1> QED
    BY <1>3, <1>4, <1>5 DEF NewSessions, At

LEMMA InitNewSessions == Init => NewSessions
PROOF
  BY DEF Init, NoCall, NewSessions, Creating, At

-----------------------------------------------------------------------------
(* Who killed a command, is kept *)

\* How a worker comes to have a command, and what it does with it.
OwnerPath(w, c) ==
  \/ Own(w) = c /\ worker'[w] = worker[w]
  \/ /\ Own(w) = c /\ QuietWorker(w) /\ WorkerPath(w, c)
     /\ worker'[w].handle = worker[w].handle
  \/ /\ Own(w) = c /\ SetProgress(w)
     /\ worker[w].pc \in {"starting", "running"} /\ worker'[w].pc \in {"started", "launch", "error"}
     /\ worker'[w].handle = worker[w].handle
  \/ /\ Own(w) = c /\ Launch(w) /\ worker[w].pc = "launch" /\ worker'[w].pc = "watch"
     /\ worker'[w].handle = worker[w].handle
  \/ /\ Own(w) = c /\ WorkerFinish(w) /\ worker[w].pc = "finish" /\ worker'[w].pc = "forget"
     /\ worker'[w].handle = worker[w].handle
  \/ /\ Pop(w) /\ Queued(c, Shell(w)) /\ RowOf(c, Shell(w)) /\ Shell(w) \in Sessions
     /\ worker'[w].pc = "screen" /\ worker'[w].handle = live[Shell(w)]

LEMMA OwnersCome ==
  ASSUME Shapes, Places, [Next]_vars, NEW w \in Commands, NEW c \in Commands,
         worker'[w].command = c
  PROVE  OwnerPath(w, c)
PROOF
  <1>0. /\ WorkersShaped /\ References /\ StartsApart /\ UnregisteredIsFree
        /\ live \in [Sessions -> BOOLEAN] /\ c # NoCommand
    BY NamesAssumption DEF Shapes, Typed, Places
  <1>1. CASE Pop(w)
    <2>1. /\ Shell(w) \in Sessions /\ Head(queue[Shell(w)]) \in Commands
          /\ Queued(Head(queue[Shell(w)]), Shell(w)) /\ RowOf(Head(queue[Shell(w)]), Shell(w))
      BY <1>0, <1>1, PopAtQueue DEF Queued, References
    <2>2. /\ worker[w].pc = "pop"
          /\ IF Head(queue[Shell(w)]) \in cancels
             THEN /\ worker'[w].pc = "screen" /\ worker'[w].command = Head(queue[Shell(w)])
                  /\ worker'[w].handle = live[Shell(w)]
             ELSE worker' = worker
      BY <1>0, <1>1, <2>1, PopMoves
    <2>3. Own(w) = NoCommand
      BY <1>0, <2>2 DEF WorkersShaped, Resting
    <2> QED
      BY <1>0, <1>1, <2>1, <2>2, <2>3 DEF OwnerPath, Own
  <1>2. CASE worker'[w] = worker[w]
    BY <1>2 DEF OwnerPath, Own
  <1>3. CASE QuietWorker(w)
    <2>1. Own(w) = c /\ worker'[w].handle = worker[w].handle
      BY <1>0, <1>3, QuietWorkerMoves DEF Own
    <2>2. WorkerPath(w, c)
      BY <1>3, <2>1, QuietWorkerSteps
    <2> QED
      BY <1>3, <2>1, <2>2 DEF OwnerPath
  <1>4. CASE SetProgress(w)
    <2>1. worker'[w].handle = worker[w].handle
      BY <1>0, <1>4 DEF SetProgress, WorkerGoto, WorkersShaped, Workers
    <2> QED
      BY <1>0, <1>4, <2>1, ProgressSteps, BusyWorkerMoves DEF OwnerPath, Own
  <1>5. CASE Launch(w) \/ WorkerFinish(w)
    <2>1. worker'[w].handle = worker[w].handle
      BY <1>0, <1>5 DEF Launch, WorkerFinish, WorkerGoto, WorkersShaped, Workers
    <2> QED
      BY <1>0, <1>5, <2>1, BusyWorkerMoves DEF OwnerPath, Own, Launch, WorkerFinish, WorkerAt
  <1>6. ~(PopNothing(w) \/ Forget(w))
    BY <1>0, BusyWorkerMoves, ForgetMoves
  <1>7. ASSUME NEW k \in Callers, Register(k) \/ ThreadStart(k), call[k].command = w
        PROVE  FALSE
    <2>1. worker[w].pc \in {"none", "unstarted"}
      BY <1>0, <1>7 DEF Register, ThreadStart, At, StartsApart, UnregisteredIsFree, Unregistered
    <2>2. worker'[w].command = NoCommand
      <3>1. \/ worker' = worker \/ \E pc : worker' = [worker EXCEPT ![w].pc = pc]
        BY <1>7 DEF Register, ThreadStart
      <3>2. worker'[w].command = Own(w)
        BY <1>0, <3>1 DEF WorkersShaped, Workers, Own
      <3> QED
        BY <1>0, <2>1, <3>2 DEF WorkersShaped, Resting
    <2> QED
      BY <1>0, <2>2
  <1> QED
    BY <1>1, <1>2, <1>3, <1>4, <1>5, <1>6, <1>7, WorkerMovedBy

\* An execution that has ended has ended; one that has not begun is begun by
\* its worker.
LEMMA ExecStays ==
  ASSUME Shapes, OwnersKnow, [Next]_vars, NEW c \in Commands
  PROVE  /\ exec[c] \in Done => exec'[c] = exec[c]
         /\ exec[c] = "none" /\ exec'[c] # "none" =>
              \E w \in Commands : Launch(w) /\ Own(w) = c /\ worker[w].pc = "launch"
PROOF
  <1>1. ASSUME NEW w \in Commands, Launch(w), Own(w) = c
        PROVE  exec[c] = "none" /\ worker[w].pc = "launch"
    BY <1>1 DEF Launch, WorkerAt, OwnersKnow, Knows, NotLaunched
  <1> QED
    BY <1>1, ExecMovedBy, ExecFrame DEF Done

\* Only create_session lists a session.
LEMMA LiveMoves ==
  ASSUME Shapes, [Next]_vars, NEW s \in Sessions
  PROVE  \/ live'[s] = live[s]
         \/ live'[s] /\ \E k \in Callers : Adopt(k) /\ call[k].pc = "adopt" /\ call[k].session = s
         \/ \E k \in Callers : Drop(k) /\ call[k].pc = "drop" /\ call[k].session = s
         \/ \E k \in Callers : CloseBegin(k, s)
         \/ \E w \in Commands : WorkerDrop(w) /\ worker[w].pc = "drop" /\ Shell(w) = s
PROOF
  <1>0. live \in [Sessions -> BOOLEAN]
    BY DEF Shapes, Typed
  <1> SUFFICES ASSUME live'[s] # live[s]
               PROVE  \/ live'[s] /\ \E k \in Callers : Adopt(k) /\ call[k].pc = "adopt" /\ call[k].session = s
                      \/ \E k \in Callers : Drop(k) /\ call[k].pc = "drop" /\ call[k].session = s
                      \/ \E k \in Callers : CloseBegin(k, s)
                      \/ \E w \in Commands : WorkerDrop(w) /\ worker[w].pc = "drop" /\ Shell(w) = s
    OBVIOUS
  <1>1. ASSUME NEW k \in Callers, QuietCall(k)
        PROVE  \/ live'[s] /\ Adopt(k) /\ call[k].pc = "adopt" /\ call[k].session = s
               \/ Drop(k) /\ call[k].pc = "drop" /\ call[k].session = s
    <2>1. CASE Adopt(k)
      BY <1>0, <2>1 DEF Adopt, At
    <2>2. CASE Drop(k)
      BY <1>0, <2>2 DEF Drop, At
    <2>3. CASE \/ \E r \in Sessions : CreateBegin(k, r)
               \/ \E r \in Sessions, c \in Commands : StartBegin(k, r, c)
               \/ \E c \in Commands : CancelBegin(k, c)
      BY <2>3 DEF CreateBegin, StartBegin, CancelBegin, runtime
    <2>4. CASE Spawn(k) \/ SetRunning(k) \/ CreateClose(k) \/ CreateCrash(k) \/ CancelLock(k)
      BY <2>4 DEF Spawn, SetRunning, CreateClose, CreateCrash, CancelLock, runtime
    <2>5. CASE SetEvents(k) \/ Kill(k) \/ Mark(k) \/ Join(k) \/ Shut(k) \/ Stamp(k)
      BY <2>5 DEF SetEvents, Kill, Mark, Join, Shut, Stamp, runtime
    <2> QED
      BY <1>1, <2>1, <2>2, <2>3, <2>4, <2>5 DEF QuietCall
  <1>2. ASSUME NEW k \in Callers, Insert(k) \/ Register(k) \/ ThreadStart(k) \/ Finish(k) PROVE FALSE
    BY <1>2 DEF Insert, Register, ThreadStart, Finish, runtime
  <1>3. ASSUME NEW k \in Callers, NEW r \in Sessions, CloseBegin(k, r) PROVE r = s
    BY <1>0, <1>3 DEF CloseBegin, CloseTaking
  <1>4. ASSUME NEW w \in Commands, QuietWorker(w)
        PROVE  WorkerDrop(w) /\ worker[w].pc = "drop" /\ Shell(w) = s
    <2>1. CASE WorkerDrop(w)
      BY <1>0, <2>1 DEF WorkerDrop, WorkerAt
    <2>2. CASE AppendStarted(w) \/ AppendOutput(w) \/ AppendStderr(w) \/ WorkerMark(w)
      BY <2>2 DEF AppendStarted, AppendOutput, AppendStderr, WorkerMark, runtime
    <2>3. CASE CheckCanceled(w) \/ CheckLive(w) \/ Watch(w) \/ WatchCancel(w) \/ WatchDeadline(w)
      BY <2>3 DEF CheckCanceled, CheckLive, Watch, WatchCancel, WatchDeadline, runtime
    <2>4. CASE WorkerKill(w) \/ Ended(w) \/ WorkerError(w) \/ Confirm(w)
      BY <2>4 DEF WorkerKill, Ended, WorkerError, Confirm, runtime
    <2> QED
      BY <1>4, <2>1, <2>2, <2>3, <2>4 DEF QuietWorker
  <1>5. ASSUME NEW w \in Commands,
               PopNothing(w) \/ Pop(w) \/ SetProgress(w) \/ Launch(w) \/ WorkerFinish(w) \/ Forget(w)
        PROVE  FALSE
    BY <1>5 DEF PopNothing, Pop, SetProgress, Launch, WorkerFinish, Forget, runtime
  <1>6. UNCHANGED vars \/ (\E r \in Sessions : ShellEnds(r)) => FALSE
    BY DEF vars, runtime, ShellEnds, ShellExits, Finalize
  <1>7. \A c \in Commands : ~ExecSteps(c)
    BY ExecFrame DEF runtime
  <1> QED
    BY <1>1, <1>2, <1>3, <1>4, <1>5, <1>6, <1>7, NextCases

\* Only terminations kill.
LEMMA KilledForMoves ==
  ASSUME Shapes, [Next]_vars, NEW s \in Sessions, NEW c \in killedFor'[s], c \notin killedFor[s]
  PROVE  /\ exec[c] \notin Done
         /\ \/ \E k \in Callers : Kill(k) /\ At(k, "kill") /\ call[k].session = s /\ c \in call[k].todo
            \/ \E w \in Commands : WorkerKill(w) /\ Shell(w) = s /\ Own(w) = c
PROOF
  <1>0. killedFor \in [Sessions -> SUBSET Commands]
    BY DEF Shapes, Typed
  <1>a. ASSUME NEW r, NEW cs, Terminate(r, cs)
        PROVE  r = s /\ c \in cs /\ exec[c] \notin Done
    BY <1>0, <1>a DEF Terminate
  <1>b. killedFor' # killedFor
    OBVIOUS
  <1>1. ASSUME NEW k \in Callers, QuietCall(k)
        PROVE  /\ exec[c] \notin Done
               /\ Kill(k) /\ At(k, "kill") /\ call[k].session = s /\ c \in call[k].todo
    <2>1. CASE Kill(k)
      BY <1>a, <1>b, <2>1 DEF Kill, processes
    <2>2. CASE \/ \E r \in Sessions : CreateBegin(k, r)
               \/ \E r \in Sessions, d \in Commands : StartBegin(k, r, d)
               \/ \E d \in Commands : CancelBegin(k, d)
      BY <1>b, <2>2 DEF CreateBegin, StartBegin, CancelBegin, processes
    <2>3. CASE Spawn(k) \/ Adopt(k) \/ SetRunning(k) \/ CreateClose(k) \/ CreateCrash(k) \/ CancelLock(k)
      BY <1>b, <2>3 DEF Spawn, Adopt, SetRunning, CreateClose, CreateCrash, CancelLock, processes
    <2>4. CASE SetEvents(k) \/ Mark(k) \/ Drop(k) \/ Join(k) \/ Shut(k) \/ Stamp(k)
      BY <1>b, <2>4 DEF SetEvents, Mark, Drop, Join, Shut, Stamp, processes
    <2> QED
      BY <1>1, <2>1, <2>2, <2>3, <2>4 DEF QuietCall
  <1>2. ASSUME NEW k \in Callers,
               \/ Insert(k) \/ Register(k) \/ ThreadStart(k) \/ Finish(k)
               \/ \E r \in Sessions : CloseBegin(k, r)
        PROVE  FALSE
    BY <1>b, <1>2 DEF Insert, Register, ThreadStart, Finish, CloseBegin, CloseTaking, processes
  <1>3. ASSUME NEW w \in Commands, QuietWorker(w)
        PROVE  exec[c] \notin Done /\ WorkerKill(w) /\ Shell(w) = s /\ Own(w) = c
    <2>1. CASE WorkerKill(w)
      BY <1>a, <2>1 DEF WorkerKill
    <2>2. CASE AppendStarted(w) \/ AppendOutput(w) \/ AppendStderr(w) \/ WorkerMark(w) \/ WorkerDrop(w)
      BY <1>b, <2>2 DEF AppendStarted, AppendOutput, AppendStderr, WorkerMark, WorkerDrop, processes
    <2>3. CASE CheckCanceled(w) \/ CheckLive(w) \/ Watch(w) \/ WatchCancel(w) \/ WatchDeadline(w)
      BY <1>b, <2>3 DEF CheckCanceled, CheckLive, Watch, WatchCancel, WatchDeadline, processes
    <2>4. CASE Ended(w) \/ WorkerError(w) \/ Confirm(w)
      BY <1>b, <2>4 DEF Ended, WorkerError, Confirm, processes
    <2> QED
      BY <1>3, <2>1, <2>2, <2>3, <2>4 DEF QuietWorker
  <1>4. ASSUME NEW w \in Commands,
               PopNothing(w) \/ Pop(w) \/ SetProgress(w) \/ Launch(w) \/ WorkerFinish(w) \/ Forget(w)
        PROVE  FALSE
    BY <1>b, <1>4 DEF PopNothing, Pop, SetProgress, Launch, WorkerFinish, Forget, processes
  <1>5. UNCHANGED vars \/ (\E r \in Sessions : ShellEnds(r)) => FALSE
    BY <1>b DEF vars, processes, ShellEnds, ShellExits, Finalize
  <1>6. \A d \in Commands : ~ExecSteps(d)
    BY <1>b, ExecFrame DEF processes
  <1> QED
    BY <1>1, <1>2, <1>3, <1>4, <1>5, <1>6, NextCases

LEMMA TerminalStays ==
  ASSUME Core, [Next]_vars, NEW c \in Commands, Tables!IsTerminal(c)
  PROVE  Tables!IsTerminal(c)'
PROOF
  BY TerminalKept DEF Core, Progressing, Tables!IsTerminal

\* A session that is not listed any more is never listed again.
LEMMA UnlistedStays ==
  ASSUME Core, NewSessions, [Next]_vars, NEW c \in Commands, Present(c), ~live[SessionOf(c)]
  PROVE  SessionOf(c)' = SessionOf(c) /\ SessionOf(c) \in Sessions /\ ~live'[SessionOf(c)]
PROOF
  <1>0. Shapes /\ SessionOf(c) \in Sessions
    BY DEF Core, Shapes, References, Present
  <1>1. SessionOf(c)' = SessionOf(c)
    BY <1>0, PresentStays
  <1>2. ~\E k \in Callers : call[k].pc = "adopt" /\ call[k].session = SessionOf(c)
    BY DEF NewSessions, Creating
  <1>3. ~live'[SessionOf(c)]
    <2>1. live'[SessionOf(c)] => live'[SessionOf(c)] # live[SessionOf(c)]
      OBVIOUS
    <2>2. \A k \in Callers : Drop(k) /\ call[k].session = SessionOf(c) => ~live'[SessionOf(c)]
      BY <1>0 DEF Drop, Shapes, Typed
    <2>3. \A k \in Callers : CloseBegin(k, SessionOf(c)) => ~live'[SessionOf(c)]
      BY <1>0 DEF CloseBegin, CloseTaking, Shapes, Typed
    <2>4. \A w \in Commands : WorkerDrop(w) /\ Shell(w) = SessionOf(c) => ~live'[SessionOf(c)]
      BY <1>0 DEF WorkerDrop, Shapes, Typed
    <2> QED
      BY <1>0, <1>2, <2>1, <2>2, <2>3, <2>4, LiveMoves
  <1> QED
    BY <1>0, <1>1, <1>3

\* A command that is doomed stays doomed.
LEMMA DoomedStays ==
  ASSUME Core, NewSessions, [Next]_vars, NEW c \in Commands, Present(c), Doomed(c)
  PROVE  Doomed(c)'
PROOF
  <1>0. Shapes /\ Places /\ OwnersKnow
    BY DEF Core, Progressing
  <1>1. exec[c] = "none" /\ ~live[SessionOf(c)]
    BY DEF Doomed
  <1>2. SessionOf(c)' = SessionOf(c) /\ ~live'[SessionOf(c)]
    BY <1>1, UnlistedStays
  <1>3. exec'[c] = "none"
    BY <1>0, <1>1, ExecStays DEF Doomed, EndingPcs
  <1>4. ASSUME NEW w \in Commands, worker'[w].command = c
        PROVE  \/ worker'[w].pc \in {"screen", "screen_live"} /\ ~worker'[w].handle
               \/ worker'[w].pc \in EndingPcs /\ worker'[w].outcome = "canceled"
               \/ worker'[w].pc = "forget"
    <2>0. OwnerPath(w, c)
      BY <1>0, <1>4, OwnersCome
    <2>1. Own(w) = c =>
            \/ worker[w].pc \in {"screen", "screen_live"} /\ ~worker[w].handle
            \/ worker[w].pc \in EndingPcs /\ worker[w].outcome = "canceled"
            \/ worker[w].pc = "forget"
      BY DEF Doomed
    <2>2. CASE Own(w) = c /\ worker'[w] = worker[w]
      BY <2>1, <2>2
    <2>3. CASE /\ Own(w) = c /\ QuietWorker(w) /\ WorkerPath(w, c)
               /\ worker'[w].handle = worker[w].handle
      BY <2>1, <2>3 DEF WorkerPath, QuietWorker, EndingPcs
    <2>4. CASE Own(w) = c /\ WorkerFinish(w) /\ worker[w].pc = "finish" /\ worker'[w].pc = "forget"
      BY <2>4
    <2>5. CASE /\ Pop(w) /\ RowOf(c, Shell(w))
               /\ worker'[w].pc = "screen" /\ worker'[w].handle = live[Shell(w)]
      BY <1>1, <2>5 DEF RowOf
    <2>6. ~(Own(w) = c /\ worker[w].pc \in {"starting", "running", "launch"})
      BY <2>1 DEF EndingPcs
    <2> QED
      BY <2>0, <2>2, <2>3, <2>4, <2>5, <2>6 DEF OwnerPath
  <1> QED
    BY <1>2, <1>3, <1>4 DEF Doomed, Own

\* A command that nobody will record as failed is not: it ends well or nobody
\* ever will.
LEMMA SparedStays ==
  ASSUME Core, NewSessions, [Next]_vars, NEW c \in Commands, Present(c), Spared(c)
  PROVE  Spared(c)'
PROOF
  <1>0. Shapes /\ Shapes' /\ Places /\ OwnersKnow /\ OwnersApart
    BY CoreKept DEF Core, Progressing, Places
  <1>1. command'[c].status # "failed"
    <2>1. \A w \in Commands : WorkerFinish(w) /\ Own(w) = c => worker[w].outcome \in {"canceled", "timed_out"}
      BY DEF Spared, WorkerFinish, WorkerAt, EndingPcs
    <2> QED
      BY <1>0, <2>1, StatusMoves DEF Spared
  <1>2. ASSUME NEW w \in Commands, worker'[w].command = c
        PROVE  /\ worker'[w].pc \notin {"output", "stderr"}
               /\ worker'[w].pc \in EndingPcs => worker'[w].outcome \in {"canceled", "timed_out"}
    <2>0. OwnerPath(w, c)
      BY <1>0, <1>2, OwnersCome
    <2>1. Own(w) = c =>
            /\ worker[w].pc \notin {"output", "stderr"}
            /\ worker[w].pc \in EndingPcs => worker[w].outcome \in {"canceled", "timed_out"}
            /\ Knows(c, worker[w].pc, worker[w].outcome)
      BY <1>0 DEF Spared, OwnersKnow
    <2>2. Own(w) = c /\ worker[w].pc = "ended" => c \in canceled \/ Tables!IsTerminal(c)
      BY <1>0 DEF Spared, Doomed, EndingPcs, OwnersApart
    <2>3. CASE Own(w) = c /\ QuietWorker(w) /\ WorkerPath(w, c)
      <3>1. Own(w) = c /\ worker[w].pc = "error" => command[c].status \in Tables!Terminal
        BY <2>1, <2>3 DEF Knows
      <3>2. Own(w) = c /\ worker[w].pc = "kill" => worker[w].outcome \in {"canceled", "timed_out"}
        BY <2>1, <2>3 DEF Knows
      <3> QED
        BY <2>1, <2>2, <2>3, <3>1, <3>2 DEF WorkerPath, QuietWorker, EndingPcs, Tables!IsTerminal
    <2>4. CASE Own(w) = c /\ worker'[w] = worker[w]
      BY <2>1, <2>4
    <2>5. CASE worker'[w].pc \in {"started", "launch", "error", "watch", "forget", "screen"}
      BY <2>5 DEF EndingPcs
    <2> QED
      BY <2>0, <2>3, <2>4, <2>5 DEF OwnerPath
  <1>3. \/ Tables!IsTerminal(c)' \/ c \in canceled' \/ Doomed(c)'
        \/ \E w \in Commands : worker'[w].command = c /\ worker'[w].pc \in EndingPcs
    <2>1. CASE Tables!IsTerminal(c)
      BY <2>1, TerminalStays
    <2>2. CASE c \in canceled
      BY <2>2, CanceledGrows
    <2>3. CASE Doomed(c)
      BY <2>3, DoomedStays
    <2>4. ASSUME NEW w \in Commands, Own(w) = c, worker[w].pc \in EndingPcs
          PROVE  Tables!IsTerminal(c)' \/ (worker'[w].command = c /\ worker'[w].pc \in EndingPcs)
      <3>1. worker'[w].command = c
        BY <1>0, <2>4, OwnersStay DEF Places, Forget, WorkerAt, EndingPcs
      <3>2. OwnerPath(w, c)
        BY <1>0, <3>1, OwnersCome
      <3>3. CASE WorkerFinish(w)
        <4>1. Tables!FinishCommand(c, worker[w].outcome) /\ worker[w].outcome \in Tables!Terminal
          BY <1>0, <2>4, <3>3 DEF WorkerFinish, Shapes, WorkersShaped, NeedsOutcome
        <4>2. ~Tables!IsTerminal(c) => command'[c].status = worker[w].outcome
          BY <1>0, <4>1 DEF Tables!FinishCommand, Shapes, Typed
        <4> QED
          BY <4>1, <4>2, TerminalStays DEF Tables!IsTerminal
      <3>4. CASE Tables!IsTerminal(c)
        BY <3>4, TerminalStays
      <3>5. CASE ~Tables!IsTerminal(c) /\ QuietWorker(w) /\ WorkerPath(w, c)
        BY <2>4, <3>1, <3>5 DEF WorkerPath, QuietWorker, EndingPcs, Tables!IsTerminal
      <3> QED
        BY <2>4, <3>1, <3>2, <3>3, <3>4, <3>5 DEF OwnerPath, EndingPcs, Pop, WorkerAt
    <2> QED
      BY <2>1, <2>2, <2>3, <2>4 DEF Spared
  <1> QED
    BY <1>1, <1>2, <1>3 DEF Spared, Own

\* What a termination cuts off is spared.
LEMMA KilledFreshly ==
  ASSUME Core, NewSessions, Killing, [Next]_vars, NEW s \in Sessions,
         NEW c \in killedFor'[s], c \notin killedFor[s]
  PROVE  RowOf(c, s) /\ Spared(c)'
PROOF
  <1>0. /\ Shapes /\ Places /\ OwnersKnow /\ OthersFollow /\ References /\ CallsShaped /\ WorkersShaped
        /\ call \in [Callers -> Calls]
    BY DEF Core, Progressing, Shapes, CallsShaped
  <1>c. c \in Commands
    BY <1>0, ProcessesKept
  <1>1. exec[c] \notin Done
    BY <1>0, KilledForMoves
  <1>2. command[c].status # "failed"
    BY <1>0, <1>1, <1>c DEF OthersFollow
  <1>3. ASSUME NEW w \in Commands, Own(w) = c
        PROVE  /\ worker[w].pc \notin {"output", "stderr"}
               /\ worker[w].pc \in EndingPcs \cup {"kill"} => worker[w].outcome \in {"canceled", "timed_out"}
    <2>1. Knows(c, worker[w].pc, worker[w].outcome)
      BY <1>0, <1>3, <1>c DEF OwnersKnow
    <2>2. worker[w].pc = "finish" => worker[w].outcome \in Tables!Terminal
      BY <1>0 DEF WorkersShaped, NeedsOutcome, EndingPcs
    <2> QED
      BY <1>1, <2>1, <2>2 DEF Knows, EndingPcs, Done, Tables!Terminal
  <1>4. CASE \E k \in Callers : Kill(k) /\ At(k, "kill") /\ call[k].session = s /\ c \in call[k].todo
    <2>1. PICK k \in Callers : Kill(k) /\ At(k, "kill") /\ call[k].session = s /\ c \in call[k].todo
      BY <1>4
    <2>2. QuietCall(k)
      BY <2>1 DEF QuietCall
    <2>3. UNCHANGED <<command, worker, exec>>
      BY <2>2, QuietCallFrame
    <2>4. RowOf(c, s)
      BY <1>0, <2>1 DEF References
    <2>5. c \in canceled \/ Tables!IsTerminal(c) \/ Doomed(c)
      BY <2>1 DEF Killing, KillersWarn, At
    <2>6. c \in canceled' \/ Tables!IsTerminal(c)' \/ Doomed(c)'
      BY <2>4, <2>5, TerminalStays, CanceledGrows, DoomedStays DEF RowOf, Present
    <2> QED
      BY <1>2, <1>3, <2>3, <2>4, <2>6 DEF Spared, Own
  <1>5. CASE \E w \in Commands : WorkerKill(w) /\ Shell(w) = s /\ Own(w) = c
    <2>1. PICK w \in Commands : WorkerKill(w) /\ Shell(w) = s /\ Own(w) = c
      BY <1>5
    <2>2. QuietWorker(w)
      BY <2>1 DEF QuietWorker
    <2>3. /\ UNCHANGED command /\ worker'[w].command = worker[w].command
          /\ worker[w].pc \notin Resting
          /\ \A v \in Commands : v # w => worker'[v] = worker[v]
      BY <1>0, <2>2, QuietWorkerFrame, QuietWorkerMoves
    <2>4. RowOf(c, s)
      BY <1>0, <2>1, <2>3 DEF References
    <2>5. WorkerPath(w, c)
      BY <1>0, <1>c, <2>1, <2>2, QuietWorkerSteps
    <2>6. worker[w].pc = "kill" /\ worker'[w].pc = "confirm" /\ worker'[w].outcome = worker[w].outcome
      BY <2>1, <2>5 DEF WorkerPath
    <2>7. ASSUME NEW v \in Commands, worker'[v].command = c
          PROVE  /\ worker'[v].pc \notin {"output", "stderr"}
                 /\ worker'[v].pc \in EndingPcs => worker'[v].outcome \in {"canceled", "timed_out"}
      BY <1>3, <2>1, <2>3, <2>6, <2>7 DEF Own
    <2>8. worker'[w].command = c /\ worker'[w].pc \in EndingPcs
      BY <2>1, <2>3, <2>6 DEF Own, EndingPcs
    <2> QED
      BY <1>2, <2>3, <2>4, <2>7, <2>8 DEF Spared, Own
  <1> QED
    BY <1>0, <1>4, <1>5, KilledForMoves

LEMMA KilledAreSparedKept ==
  ASSUME Core, NewSessions, Killing, [Next]_vars
  PROVE  KilledAreSpared'
PROOF
  <1> SUFFICES ASSUME NEW s \in Sessions, NEW c \in killedFor'[s]
               PROVE  RowOf(c, s)' /\ (exec'[c] \in {"ok", "bad"} \/ Spared(c)')
    BY DEF KilledAreSpared
  <1>0. Shapes /\ OwnersKnow
    BY DEF Core, Progressing
  <1>1. \A d, r : RowOf(d, r) => RowOf(d, r)'
    BY <1>0, RowsKept
  <1>2. CASE c \in killedFor[s]
    <2>1. RowOf(c, s) /\ (exec[c] \in {"ok", "bad"} \/ Spared(c))
      BY <1>2 DEF Killing, KilledAreSpared
    <2>2. c \in Commands /\ Present(c)
      BY <2>1 DEF RowOf, Present
    <2>3. exec[c] \in {"ok", "bad"} => exec'[c] = exec[c]
      BY <1>0, <2>2, ExecStays DEF Done
    <2>4. Spared(c) => Spared(c)'
      BY <2>2, SparedStays
    <2> QED
      BY <1>1, <2>1, <2>3, <2>4
  <1>3. CASE c \notin killedFor[s]
    BY <1>1, <1>3, KilledFreshly
  <1> QED
    BY <1>2, <1>3

LEMMA KillersWarnKept ==
  ASSUME Core, NewSessions, Killing, [Next]_vars
  PROVE  KillersWarn'
PROOF
  <1>0. /\ Shapes /\ Places /\ OwnersKnow /\ References /\ CallsShaped /\ ActiveHasEvent
        /\ OthersFollow /\ call \in [Callers -> Calls] /\ UnregisteredIsFree
    BY DEF Core, Progressing, Shapes, CallsShaped, Places
  <1>c. \A c \in Commands : c \in cancels => c \in cancels' \/ Tables!IsTerminal(c)
    <2>1. \A w \in Commands : Forget(w) /\ Own(w) \in Commands => Tables!IsTerminal(Own(w))
      BY <1>0 DEF Forget, WorkerAt, OwnersKnow, Knows, Tables!IsTerminal
    <2> QED
      BY <1>0, <2>1, CancelsMovedBy
  <1> SUFFICES ASSUME NEW k \in Callers
               PROVE  /\ call'[k].pc = "cancel_lock" => call'[k].todo = {call'[k].command}
                      /\ call'[k].pc = "cancel_lock" /\ call'[k].closes =>
                           \A c \in call'[k].todo : c \in cancels' \/ Tables!IsTerminal(c)'
                      /\ call'[k].pc \in {"set", "kill"} /\ call'[k].closes =>
                           \A c \in call'[k].todo :
                             c \in call'[k].events \/ Tables!IsTerminal(c)' \/ Doomed(c)'
                      /\ call'[k].pc = "kill" =>
                           call'[k].events \subseteq canceled' /\ call'[k].closes
    BY DEF KillersWarn, At
  <1> DEFINE Goal == /\ call'[k].pc = "cancel_lock" => call'[k].todo = {call'[k].command}
                     /\ call'[k].pc = "cancel_lock" /\ call'[k].closes =>
                          \A c \in call'[k].todo : c \in cancels' \/ Tables!IsTerminal(c)'
                     /\ call'[k].pc \in {"set", "kill"} /\ call'[k].closes =>
                          \A c \in call'[k].todo :
                            c \in call'[k].events \/ Tables!IsTerminal(c)' \/ Doomed(c)'
                     /\ call'[k].pc = "kill" =>
                          call'[k].events \subseteq canceled' /\ call'[k].closes
  <1> SUFFICES Goal
    OBVIOUS
  <1>1. /\ At(k, "cancel_lock") => call[k].todo = {call[k].command}
        /\ At(k, "cancel_lock") /\ call[k].closes =>
             \A c \in call[k].todo : c \in cancels \/ Tables!IsTerminal(c)
        /\ call[k].pc \in {"set", "kill"} /\ call[k].closes =>
             \A c \in call[k].todo : c \in call[k].events \/ Tables!IsTerminal(c) \/ Doomed(c)
        /\ At(k, "kill") => call[k].events \subseteq canceled /\ call[k].closes
    BY DEF Killing, KillersWarn
  <1>2. CallPath(k)
    BY <1>0, QuietCallSteps
  <1>3. \A c \in call[k].todo : c \in Commands /\ Present(c)
    BY <1>0 DEF References, RowOf, Present
  <1>4. \A c \in call[k].todo :
          /\ Tables!IsTerminal(c) => Tables!IsTerminal(c)'
          /\ Doomed(c) => Doomed(c)'
    BY <1>3, TerminalStays, DoomedStays
  <1>5. canceled \subseteq canceled'
    BY CanceledGrows
  <1>6. CASE call'[k] = call[k]
    <2>1. ASSUME call'[k].pc = "cancel_lock", call'[k].closes, NEW c \in call'[k].todo
          PROVE  c \in cancels' \/ Tables!IsTerminal(c)'
      BY <2>1, <1>1, <1>3, <1>4, <1>6, <1>c DEF At
    <2>2. ASSUME call'[k].pc \in {"set", "kill"}, call'[k].closes, NEW c \in call'[k].todo
          PROVE  c \in call'[k].events \/ Tables!IsTerminal(c)' \/ Doomed(c)'
      BY <2>2, <1>1, <1>4, <1>6
    <2> QED
      BY <1>1, <1>5, <1>6, <2>1, <2>2 DEF At
  <1>7. CASE CancelLock(k)
    <2>1. /\ At(k, "cancel_lock") /\ call'[k].pc = "set" /\ call'[k].todo = call[k].todo
          /\ call'[k].closes = call[k].closes /\ call'[k].events = {call[k].command} \cap cancels
      BY <1>2, <1>7 DEF CallPath, At
    <2>2. ASSUME call[k].closes, NEW c \in call[k].todo
          PROVE  c \in call'[k].events \/ Tables!IsTerminal(c)'
      BY <2>2, <1>1, <1>4, <2>1
    <2> QED
      BY <2>1, <2>2
  <1>8. CASE SetEvents(k)
    <2>1. /\ call[k].pc = "set" /\ SameErrand(k)
          /\ call'[k].pc = IF call[k].closes THEN "kill" ELSE "finish"
          /\ call[k].events \subseteq canceled'
      BY <1>2, <1>8 DEF CallPath, SetEvents
    <2> QED
      <3>1. ASSUME call'[k].closes, NEW c \in call'[k].todo
            PROVE  c \in call'[k].events \/ Tables!IsTerminal(c)' \/ Doomed(c)'
        BY <3>1, <1>1, <1>4, <2>1 DEF SameErrand
      <3> QED
        BY <2>1, <3>1 DEF SameErrand
  <1>9. ASSUME NEW c \in Commands, CancelBegin(k, c) PROVE Goal
    <2>1. /\ call'[k].pc = "cancel_lock" /\ call'[k].todo = {c} /\ call'[k].command = c
          /\ call'[k].closes = (command[c].status # "queued") /\ Tables!IsActive(c)
      BY <1>2, <1>9 DEF CallPath, CancelBegin
    <2>2. call'[k].closes => c \in cancels
      BY <1>0, <2>1 DEF ActiveHasEvent, OthersFollow, Tables!IsActive, Tables!Progress
    <2>3. ~Tables!IsTerminal(c)
      BY <2>1 DEF Tables!IsActive, Tables!IsTerminal, Tables!Terminal, Tables!Progress
    <2> QED
      BY <1>c, <2>1, <2>2, <2>3
  <1>10. ASSUME NEW s \in Sessions, CloseBegin(k, s) PROVE Goal
    <2>1. /\ call'[k].todo = Tables!ActiveCommands(s)
          /\ call'[k].events = Tables!ActiveCommands(s) \cap cancels
          /\ call'[k].pc \in {"set", "shut", "stamp"}
          /\ live' = [live EXCEPT ![s] = FALSE] /\ UNCHANGED <<tables, worker, exec>>
      BY <1>0, <1>10, CloseMoves
    <2>2. ASSUME NEW c \in Tables!ActiveCommands(s), c \notin cancels PROVE Doomed(c)'
      <3>1. c \in Commands /\ Tables!IsActive(c) /\ SessionOf(c) = s
        BY DEF Tables!ActiveCommands, SessionOf
      <3>2. exec[c] = "none" /\ \A w \in Commands : Own(w) # c
        BY <1>0, <2>2, <3>1 DEF ActiveHasEvent, UnregisteredIsFree
      <3>3. ~live'[s]
        BY <1>0, <2>1 DEF Shapes, Typed
      <3> QED
        BY <2>1, <3>1, <3>2, <3>3 DEF Doomed, tables, SessionOf, Own
    <2> QED
      BY <2>1, <2>2
  <1>11. CASE Insert(k) \/ Register(k) \/ ThreadStart(k) \/ Finish(k)
    BY <1>0, <1>11, StartCallMoves, FinishMoves
  <1>12. CASE /\ QuietCall(k)
              /\ ~(CancelLock(k) \/ SetEvents(k) \/ \E c \in Commands : CancelBegin(k, c))
    BY <1>2, <1>12 DEF CallPath, QuietCall
  <1> HIDE DEF Goal
  <1> QED
    BY <1>0, <1>6, <1>7, <1>8, <1>9, <1>10, <1>11, <1>12, CallMovedBy

LEMMA KillingKept ==
  ASSUME Core, NewSessions, Killing, [Next]_vars
  PROVE  Killing'
PROOF
  BY KilledAreSparedKept, KillersWarnKept DEF Killing

LEMMA InitKilling == Init => Killing
PROOF
  BY DEF Init, NoCall, Killing, KilledAreSpared, KillersWarn, At

LEMMA KillingInvariant == Spec => [](Core /\ NewSessions /\ Killing)
PROOF
  <1>1. Init => Core /\ NewSessions /\ Killing
    BY InitCore, InitNewSessions, InitKilling
  <1>2. Core /\ NewSessions /\ Killing /\ [Next]_vars => (Core /\ NewSessions /\ Killing)'
    BY CoreKept, NewSessionsKept, KillingKept
  <1> QED
    BY <1>1, <1>2, PTL DEF Spec

\* A command whose execution broke off because its shell was killed to cancel
\* it or to time it out is never recorded as failed, whichever of the calling
\* thread and the worker comes to finish it.
THEOREM KilledNotFailed == Spec => []KilledIsNotFailed
PROOF
  <1>1. Core /\ Killing => KilledIsNotFailed
    <2> SUFFICES ASSUME Core, Killing, NEW c \in Commands, exec[c] = "error",
                        c \in killedFor[SessionOf(c)]
                 PROVE  command[c].status # "failed"
      BY DEF KilledIsNotFailed
    <2>1. SessionOf(c) \in Sessions
      <3>1. Present(c)
        BY DEF Core, Places, UnregisteredIsFree, Unregistered
      <3> QED
        BY <3>1 DEF Core, Shapes, References, Present
    <2> QED
      BY <2>1 DEF Killing, KilledAreSpared, Spared
  <1> QED
    BY <1>1, KillingInvariant, PTL

-----------------------------------------------------------------------------
(* Who has the shell, is kept where nobody cancels *)

NobodyCancels == \A k \in Callers : "cancel" \notin MayCall[k]

\* Only create_session makes a shell.
LEMMA ShellMoves ==
  ASSUME Shapes, [Next]_vars, NEW s \in Sessions
  PROVE  \/ shell'[s] # "alive"
         \/ shell'[s] = shell[s]
         \/ \E k \in Callers :
              /\ Spawn(k) /\ call[k].pc = "spawn" /\ call[k].session = s /\ call'[k].pc = "adopt"
              /\ call'[k].session = s
PROOF
  <1>0. /\ shell \in [Sessions -> {"none", "alive", "dead"}] /\ call \in [Callers -> Calls]
        /\ {"adopt"} \subseteq CallPcs
    BY DEF Shapes, Typed, CallsShaped, CallPcs
  <1> SUFFICES ASSUME shell'[s] = "alive", shell'[s] # shell[s]
               PROVE  \E k \in Callers :
                        /\ Spawn(k) /\ call[k].pc = "spawn" /\ call[k].session = s
                        /\ call'[k].pc = "adopt" /\ call'[k].session = s
    OBVIOUS
  <1>a. \A r, cs : ~Terminate(r, cs)
    BY <1>0 DEF Terminate
  <1>1. ASSUME NEW k \in Callers, QuietCall(k)
        PROVE  /\ Spawn(k) /\ call[k].pc = "spawn" /\ call[k].session = s
               /\ call'[k].pc = "adopt" /\ call'[k].session = s
    <2>1. CASE Spawn(k)
      BY <1>0, <2>1, CallMoves DEF Spawn, At
    <2>2. CASE CreateClose(k) \/ Kill(k) \/ Shut(k)
      BY <1>0, <1>a, <2>2 DEF CreateClose, Kill, Shut, processes
    <2>3. CASE \/ \E r \in Sessions : CreateBegin(k, r)
               \/ \E r \in Sessions, c \in Commands : StartBegin(k, r, c)
               \/ \E c \in Commands : CancelBegin(k, c)
      BY <2>3 DEF CreateBegin, StartBegin, CancelBegin, processes
    <2>4. CASE Adopt(k) \/ SetRunning(k) \/ CreateCrash(k) \/ CancelLock(k) \/ SetEvents(k)
      BY <2>4 DEF Adopt, SetRunning, CreateCrash, CancelLock, SetEvents, processes
    <2>5. CASE Mark(k) \/ Drop(k) \/ Join(k) \/ Stamp(k)
      BY <2>5 DEF Mark, Drop, Join, Stamp, processes
    <2> QED
      BY <1>1, <2>1, <2>2, <2>3, <2>4, <2>5 DEF QuietCall
  <1>2. ASSUME NEW k \in Callers,
               \/ Insert(k) \/ Register(k) \/ ThreadStart(k) \/ Finish(k)
               \/ \E r \in Sessions : CloseBegin(k, r)
        PROVE  FALSE
    BY <1>2 DEF Insert, Register, ThreadStart, Finish, CloseBegin, CloseTaking, processes
  <1>3. ASSUME NEW w \in Commands, QuietWorker(w) PROVE FALSE
    <2>1. CASE WorkerKill(w)
      BY <1>a, <2>1 DEF WorkerKill
    <2>2. CASE AppendStarted(w) \/ AppendOutput(w) \/ AppendStderr(w) \/ WorkerMark(w) \/ WorkerDrop(w)
      BY <2>2 DEF AppendStarted, AppendOutput, AppendStderr, WorkerMark, WorkerDrop, processes
    <2>3. CASE CheckCanceled(w) \/ CheckLive(w) \/ Watch(w) \/ WatchCancel(w) \/ WatchDeadline(w)
      BY <2>3 DEF CheckCanceled, CheckLive, Watch, WatchCancel, WatchDeadline, processes
    <2>4. CASE Ended(w) \/ WorkerError(w) \/ Confirm(w)
      BY <2>4 DEF Ended, WorkerError, Confirm, processes
    <2> QED
      BY <1>3, <2>1, <2>2, <2>3, <2>4 DEF QuietWorker
  <1>4. ASSUME NEW w \in Commands,
               PopNothing(w) \/ Pop(w) \/ SetProgress(w) \/ Launch(w) \/ WorkerFinish(w) \/ Forget(w)
        PROVE  FALSE
    BY <1>4 DEF PopNothing, Pop, SetProgress, Launch, WorkerFinish, Forget, processes
  <1>5. ~UNCHANGED vars /\ \A r \in Sessions : ~ShellEnds(r)
    BY <1>0 DEF vars, processes, ShellEnds, ShellExits, Finalize
  <1>6. \A d \in Commands : ~ExecSteps(d)
    BY ExecFrame DEF processes
  <1> QED
    BY <1>1, <1>2, <1>3, <1>4, <1>5, <1>6, NextCases

\* A session that has a command and is closed, or whose shell is gone, stays so.
LEMMA GoneStays ==
  ASSUME Core, NewSessions, [Next]_vars, NEW c \in Commands, NEW s, RowOf(c, s)
  PROVE  /\ s \in Sessions
         /\ ~live[s] => ~live'[s]
         /\ ~IsRunning(s) => ~IsRunning(s)'
PROOF
  <1>1. Shapes /\ Present(c) /\ SessionOf(c) = s /\ s \in Sessions
    BY DEF Core, Shapes, References, RowOf, Present
  <1>2. \A k \in Callers : Creating(k) => call[k].session # s
    BY <1>1 DEF NewSessions
  <1>3. ~live[s] => ~live'[s]
    BY <1>1, UnlistedStays
  <1>4. ~IsRunning(s) => ~IsRunning(s)'
    BY <1>1, <1>2, ShellMoves DEF IsRunning, Creating
  <1> QED
    BY <1>1, <1>3, <1>4

LEMMA OwningCalls ==
  ASSUME Core, NewSessions, Owning, NobodyCancels, [Next]_vars, NEW k \in Callers
  PROVE  /\ call'[k].op # "cancel"
         /\ call'[k].pc \in EndPcs => ~live'[call'[k].session]
         /\ call'[k].pc = "set" => call'[k].events \subseteq call'[k].todo
PROOF
  <1>0. /\ Shapes /\ References /\ CallsShaped /\ call \in [Callers -> Calls]
        /\ live \in [Sessions -> BOOLEAN]
    BY DEF Core, Shapes, CallsShaped, Typed
  <1>1. /\ call[k].op # "cancel"
        /\ call[k].pc \in EndPcs => ~live[call[k].session]
        /\ At(k, "set") => call[k].events \subseteq call[k].todo
    BY DEF Owning
  <1>2. CallPath(k)
    BY <1>0, QuietCallSteps
  <1>3. call[k].pc \in EndPcs => ~live'[call[k].session]
    <2> SUFFICES ASSUME call[k].pc \in EndPcs PROVE ~live'[call[k].session]
      OBVIOUS
    <2>1. RowOf(call[k].command, call[k].session) /\ call[k].command \in Commands
      BY <1>0 DEF CallsShaped, References, RowOf
    <2> QED
      BY <1>1, <2>1, GoneStays
  <1>4. ~\E c \in Commands : CancelBegin(k, c)
    BY DEF NobodyCancels, CancelBegin, Begins
  <1>5. ~CancelLock(k)
    BY <1>0, <1>1 DEF CancelLock, At, CallsShaped
  <1>6. CASE call'[k] = call[k]
    BY <1>1, <1>3, <1>6 DEF At
  <1>7. CASE SetEvents(k) \/ Kill(k) \/ Mark(k) \/ Drop(k)
    <2>1. SameErrand(k) /\ call[k].pc \in EndPcs /\ call'[k].pc # "set"
      BY <1>2, <1>7 DEF CallPath, EndPcs
    <2> QED
      BY <1>1, <1>3, <2>1 DEF SameErrand
  <1>8. CASE /\ QuietCall(k) /\ ~(SetEvents(k) \/ Kill(k) \/ Mark(k) \/ Drop(k))
    <2>1. call'[k].pc \notin EndPcs
      BY <1>2, <1>4, <1>5, <1>8 DEF CallPath, QuietCall, EndPcs
    <2>2. call'[k].op # "cancel"
      <3>1. call'[k].pc = "idle" => call'[k].op = "none"
        BY <1>0, CallsKept DEF CallsShaped
      <3> QED
        BY <1>1, <1>2, <1>4, <1>5, <1>8, <3>1 DEF CallPath, QuietCall, SameErrand
    <2> QED
      BY <2>1, <2>2 DEF EndPcs
  <1>9. ASSUME NEW s \in Sessions, CloseBegin(k, s)
        PROVE  /\ call'[k].op # "cancel"
               /\ call'[k].pc \in EndPcs => ~live'[call'[k].session]
               /\ call'[k].pc = "set" => call'[k].events \subseteq call'[k].todo
    BY <1>0, <1>9, CloseMoves
  <1>10. CASE Finish(k)
    BY <1>0, <1>1, <1>3, <1>10, FinishMoves DEF EndPcs
  <1>11. CASE Insert(k) \/ Register(k) \/ ThreadStart(k)
    <2>1. call'[k].pc \in StartPcs \cup {"idle"} /\ CallsShaped'
      BY <1>0, <1>11, StartCallMoves DEF StartPcs
    <2> QED
      BY <2>1 DEF CallsShaped, StartPcs, EndPcs
  <1> QED
    BY <1>0, <1>6, <1>7, <1>8, <1>9, <1>10, <1>11, CallMovedBy

LEMMA OwningCanceled ==
  ASSUME Core, NewSessions, Owning, [Next]_vars, NEW c \in canceled'
  PROVE  c \in Commands /\ Present(c)' /\ ~live'[SessionOf(c)']
PROOF
  <1>0. Shapes /\ References /\ CallsShaped
    BY DEF Core, Shapes
  <1>1. c \in Commands
    BY <1>0, RuntimeKept
  <1>2. Present(c) /\ ~live[SessionOf(c)]
    <2>1. CASE c \in canceled
      BY <2>1 DEF Owning
    <2>2. ASSUME NEW k \in Callers, SetEvents(k), c \in call[k].events
          PROVE  Present(c) /\ ~live[SessionOf(c)]
      <3>1. At(k, "set") /\ c \in call[k].todo /\ ~live[call[k].session]
        BY <2>2 DEF SetEvents, Owning, At, EndPcs
      <3> QED
        BY <1>0, <3>1 DEF References, RowOf, Present
    <2> QED
      BY <2>1, <2>2, CanceledGrows
  <1> QED
    BY <1>0, <1>1, <1>2, PresentStays, UnlistedStays

LEMMA OwningWorkers ==
  ASSUME Core, NewSessions, Owning, [Next]_vars, NEW w \in Commands, NEW c \in Commands,
         worker'[w].command = c, NEW s, s = Shell(w)
  PROVE  /\ command'[w].session = s
         /\ ~worker'[w].handle => ~live'[s]
         /\ \/ worker'[w].pc \in {"mark", "drop"}
            \/ worker'[w].pc = "confirm" /\ worker'[w].closes
            => ~live'[s] \/ ~IsRunning(s)'
PROOF
  <1>0. /\ Shapes /\ Places /\ References /\ WorkersShaped
        /\ live \in [Sessions -> BOOLEAN] /\ shell \in [Sessions -> {"none", "alive", "dead"}]
    BY DEF Core, Shapes, Typed
  <1>1. OwnerPath(w, c)
    BY <1>0, OwnersCome
  <1>2. RowOf(w, s)
    <2>1. c # NoCommand
      BY NamesAssumption
    <2>2. worker[w].pc # "none"
      BY <1>0, <1>1, <2>1 DEF OwnerPath, WorkersShaped, Resting, Pop, WorkerAt
    <2> QED
      BY <1>0, <2>2 DEF References
  <1>3. /\ s \in Sessions
        /\ ~live[s] => ~live'[s]
        /\ ~IsRunning(s) => ~IsRunning(s)'
    BY <1>2, GoneStays
  <1>4. command'[w].session = s
    BY <1>0, <1>2, PresentStays DEF RowOf, Present, SessionOf
  <1>5. /\ Own(w) = c => (~worker[w].handle => ~live[s])
        /\ Own(w) = c /\ (worker[w].pc \in {"mark", "drop"} \/ (worker[w].pc = "confirm" /\ worker[w].closes))
             => ~live[s] \/ ~IsRunning(s)
    BY DEF Owning
  <1>6. ~worker'[w].handle => ~live'[s]
    <2>1. UNCHANGED live \/ ~Pop(w)
      BY DEF Pop
    <2> QED
      BY <1>0, <1>1, <1>3, <1>5, <2>1 DEF OwnerPath
  <1> DEFINE Goal == \/ worker'[w].pc \in {"mark", "drop"}
                     \/ worker'[w].pc = "confirm" /\ worker'[w].closes
                     => ~live'[s] \/ ~IsRunning(s)'
  <1>7. ASSUME Own(w) = c, worker'[w] = worker[w] PROVE Goal
    BY <1>3, <1>5, <1>7
  <1>8. ASSUME worker'[w].pc \in {"started", "launch", "error", "watch", "forget", "screen"} PROVE Goal
    BY <1>8
  <1>9. ASSUME Own(w) = c, QuietWorker(w), WorkerPath(w, c) PROVE Goal
    <2>1. CASE CheckCanceled(w)
      BY <1>9, <2>1 DEF WorkerPath
    <2>2. CASE CheckLive(w)
      BY <1>3, <1>5, <1>9, <2>2 DEF WorkerPath
    <2>3. CASE WorkerKill(w)
      <3>1. shell' = [shell EXCEPT ![s] = "dead"]
        BY <2>3 DEF WorkerKill, Terminate
      <3> QED
        BY <1>0, <1>3, <3>1 DEF IsRunning
    <2>4. CASE Ended(w)
      <3>1. c \in canceled => ~live[s]
        <4>1. RowOf(c, s)
          BY <1>0, <1>9, NamesAssumption DEF References, WorkersShaped
        <4> QED
          BY <4>1 DEF Owning, RowOf
      <3> QED
        BY <1>3, <1>9, <2>4, <3>1 DEF WorkerPath
    <2>5. CASE Confirm(w) \/ WorkerMark(w)
      <3>1. worker[w].pc = "confirm" /\ worker'[w].pc = "mark" => worker[w].closes
        BY <1>0, <1>9, <2>5 DEF Confirm, WorkerMark, WorkerGoto, WorkerAt, WorkersShaped, Workers
      <3> QED
        BY <1>3, <1>5, <1>9, <2>5, <3>1 DEF WorkerPath
    <2>6. CASE Watch(w) \/ WatchCancel(w) \/ WatchDeadline(w) \/ WorkerError(w) \/ WorkerDrop(w)
               \/ AppendStarted(w) \/ AppendOutput(w) \/ AppendStderr(w)
      BY <1>9, <2>6 DEF WorkerPath
    <2> HIDE DEF Goal
    <2> QED
      BY <1>9, <2>1, <2>2, <2>3, <2>4, <2>5, <2>6 DEF QuietWorker
  <1> HIDE DEF Goal
  <1>10. Goal
    BY <1>1, <1>7, <1>8, <1>9 DEF OwnerPath
  <1> QED
    BY <1>4, <1>6, <1>10 DEF Goal

\* A shell without its listing is in somebody's hands after each step too.
LEMMA ShellIsOwnedKept ==
  ASSUME Core, NewSessions, Owning, [Next]_vars
  PROVE  ShellIsOwned'
PROOF
  <1>0. /\ Shapes /\ References /\ CallsShaped /\ WorkersShaped /\ call \in [Callers -> Calls]
        /\ live \in [Sessions -> BOOLEAN] /\ shell \in [Sessions -> {"none", "alive", "dead"}]
    BY DEF Core, Shapes, CallsShaped, Typed
  <1> SUFFICES ASSUME NEW s \in Sessions, shell'[s] = "alive"
               PROVE  \/ live'[s]
                      \/ \E k \in Callers :
                           /\ call'[k].session = s
                           /\ \/ call'[k].pc = "adopt"
                              \/ /\ call'[k].handle /\ call'[k].closes
                                 /\ call'[k].pc \in {"set", "kill", "shut"}
                      \/ \E w \in Commands : worker'[w].pc = "kill" /\ command'[w].session = s
    BY DEF ShellIsOwned, IsRunning, WorkerAt, Shell
  <1> DEFINE Held(k) == /\ call'[k].session = s
                        /\ \/ call'[k].pc = "adopt"
                           \/ /\ call'[k].handle /\ call'[k].closes
                              /\ call'[k].pc \in {"set", "kill", "shut"}
             Goal == \/ live'[s]
                     \/ \E k \in Callers : Held(k)
                     \/ \E w \in Commands : worker'[w].pc = "kill" /\ command'[w].session = s
  <1> SUFFICES Goal
    OBVIOUS
  <1> HIDE DEF Held
  <1>1. CASE shell[s] # "alive"
    <2>1. PICK k \in Callers : call'[k].pc = "adopt" /\ call'[k].session = s
      BY <1>0, <1>1, ShellMoves
    <2> QED
      BY <2>1 DEF Held
  <1>2. CASE shell[s] = "alive" /\ live[s] /\ ~live'[s]
    <2>1. ASSUME NEW k \in Callers, Drop(k), call[k].pc = "drop", call[k].session = s PROVE FALSE
      BY <1>2, <2>1 DEF Owning, EndPcs
    <2>2. ASSUME NEW w \in Commands, WorkerDrop(w), worker[w].pc = "drop", Shell(w) = s PROVE FALSE
      <3>1. Own(w) \in Commands
        BY <1>0, <2>2 DEF WorkersShaped, Workers, Resting, Own
      <3> QED
        BY <1>2, <2>2, <3>1 DEF Owning, IsRunning
    <2>3. ASSUME NEW k \in Callers, CloseBegin(k, s) PROVE Held(k)
      BY <1>0, <1>2, <2>3, CloseMoves DEF Held
    <2> QED
      BY <1>0, <1>2, <2>1, <2>2, <2>3, LiveMoves
  <1>3. CASE live[s] /\ live'[s]
    BY <1>3
  <1>4. ASSUME NEW k \in Callers, shell[s] = "alive", call[k].session = s,
               \/ call[k].pc = "adopt"
               \/ call[k].handle /\ call[k].closes /\ call[k].pc \in {"set", "kill", "shut"}
        PROVE  Goal
    <2>1. CallPath(k)
      BY <1>0, QuietCallSteps
    <2>2. CASE call'[k] = call[k]
      BY <1>4, <2>2 DEF Held
    <2>3. CASE Adopt(k)
      BY <1>0, <1>4, <2>3 DEF Adopt
    <2>4. CASE SetEvents(k)
      BY <1>4, <2>1, <2>4 DEF CallPath, SameErrand, Held
    <2>5. CASE Kill(k) \/ Shut(k)
      <3>1. shell' = [shell EXCEPT ![s] = "dead"]
        BY <1>4, <2>1, <2>5 DEF Kill, Shut, Terminate, CallPath
      <3> QED
        BY <1>0, <3>1
    <2>6. CASE QuietCall(k) /\ ~(Adopt(k) \/ SetEvents(k) \/ Kill(k) \/ Shut(k))
      BY <1>4, <2>1, <2>6 DEF CallPath, QuietCall
    <2>7. ~(Insert(k) \/ Register(k) \/ ThreadStart(k) \/ Finish(k) \/ \E r \in Sessions : CloseBegin(k, r))
      BY <1>4 DEF Insert, Register, ThreadStart, Finish, CloseBegin, CloseTaking, At, Begins
    <2> HIDE DEF Goal
    <2> QED
      BY <1>0, <2>2, <2>3, <2>4, <2>5, <2>6, <2>7, CallMovedBy, Zenon
  <1>5. ASSUME NEW w \in Commands, shell[s] = "alive", WorkerAt(w, "kill"), Shell(w) = s
        PROVE  Goal
    <2>1. Own(w) \in Commands /\ RowOf(w, s)
      BY <1>0, <1>5 DEF WorkersShaped, Workers, Resting, Own, WorkerAt, References
    <2>2. command'[w].session = s
      BY <1>0, <2>1, PresentStays DEF RowOf, Present, SessionOf
    <2>3. CASE worker'[w].command = Own(w)
      <3>1. OwnerPath(w, Own(w))
        BY <1>0, <2>1, <2>3, OwnersCome DEF Core
      <3>2. CASE worker'[w] = worker[w]
        BY <1>5, <2>2, <3>2 DEF WorkerAt
      <3>3. CASE WorkerKill(w)
        <4>1. shell' = [shell EXCEPT ![s] = "dead"]
          BY <1>5, <3>3 DEF WorkerKill, Terminate
        <4> QED
          BY <1>0, <4>1
      <3>4. CASE QuietWorker(w) /\ WorkerPath(w, Own(w)) /\ ~WorkerKill(w)
        BY <1>5, <3>4 DEF WorkerPath, QuietWorker, WorkerAt
      <3> HIDE DEF Goal
      <3> QED
        BY <1>5, <3>1, <3>2, <3>3, <3>4 DEF OwnerPath, WorkerAt, Pop
    <2>4. CASE worker'[w].command # Own(w)
      <3>1. Forget(w)
        BY <1>0, <2>1, <2>4, OwnersStay DEF Core, Places
      <3> QED
        BY <1>5, <3>1 DEF Forget, WorkerAt
    <2> QED
      BY <2>3, <2>4
  <1> HIDE DEF Goal
  <1>6. \/ live[s]
        \/ shell[s] # "alive"
        \/ \E k \in Callers :
             /\ call[k].session = s
             /\ \/ call[k].pc = "adopt"
                \/ call[k].handle /\ call[k].closes /\ call[k].pc \in {"set", "kill", "shut"}
        \/ \E w \in Commands : WorkerAt(w, "kill") /\ Shell(w) = s
    BY DEF Owning, ShellIsOwned, IsRunning
  <1>7. CASE shell[s] = "alive" /\ ~live[s]
    BY <1>4, <1>5, <1>6, <1>7
  <1> QED
    BY <1>1, <1>2, <1>3, <1>7

LEMMA OwningKept ==
  ASSUME Core, NewSessions, Owning, NobodyCancels, [Next]_vars
  PROVE  Owning'
PROOF
  <1>1. \A k \in Callers :
          /\ call'[k].op # "cancel"
          /\ call'[k].pc \in EndPcs => ~live'[call'[k].session]
          /\ call'[k].pc = "set" => call'[k].events \subseteq call'[k].todo
    BY OwningCalls
  <1>2. \A c \in canceled' : Present(c)' /\ ~live'[SessionOf(c)']
    BY OwningCanceled
  <1>3. ASSUME NEW w \in Commands, worker'[w].command \in Commands
        PROVE  /\ ~worker'[w].handle => ~live'[command'[w].session]
               /\ \/ worker'[w].pc \in {"mark", "drop"}
                  \/ worker'[w].pc = "confirm" /\ worker'[w].closes
                  => ~live'[command'[w].session] \/ shell'[command'[w].session] # "alive"
    BY <1>3, OwningWorkers DEF IsRunning
  <1> QED
    BY <1>1, <1>2, <1>3, ShellIsOwnedKept DEF Owning, At, Own, Shell, IsRunning

LEMMA InitOwning == Init => Owning
PROOF
  <1> SUFFICES ASSUME Init PROVE Owning
    OBVIOUS
  <1>1. ShellIsOwned
    BY DEF Init, ShellIsOwned, IsRunning
  <1>2. \A k \in Callers : call[k].op = "none" /\ call[k].pc = "idle"
    BY DEF Init, NoCall
  <1>3. canceled = {} /\ \A w \in Commands : Own(w) \notin Commands
    BY NamesAssumption DEF Init, NoWorker, Own
  <1> QED
    BY <1>1, <1>2, <1>3 DEF Owning, At, EndPcs

\* Where no client uses cancel_command (start, close and create race freely),
\* the shell of a session that the service no longer lists is in the hands of
\* somebody who goes on to end it.  With cancel_command it is not so: the worker of
\* a command that was seen queued, and canceled, drops its session without a kill,
\* and the shell is in nobody's hands until the session object is finalized.
THEOREM ShellOwned ==
  ASSUME NobodyCancels
  PROVE  Spec => []ShellIsOwned
PROOF
  <1>1. Init => Core /\ NewSessions /\ Owning
    BY InitCore, InitNewSessions, InitOwning
  <1>2. Core /\ NewSessions /\ Owning /\ [Next]_vars => (Core /\ NewSessions /\ Owning)'
    BY NobodyCancels, CoreKept, NewSessionsKept, OwningKept
  <1>3. Owning => ShellIsOwned
    BY DEF Owning
  <1> QED
    BY <1>1, <1>2, <1>3, PTL DEF Spec

-----------------------------------------------------------------------------
(* Nothing is recorded timed out in a shell that runs *)

\* A worker past the kill that a deadline asks for has no shell left.
TimersHaveKilled ==
  \A w \in Commands :
    Own(w) \in Commands /\ worker[w].pc \in NeedsOutcome \ {"kill"} /\ worker[w].outcome = "timed_out"
      => ~IsRunning(Shell(w))

TimersHaveKilledFor(w, s) ==
  worker[w].pc \in NeedsOutcome \ {"kill"} /\ worker[w].outcome = "timed_out" => ~IsRunning(s)

LEMMA TimerKept ==
  ASSUME Core, NewSessions, TimersHaveKilled, [Next]_vars, NEW w \in Commands, NEW c \in Commands,
         worker'[w].command = c, NEW s, s = Shell(w)
  PROVE  /\ command'[w].session = s
         /\ TimersHaveKilledFor(w, s)'
PROOF
  <1>0. /\ Shapes /\ Places /\ References /\ WorkersShaped
        /\ shell \in [Sessions -> {"none", "alive", "dead"}]
    BY DEF Core, Shapes, Typed
  <1>1. OwnerPath(w, c)
    BY <1>0, OwnersCome
  <1>2. RowOf(w, s)
    <2>1. c # NoCommand
      BY NamesAssumption
    <2>2. worker[w].pc # "none"
      BY <1>0, <1>1, <2>1 DEF OwnerPath, WorkersShaped, Resting, Pop, WorkerAt
    <2> QED
      BY <1>0, <2>2 DEF References
  <1>3. s \in Sessions /\ (~IsRunning(s) => ~IsRunning(s)')
    BY <1>2, GoneStays
  <1>4. command'[w].session = s
    BY <1>0, <1>2, PresentStays DEF RowOf, Present, SessionOf
  <1>5. Own(w) = c => TimersHaveKilledFor(w, s)
    BY DEF TimersHaveKilled, TimersHaveKilledFor
  <1> USE DEF TimersHaveKilledFor, NeedsOutcome, EndingPcs
  <1>6. CASE Own(w) = c /\ worker'[w] = worker[w]
    BY <1>3, <1>4, <1>5, <1>6
  <1>7. CASE worker'[w].pc \in {"started", "launch", "error", "watch", "forget", "screen"}
    BY <1>4, <1>7
  <1>8. CASE Own(w) = c /\ QuietWorker(w) /\ WorkerPath(w, c)
    <2>1. CASE CheckCanceled(w) \/ CheckLive(w) \/ Watch(w) \/ WatchCancel(w) \/ WatchDeadline(w)
      BY <1>4, <1>8, <2>1 DEF WorkerPath
    <2>2. CASE WorkerKill(w)
      <3>1. shell' = [shell EXCEPT ![s] = "dead"]
        BY <2>2 DEF WorkerKill, Terminate
      <3> QED
        BY <1>0, <1>3, <1>4, <3>1 DEF IsRunning
    <2>3. CASE Ended(w) \/ WorkerError(w) \/ AppendStarted(w) \/ AppendStderr(w)
      BY <1>4, <1>8, <2>3 DEF WorkerPath
    <2>4. CASE Confirm(w) \/ WorkerMark(w) \/ WorkerDrop(w) \/ AppendOutput(w)
      BY <1>3, <1>4, <1>5, <1>8, <2>4 DEF WorkerPath
    <2> QED
      BY <1>8, <2>1, <2>2, <2>3, <2>4 DEF QuietWorker
  <1> QED
    BY <1>1, <1>6, <1>7, <1>8 DEF OwnerPath

LEMMA KilledBeforeRecordedKept ==
  ASSUME Core, NewSessions, TimersHaveKilled, KilledBeforeRecorded, [Next]_vars
  PROVE  KilledBeforeRecorded'
PROOF
  <1>0. Shapes /\ References /\ WorkersShaped
    BY DEF Core, Shapes
  <1> SUFFICES ASSUME NEW c \in Commands, command'[c].status = "timed_out"
               PROVE  ~IsRunning(SessionOf(c))'
    BY DEF KilledBeforeRecorded
  <1>f. ASSUME NEW w \in Commands, WorkerFinish(w), Own(w) = c
        PROVE  worker[w].pc = "finish" /\ RowOf(c, Shell(w))
    BY <1>0, <1>f DEF WorkerFinish, WorkerAt, References, Resting
  <1>m. \/ command[c].status = "timed_out"
        \/ \E w \in Commands : WorkerFinish(w) /\ Own(w) = c /\ worker[w].outcome = "timed_out"
    BY <1>0, StatusMoves
  <1>1. RowOf(c, SessionOf(c))
    BY <1>f, <1>m DEF RowOf
  <1>2. ~IsRunning(SessionOf(c))
    <2>1. ASSUME NEW w \in Commands, WorkerFinish(w), Own(w) = c, worker[w].outcome = "timed_out"
          PROVE  ~IsRunning(SessionOf(c))
      <3>1. worker[w].pc = "finish" /\ RowOf(c, Shell(w))
        BY <1>f, <2>1
      <3> QED
        BY <2>1, <3>1 DEF TimersHaveKilled, NeedsOutcome, EndingPcs, RowOf
    <2> QED
      BY <1>m, <2>1 DEF KilledBeforeRecorded
  <1>3. ASSUME NEW s, s = SessionOf(c) PROVE ~IsRunning(SessionOf(c))'
    <2>1. SessionOf(c)' = s
      BY <1>0, <1>1, <1>3, PresentStays DEF RowOf, Present
    <2>2. ~IsRunning(s)'
      BY <1>1, <1>2, <1>3, GoneStays
    <2> QED
      BY <2>1, <2>2 DEF IsRunning
  <1> QED
    BY <1>3

\* A command is recorded as timed out after its shell has been killed, however
\* its deadline races the end of its execution, cancels and closes.
THEOREM KilledThenRecorded == Spec => []KilledBeforeRecorded
PROOF
  <1>1. Init => TimersHaveKilled /\ KilledBeforeRecorded
    <2> SUFFICES ASSUME Init PROVE TimersHaveKilled /\ KilledBeforeRecorded
      OBVIOUS
    <2>1. \A w \in Commands : Own(w) \notin Commands
      BY NamesAssumption DEF Init, NoWorker, Own
    <2>2. \A c \in Commands : command[c].status # "timed_out"
      BY DEF Init, Tables!Init, Tables!NoCommandRow
    <2> QED
      BY <2>1, <2>2 DEF TimersHaveKilled, KilledBeforeRecorded
  <1>2. ASSUME Core, NewSessions, TimersHaveKilled, [Next]_vars
        PROVE  TimersHaveKilled'
    <2>1. ASSUME NEW w \in Commands, worker'[w].command \in Commands, NEW s, s = Shell(w),
                 worker'[w].pc \in NeedsOutcome \ {"kill"}, worker'[w].outcome = "timed_out"
          PROVE  ~IsRunning(Shell(w))'
      <3>1. command'[w].session = s /\ TimersHaveKilledFor(w, s)'
        BY <1>2, <2>1, TimerKept
      <3> QED
        BY <2>1, <3>1 DEF TimersHaveKilledFor, IsRunning, Shell
    <2> QED
      BY <2>1 DEF TimersHaveKilled, Own
  <1> QED
    BY <1>1, <1>2, KillingInvariant, KilledBeforeRecordedKept, PTL DEF Spec

-----------------------------------------------------------------------------
(* The promise to clients *)

\* A command that is still queued does not execute.
QueuedIsIdle == \A c \in Commands : command[c].status = "queued" => exec[c] = "none"

LEMMA QueuedIsIdleKept ==
  ASSUME Core, QueuedIsIdle, [Next]_vars
  PROVE  QueuedIsIdle'
PROOF
  <1> SUFFICES ASSUME NEW c \in Commands, command'[c].status = "queued" PROVE exec'[c] = "none"
    BY DEF QueuedIsIdle
  <1>0. /\ Shapes /\ OwnersKnow /\ UnregisteredIsFree /\ WorkersShaped
    BY DEF Core, Progressing, Places, Shapes
  <1>1. exec[c] = "none"
    <2>1. \A w \in Commands : WorkerFinish(w) => worker[w].outcome # "queued"
      BY <1>0 DEF WorkerFinish, WorkerAt, WorkersShaped, NeedsOutcome, EndingPcs, Tables!Terminal
    <2>2. command[c].status = "absent" => exec[c] = "none"
      BY <1>0 DEF UnregisteredIsFree, Unregistered, Present
    <2>3. command'[c] = command[c] => exec[c] = "none"
      BY DEF QueuedIsIdle
    <2> QED
      BY <1>0, <2>1, <2>2, <2>3, StatusMoves
  <1>2. ASSUME NEW w \in Commands, Launch(w), Own(w) = c, worker[w].pc = "launch" PROVE FALSE
    <2>1. command' = command
      BY <1>2 DEF Launch, tables
    <2>2. command[c].status \in {"running", "canceled"}
      BY <1>0, <1>2 DEF OwnersKnow, Knows, Undecided
    <2> QED
      BY <2>1, <2>2
  <1> QED
    BY <1>0, <1>1, <1>2, ExecStays

\* The events of a command as CommandLifecycle reads them.
LogIn(rows) == [i \in 1..Cardinality(rows) |-> (CHOOSE e \in rows : e.seq = i).type]
LogOf(c) == LogIn(events[c])

LEMMA LogReads ==
  ASSUME Stored, NEW c \in Commands, NEW t
  PROVE  (\E i \in DOMAIN LogOf(c) : LogOf(c)[i] = t) <=> Rows(c, t) # {}
PROOF
  <1>1. PICK n \in Nat : /\ {e.seq : e \in events[c]} = 1..n
                         /\ \A e, f \in events[c] : e.seq = f.seq => e = f
                         /\ Cardinality(events[c]) = n
    BY EventsNumbered
  <1>2. \A e \in events[c] : e.seq \in 1..n /\ (CHOOSE f \in events[c] : f.seq = e.seq) = e
    BY <1>1
  <1>3. \A i \in 1..n : \E e \in events[c] : e.seq = i
    BY <1>1
  <1>4. DOMAIN LogOf(c) = 1..n /\ \A e \in events[c] : LogOf(c)[e.seq] = e.type
    BY <1>1, <1>2 DEF LogOf, LogIn
  <1> QED
    BY <1>2, <1>3, <1>4 DEF Rows

LEMMA LogAppends ==
  ASSUME Stored, NEW c \in Commands, NEW type, Adds(c, type)
  PROVE  LogOf(c)' = Append(LogOf(c), type)
PROOF
  <1>1. PICK n \in Nat : /\ {e.seq : e \in events[c]} = 1..n
                         /\ \A e, f \in events[c] : e.seq = f.seq => e = f
                         /\ Tables!NextSeq(c) = n + 1
                         /\ IsFiniteSet(events[c]) /\ Cardinality(events[c]) = n
    BY EventsNumbered
  <1> DEFINE new == EventOf(c, type)
  <1>2. /\ new \notin events[c] /\ events'[c] = events[c] \cup {new}
        /\ new.seq = n + 1 /\ new.type = type
    BY <1>1 DEF Adds, EventOf
  <1> HIDE DEF new
  <1>3. Cardinality(events'[c]) = n + 1
    BY <1>1, <1>2, FS_AddElement
  <1>4. \A e \in events[c] : e.seq \in 1..n
    BY <1>1
  <1>5. ASSUME NEW i \in 1..n
        PROVE  (CHOOSE e \in events'[c] : e.seq = i) = (CHOOSE e \in events[c] : e.seq = i)
    <2>1. PICK e \in events[c] : e.seq = i
      BY <1>1
    <2>2. \A f \in events'[c] : f.seq = i => f = e
      BY <1>1, <1>2, <2>1
    <2>3. e \in events'[c] /\ \A f \in events[c] : f.seq = i => f = e
      BY <1>2, <2>2
    <2>4. (CHOOSE f \in events'[c] : f.seq = i) = e
      BY <2>1, <2>2, <2>3
    <2>5. (CHOOSE f \in events[c] : f.seq = i) = e
      BY <2>1, <2>3
    <2> QED
      BY <2>4, <2>5
  <1>6. (CHOOSE e \in events'[c] : e.seq = n + 1) = new
    <2>1. \A f \in events'[c] : f.seq = n + 1 => f = new
      BY <1>2, <1>4
    <2> QED
      BY <1>2, <2>1
  <1> DEFINE at(i) == (CHOOSE e \in events[c] : e.seq = i).type
             S == {at(i) : i \in 1..n}
             old == [i \in 1..n |-> at(i)]
             all == [i \in 1..(n + 1) |-> IF i = n + 1 THEN type ELSE at(i)]
  <1>7. LogOf(c) = old
    BY <1>1 DEF LogOf, LogIn
  <1> DEFINE next(i) == CHOOSE e \in events'[c] : e.seq = i
             now(i) == CHOOSE e \in events[c] : e.seq = i
  <1>8. LogOf(c)' = all
    <2>a. next(n + 1) = new /\ \A i \in 1..n : next(i) = now(i)
      BY <1>5, <1>6
    <2>b. LogOf(c)' = [i \in 1..(n + 1) |-> next(i).type] /\ \A i : at(i) = now(i).type
      BY <1>3 DEF LogOf, LogIn
    <2> HIDE DEF at, now, next
    <2>1. ASSUME NEW i \in 1..(n + 1)
          PROVE  next(i).type = IF i = n + 1 THEN type ELSE at(i)
      BY <1>2, <2>a, <2>b
    <2> QED
      BY <2>b, <2>1
  <1> HIDE DEF at
  <1>9. old \in Seq(S)
    <2>1. old \in [1..n -> S]
      OBVIOUS
    <2> QED
      BY <2>1, SeqDef
  <1>10. Append(old, type) = all
    <2>1. Len(old) = n
      BY <1>9, LenProperties
    <2> QED
      BY <1>9, <2>1
  <1> QED
    BY <1>7, <1>8, <1>10

\* What a step does to the life of a command.
Stays(c) == command'[c].status = command[c].status /\ events'[c] = events[c]
Moves(c, from, to) ==
  command[c].status = from /\ command'[c].status = to /\ events'[c] = events[c]
Reports(c, t) ==
  /\ command[c].status \in {"starting", "running", "timed_out", "canceled"}
  /\ command'[c].status = command[c].status
  /\ Rows(c, "command_started") # {} <=> t # "command_started"
  /\ Adds(c, t)
EndsAs(c, st) ==
  /\ command[c].status \in {"queued", "starting", "running"}
  /\ command[c].status = "queued" => st = "canceled"
  /\ command'[c].status = st
  /\ Adds(c, Tables!TerminalEvent[st])
LifeStep(c) ==
  \/ Stays(c)
  \/ Moves(c, "absent", "queued") \/ Moves(c, "queued", "starting") \/ Moves(c, "starting", "running")
  \/ \E t \in {"command_started", "stdout", "stderr"} : Reports(c, t)
  \/ \E st \in Tables!Terminal : EndsAs(c, st)

\* A command whose row stays as it is, logs nothing or reports.
LEMMA ReportSteps ==
  ASSUME Core, QueuedIsIdle, [Next]_vars, NEW c \in Commands, command'[c] = command[c]
  PROVE  Stays(c) \/ \E t \in {"command_started", "stdout", "stderr"} : Reports(c, t)
PROOF
  <1>0. /\ Shapes /\ Places /\ OwnersKnow /\ OthersFollow /\ UnregisteredIsFree
        /\ Stored /\ LoggedOf(c) /\ WorkersShaped
    BY DEF Core, Progressing, Places, Counted, Shapes
  <1>a. exec[c] \notin {"none"} \cup Done =>
          command[c].status \in {"starting", "running", "timed_out", "canceled"}
    <2>1. command[c].status = "absent" => exec[c] = "none"
      BY <1>0 DEF UnregisteredIsFree, Unregistered, Present
    <2>2. command[c].status \in Tables!CommandStatuses \cup {"absent"}
      BY <1>0 DEF Shapes, Typed, Tables!CommandRows
    <2> QED
      BY <1>0, <2>1, <2>2
      DEF QueuedIsIdle, OthersFollow, Tables!CommandStatuses, Tables!Progress, Tables!Terminal
  <1>b. exec[c] # "none" => Rows(c, "command_started") # {}
    BY <1>0 DEF LoggedOf
  <1>1. ASSUME NEW w \in Commands, Own(w) = c, AppendStarted(w), Adds(c, "command_started")
        PROVE  Reports(c, "command_started")
    <2>1. worker[w].pc = "started"
      BY <1>1 DEF AppendStarted, WorkerAt
    <2>2. command[c].status \in {"starting", "canceled"}
      BY <1>0, <1>1, <2>1 DEF OwnersKnow, Knows
    <2>3. Rows(c, "command_started") = {}
      BY <1>0, <1>1, <2>1 DEF LoggedOf, NotStarted, BeforeStart
    <2> QED
      BY <1>1, <2>2, <2>3 DEF Reports
  <1>2. ASSUME NEW w \in Commands, Own(w) = c, NEW t \in {"stdout", "stderr"},
               AppendOutput(w) \/ AppendStderr(w), Adds(c, t)
        PROVE  Reports(c, t)
    <2>1. worker[w].pc \in {"output", "stderr"}
      BY <1>2 DEF AppendOutput, AppendStderr, WorkerAt
    <2>2. command[c].status \in {"running", "canceled"} /\ exec[c] \in Done
      BY <1>0, <1>2, <2>1 DEF OwnersKnow, Knows, Undecided
    <2>3. Rows(c, "command_started") # {}
      BY <1>b, <2>2 DEF Done
    <2> QED
      BY <1>2, <2>2, <2>3 DEF Reports
  <1>3. ASSUME ExecEmit(c), Adds(c, "stdout") PROVE Reports(c, "stdout")
    <2>1. exec[c] = "emitting"
      BY <1>3 DEF ExecEmit
    <2>2. exec[c] \notin {"none"} \cup Done
      BY <2>1 DEF Done
    <2> QED
      BY <1>3, <1>a, <1>b, <2>2 DEF Reports
  <1>4. ASSUME NEW k \in Callers, Finish(k), call[k].command = c, ~Tables!IsTerminal(c) PROVE FALSE
    BY <1>0, <1>4, FinishEnds DEF Tables!IsTerminal
  <1>5. ASSUME NEW w \in Commands, WorkerFinish(w), Own(w) = c, ~Tables!IsTerminal(c) PROVE FALSE
    <2>1. Tables!FinishCommand(c, worker[w].outcome) /\ worker[w].outcome \in Tables!Terminal
      BY <1>0, <1>5 DEF WorkerFinish, WorkerAt, WorkersShaped, NeedsOutcome, EndingPcs
    <2>2. command'[c].status = worker[w].outcome
      BY <1>0, <1>5, <2>1 DEF Tables!FinishCommand, Shapes, Typed
    <2> QED
      BY <1>5, <2>1, <2>2 DEF Tables!IsTerminal
  <1>6. events'[c] = events[c] => Stays(c)
    BY DEF Stays
  <1> QED
    BY <1>0, <1>1, <1>2, <1>3, <1>4, <1>5, <1>6, EventsMovedBy

LEMMA LifeSteps ==
  ASSUME Core, QueuedIsIdle, [Next]_vars, NEW c \in Commands
  PROVE  LifeStep(c)
PROOF
  <1>0. /\ Shapes /\ OwnersKnow /\ OthersFollow /\ Stored /\ WorkersShaped
        /\ command[c].status \in Tables!CommandStatuses \cup {"absent"}
    BY DEF Core, Progressing, Shapes, Typed, Tables!CommandRows
  <1>1. CASE command'[c] = command[c]
    BY <1>1, ReportSteps DEF LifeStep
  <1>2. ASSUME NEW k \in Callers, Insert(k), call[k].command = c,
               command[c].status = "absent", command'[c].status = "queued"
        PROVE  LifeStep(c)
    <2>1. events' = events
      BY <1>2 DEF Insert, Tables!CreateCommand
    <2> QED
      BY <1>2, <2>1 DEF LifeStep, Moves
  <1>3. ASSUME NEW st \in Tables!Terminal, Tables!FinishCommand(c, st), ~Tables!IsTerminal(c),
               command[c].status = "queued" => st = "canceled",
               command'[c].status = st
        PROVE  LifeStep(c)
    <2>1. Adds(c, Tables!TerminalEvent[st])
      BY <1>0, <1>3, OneEventAdded
    <2>2. command[c].status \in {"queued", "starting", "running"}
      BY <1>0, <1>3
      DEF Tables!FinishCommand, Tables!IsTerminal, Tables!CommandStatuses, Tables!Progress
    <2> QED
      BY <1>3, <2>1, <2>2 DEF LifeStep, EndsAs
  <1>4. ASSUME NEW k \in Callers, Finish(k), call[k].command = c, ~Tables!IsTerminal(c),
               command'[c].status = "canceled"
        PROVE  LifeStep(c)
    <2>1. Tables!FinishCommand(c, "canceled") /\ "canceled" \in Tables!Terminal
      BY <1>4 DEF Finish, Tables!Terminal
    <2> QED
      BY <1>3, <1>4, <2>1
  <1>5. ASSUME NEW w \in Commands, WorkerFinish(w), Own(w) = c, ~Tables!IsTerminal(c),
               command'[c].status = worker[w].outcome
        PROVE  LifeStep(c)
    <2>1. worker[w].pc = "finish" /\ Tables!FinishCommand(c, worker[w].outcome)
      BY <1>5 DEF WorkerFinish, WorkerAt
    <2>2. worker[w].outcome \in Tables!Terminal
      BY <1>0, <2>1 DEF WorkersShaped, NeedsOutcome, EndingPcs
    <2>3. command[c].status = "queued" => worker[w].outcome = "canceled"
      BY <1>0, <1>5, <2>1 DEF OwnersKnow, Knows, EndingPcs
    <2> QED
      BY <1>3, <1>5, <2>1, <2>2, <2>3
  <1>6. ASSUME NEW w \in Commands, SetProgress(w), Own(w) = c, ~command[c].endedAt,
               \/ worker[w].pc = "starting" /\ command'[c].status = "starting"
               \/ worker[w].pc = "running" /\ command'[c].status = "running"
        PROVE  LifeStep(c)
    <2>1. events' = events
      BY <1>6 DEF SetProgress, Tables!UpdateCommand, tables
    <2>2. command[c].status # "canceled"
      BY <1>0, <1>6 DEF OthersFollow, Tables!IsTerminal, Tables!Terminal
    <2>3. /\ worker[w].pc = "starting" => command[c].status = "queued"
          /\ worker[w].pc = "running" => command[c].status = "starting"
      BY <1>0, <1>6, <2>2 DEF OwnersKnow, Knows
    <2> QED
      BY <1>6, <2>1, <2>3 DEF LifeStep, Moves
  <1> QED
    BY <1>0, <1>1, <1>2, <1>4, <1>5, <1>6, StatusMoves

\* A step changes the row and the log of one command at most.
LEMMA OneCommandMoves ==
  ASSUME [Tables!Next]_Tables!tables,
         command \in [Commands -> Tables!CommandRows], events \in [Commands -> SUBSET Tables!EventRows]
  PROVE  \/ UNCHANGED <<command, events>>
         \/ \E c \in Commands : \A d \in Commands \ {c} :
              command'[d] = command[d] /\ events'[d] = events[d]
PROOF
  <1>1. ASSUME NEW s,
               \/ Tables!CreateSession(s)
               \/ \E st, closes : Tables!UpdateSession(s, st, closes)
        PROVE  UNCHANGED <<command, events>>
    BY <1>1 DEF Tables!CreateSession, Tables!UpdateSession
  <1>2. ASSUME NEW c \in Commands,
               \/ \E s : Tables!CreateCommand(c, s)
               \/ \E st : Tables!UpdateCommand(c, st)
               \/ \E batch : Tables!AppendEvents(c, batch)
               \/ \E st : Tables!FinishCommand(c, st)
        PROVE  \A d \in Commands \ {c} : command'[d] = command[d] /\ events'[d] = events[d]
    <2>1. CASE \E s : Tables!CreateCommand(c, s)
      BY <2>1 DEF Tables!CreateCommand
    <2>2. CASE \E st : Tables!UpdateCommand(c, st)
      BY <2>2 DEF Tables!UpdateCommand
    <2>3. CASE \E batch : Tables!AppendEvents(c, batch)
      BY <2>3 DEF Tables!AppendEvents
    <2>4. CASE \E st : Tables!FinishCommand(c, st)
      BY <2>4 DEF Tables!FinishCommand, Tables!tables
    <2> QED
      BY <1>2, <2>1, <2>2, <2>3, <2>4
  <1> QED
    BY <1>1, <1>2 DEF Tables!Next, Tables!tables

\* What CommandLifecycle sees.
StatusView == [c \in Commands |-> command[c].status]
LogView == [c \in Commands |-> LogOf(c)]

LEMMA LifecycleSees ==
  /\ Lifecycle!Init <=> /\ StatusView = [c \in Commands |-> "absent"]
                        /\ LogView = [c \in Commands |-> <<>>]
  /\ Lifecycle!vars = <<StatusView, LogView>>
  /\ Lifecycle!vars' = <<StatusView', LogView'>>
  /\ \A c, from, to : Lifecycle!Move(c, from, to) <=>
       /\ StatusView[c] = from
       /\ StatusView' = [StatusView EXCEPT ![c] = to]
       /\ LogView' = LogView
  /\ \A c, t : Lifecycle!Report(c, t) <=>
       /\ StatusView[c] \in {"starting", "running", "timed_out", "canceled"}
       /\ (\E i \in DOMAIN LogView[c] : LogView[c][i] = "command_started") <=> t # "command_started"
       /\ LogView' = [LogView EXCEPT ![c] = Append(@, t)]
       /\ StatusView' = StatusView
  /\ \A c, st : Lifecycle!End(c, st) <=>
       /\ StatusView[c] \in {"queued", "starting", "running"}
       /\ StatusView[c] = "queued" => st = "canceled"
       /\ StatusView' = [StatusView EXCEPT ![c] = st]
       /\ LogView' = [LogView EXCEPT ![c] = Append(@, Tables!TerminalEvent[st])]
PROOF
  BY DEF Lifecycle!Init, Lifecycle!vars, Lifecycle!Move, Lifecycle!Report, Lifecycle!End,
         Lifecycle!Logged, Lifecycle!Active, Lifecycle!Endings, Tables!TerminalEvent,
         StatusView, LogView, LogOf, LogIn

\* The views after a step that changes one command.
LEMMA ViewsMove ==
  ASSUME NEW c \in Commands,
         \A d \in Commands \ {c} : command'[d] = command[d] /\ events'[d] = events[d]
  PROVE  /\ StatusView' = [StatusView EXCEPT ![c] = command'[c].status]
         /\ LogView' = [LogView EXCEPT ![c] = LogOf(c)']
         /\ events'[c] = events[c] => LogView' = LogView
         /\ command'[c].status = command[c].status => StatusView' = StatusView
PROOF
  <1>1. \A d \in Commands \ {c} : LogOf(d)' = LogOf(d)
    BY DEF LogOf
  <1>2. events'[c] = events[c] => LogOf(c)' = LogOf(c)
    BY DEF LogOf
  <1>3. LogView' = [d \in Commands |-> LogOf(d)']
    BY DEF LogView
  <1>4. StatusView' = [d \in Commands |-> command'[d].status]
    BY DEF StatusView
  <1> HIDE DEF LogOf
  <1> QED
    BY <1>1, <1>2, <1>3, <1>4 DEF StatusView, LogView

LEMMA LifecycleMoves ==
  ASSUME Core, QueuedIsIdle, [Next]_vars
  PROVE  Lifecycle!Next \/ (StatusView' = StatusView /\ LogView' = LogView)
PROOF
  <1>0. /\ Stored /\ [Tables!Next]_Tables!tables /\ command \in [Commands -> Tables!CommandRows]
        /\ events \in [Commands -> SUBSET Tables!EventRows]
    BY CoreKept, SameTables DEF Core, Shapes, Typed, Stored, StoreProofs!IInv, Tables!TypeOK
  <1>1. CASE UNCHANGED <<command, events>>
    BY <1>1 DEF StatusView, LogView, LogOf
  <1>2. ASSUME NEW c \in Commands,
               \A d \in Commands \ {c} : command'[d] = command[d] /\ events'[d] = events[d]
        PROVE  Lifecycle!Next \/ (StatusView' = StatusView /\ LogView' = LogView)
    <2>1. /\ StatusView' = [StatusView EXCEPT ![c] = command'[c].status]
          /\ LogView' = [LogView EXCEPT ![c] = LogOf(c)']
          /\ events'[c] = events[c] => LogView' = LogView
          /\ command'[c].status = command[c].status => StatusView' = StatusView
      BY <1>2, ViewsMove
    <2>2. StatusView[c] = command[c].status /\ LogView[c] = LogOf(c)
      BY DEF StatusView, LogView
    <2>3. \A type : Adds(c, type) => LogView' = [LogView EXCEPT ![c] = Append(@, type)]
      BY <1>0, <2>1, <2>2, LogAppends
    <2>4. CASE Stays(c)
      BY <2>1, <2>4 DEF Stays
    <2>5. ASSUME NEW from, NEW to, Moves(c, from, to) PROVE Lifecycle!Move(c, from, to)
      <3>1. /\ StatusView[c] = from /\ StatusView' = [StatusView EXCEPT ![c] = to]
            /\ LogView' = LogView
        BY <2>1, <2>2, <2>5 DEF Moves
      <3> QED
        BY <3>1, LifecycleSees
    <2>6. ASSUME NEW t \in {"command_started", "stdout", "stderr"}, Reports(c, t)
          PROVE  Lifecycle!Report(c, t)
      <3>1. (\E i \in DOMAIN LogOf(c) : LogOf(c)[i] = "command_started") <=> t # "command_started"
        BY <1>0, <2>6, LogReads DEF Reports
      <3>2. /\ StatusView[c] \in {"starting", "running", "timed_out", "canceled"}
            /\ (\E i \in DOMAIN LogView[c] : LogView[c][i] = "command_started") <=> t # "command_started"
            /\ LogView' = [LogView EXCEPT ![c] = Append(@, t)]
            /\ StatusView' = StatusView
        BY <2>1, <2>2, <2>3, <2>6, <3>1 DEF Reports
      <3> QED
        BY <3>2, LifecycleSees
    <2>7. ASSUME NEW st \in Tables!Terminal, EndsAs(c, st) PROVE Lifecycle!End(c, st)
      <3>1. /\ StatusView[c] \in {"queued", "starting", "running"}
            /\ StatusView[c] = "queued" => st = "canceled"
            /\ StatusView' = [StatusView EXCEPT ![c] = st]
            /\ LogView' = [LogView EXCEPT ![c] = Append(@, Tables!TerminalEvent[st])]
        BY <2>1, <2>2, <2>3, <2>7 DEF EndsAs
      <3> QED
        BY <3>1, LifecycleSees
    <2>8. Tables!Terminal = DOMAIN Lifecycle!Endings
      BY DEF Tables!Terminal, Lifecycle!Endings
    <2>9. LifeStep(c)
      BY LifeSteps
    <2> QED
      BY <2>4, <2>5, <2>6, <2>7, <2>8, <2>9 DEF LifeStep, Lifecycle!Next
  <1> QED
    BY <1>0, <1>1, <1>2, OneCommandMoves

\* Every interleaving of calls, workers and execution threads shows a client
\* the life of a command in order, with one start, its output after the start
\* and one end, whatever raced to end it: the service implements
\* CommandLifecycle.
THEOREM LifecycleImplemented == Spec => ImplementsLifecycle
PROOF
  <1>1. Init => Core /\ QueuedIsIdle /\ Lifecycle!Init
    <2>1. Init => QueuedIsIdle
      BY DEF Init, QueuedIsIdle
    <2>2. Init => \A c \in Commands : command[c].status = "absent" /\ events[c] = {}
      BY DEF Init, Tables!Init, Tables!NoCommandRow
    <2>3. LogIn({}) = <<>>
      BY FS_EmptySet DEF LogIn
    <2>4. Init => Lifecycle!Init
      <3> SUFFICES ASSUME Init PROVE Lifecycle!Init
        OBVIOUS
      <3>1. StatusView = [c \in Commands |-> "absent"]
        BY <2>2 DEF StatusView
      <3>2. \A c \in Commands : LogOf(c) = <<>>
        BY <2>2, <2>3 DEF LogOf
      <3>3. LogView = [c \in Commands |-> <<>>]
        BY <3>2 DEF LogView
      <3> QED
        BY <3>1, <3>3, LifecycleSees
    <2> QED
      BY <2>1, <2>4, InitCore
  <1>2. Core /\ QueuedIsIdle /\ [Next]_vars => (Core /\ QueuedIsIdle)' /\ [Lifecycle!Next]_(Lifecycle!vars)
    <2> SUFFICES ASSUME Core, QueuedIsIdle, [Next]_vars
                 PROVE  (Core /\ QueuedIsIdle)' /\ [Lifecycle!Next]_(Lifecycle!vars)
      OBVIOUS
    <2>1. Core' /\ QueuedIsIdle'
      BY CoreKept, QueuedIsIdleKept
    <2>2. Lifecycle!Next \/ UNCHANGED Lifecycle!vars
      BY LifecycleMoves, LifecycleSees
    <2> QED
      BY <2>1, <2>2
  <1> QED
    BY <1>1, <1>2, PTL DEF Spec, ImplementsLifecycle, Lifecycle!Spec
=============================================================================
