# LiveShell in TLA+

A verification project for LiveShell (`src/src/liveshell/`): persistent shell
sessions owned by a service, commands queued on them, and a durable record of
both in SQLite that clients poll and replay. Paths below are those of the
package unless they say otherwise.

The project has TLA+ modules for the parts whose correctness depends on the
order in which threads, tasks, messages and transactions happen, TLC
configurations that check them on small instances, and proofs, checked by TLAPS,
of what the service and its store, the two kinds of session objects, the client, the
readers of a log, the recording of a command's output, and the recovery and shutdown
of daemons on a state directory guarantee for any number of sessions, commands,
calls, threads and daemons, and any amount of output.

## The system

| component | state | operations | talks to |
|---|---|---|---|
| store (`store.py`, `models.py`) | tables `session`, `command`, `command_event` | create and update of rows, append of events, `finish_command`, reads | everything |
| service (`LiveShellService`, `daemon.py`) | `_sessions`, `_session_queues`, `_session_queue_threads`, `_command_cancels`, `_command_threads`, under one lock | `create_session`, `start_command`, `cancel_command`, `close_session`; a queue worker thread per session, an execution thread per running command | store; session objects |
| process session (`process.py`) | the shell process, its pipes, a lock, `_closed` | `run_stream`, `close`; `AsyncProcessSession` | the shell |
| hosted PowerShell (`powershell.py`) | a runspace, a lock | `run_result`, `close`; `AsyncPowerShell` | the CLR |
| handles (`handles.py`) | a command id | `poll`, `events`, `result`, `wait`, `cancel` | store, service |
| state directory (`daemon.py`, `runtime.py`) | the database, `daemon.json`, the lock file, the shutdown marker | start-up recovery, `request_shutdown`, `shutdown_requested` | other daemons, the CLI |
| JSON line daemon (`daemon.py`) | the streams or sockets served | `serve_stdio`, `serve_socket`, dispatch | service, client |
| client (`client.py`) | a stream pair, a reader thread, perhaps a daemon process | requests with a timeout, `close` with its fallbacks | daemon |
| command line (`cli.py`) | none | `daemon start`, `daemon stop`, reads | daemon, store |

What is hard: client calls, queue workers and execution threads touch the same
command and session at once, through three different kinds of atomicity (a
region under `_lock`, a SQLite transaction, a single look at a process or an
Event), and most decisions are taken on a value read in an earlier step. Four
paths can end one command (worker, cancel, close, timeout) and two can end the
shell under it. A command of the user may run for ever, and the object's lock is
held while it does. `PROJECT.json` lists each of these places under `hazards`.

What makes each component correct:

- store: numbers of events without gaps in one transaction; one terminal event
  for a terminal status, written with it; an ended row stays ended.
- service: no command is stranded; a command killed for a cancel or a timeout is
  not recorded failed, nor timed out while its shell runs; whatever races, a client
  sees the life of a command in order with one end; the shell of a session that is
  not listed any more ends; a close returns while commands run for ever.
- handles: a cursor loses and repeats nothing; a result tells one story.
- process session: a run collects its own command's output; a session is never
  given a second shell, other than for one that asyncio killed before the session
  had it; one that is closed leaves none alive, whichever task was canceled on the
  way.
- hosted PowerShell: a closed session leaves no runspace open, and a script is not
  run in a closed one.
- output (`daemon.py`, `store.py`): the log of a command is what it printed, in
  whole chunks, and its tails end it.
- state directory: recovery leaves no active row behind, after a crash in the
  middle of it too; a shutdown closes the sessions.
- client: an answer belongs to its request, also after late answers; close ends the
  daemon it owns; a limit is kept whatever the daemon does.

## Modules

| module | what it is |
|---|---|
| `CommandStore` | the tables, one action per transaction |
| `CommandLifecycle` | abstract: what a client is promised about a command |
| `Service` | calls, queue workers, execution threads and shells over `CommandStore` |
| `CommandOutput` | the text of one command, from its execution to log and tails |
| `Reader` | handles that follow commands over `CommandLifecycle` |
| `StateDir` | several daemons, from start to end of process, on one state directory over `CommandStore` |
| `Client` | the calls on one client, its two pipes or socket, and a daemon |
| `SessionCalls` | the calls on one session object, for the next two |
| `ProcessSessions` | `ProcessSession` and `AsyncProcessSession` with the pipes to the shell |
| `PowerShellSessions` | `PowerShell` and `AsyncPowerShell` with their worker threads |
| `CommandStoreProofs`, `ServiceProofs`, `CommandOutputProofs`, `ReaderProofs`, `StateDirProofs`, `ClientProofs`, `ProcessSessionsProofs`, `PowerShellSessionsProofs` | the theorems about the module of that name |
| `MCCommandStore`, `MCService` | symmetry, and the operations each model client uses |
| `MCReader`, `MCSessions` | two modules in one run: a behaviour is one of either, and the other stays in its initial state |

`Service` uses the transactions of `CommandStore` by name
(`Tables == INSTANCE CommandStore`) and implements it (`ImplementsStore`, proved),
so what the theorems say of the tables holds of every use the service makes of them.
It also implements `CommandLifecycle` (`ImplementsLifecycle`, proved too), with the
status of a command and its events by number as the refinement mapping. `Reader` extends `CommandLifecycle`: it may rely on that
promise and on nothing else. `StateDir` uses the transactions of `CommandStore`
as `Service` does.

### CommandStore

`session`, `command` and `events` hold the columns on which code decides. Each
action is one committed transaction of `store.py`; a transaction that raises is
rolled back by `_connect` and changes nothing. The CHECK constraints matter:
`update_command` and `update_session` are unconditional UPDATEs, and what keeps a
canceled command from becoming running, or a closed session from coming back, is
that a row with `ended_at` (`closed_at`) admits terminal (ended) statuses only.
`CanUpdateSession` and `CanUpdateCommand` state these constraints so that
`Service` can take the error path of the caller when they reject an update.

### Service

A step is what no other thread can cut in two. The program counters name the
places between the steps:

- client threads (`call`): `CreateBegin` to `CreateCrash` for `create_session`,
  with both its error paths; `StartBegin`, `Insert`, `Register`, `ThreadStart`
  for `start_command` (the thread is started after the lock is released);
  `CancelBegin`, `CancelLock` and `CloseBegin` for the other two, which then share
  `SetEvents`, `Kill`, `Mark`, `Drop`, `Finish`, `Join`, `Shut`, `Stamp`.
- queue workers (`worker`), each named by the command whose start made it:
  `PopNothing`, `Pop`, the screening of a popped command, the two progress
  updates around the started event, the watch loop, the outcomes, `Forget`.
- execution threads (`exec`): refusal, the object's lock, lines of output, the
  sentinel, end of file; for a hosted session the check before the lock, the lock,
  and the end of the script.
- `ShellExits`: the shell ends for a reason outside LiveShell.
- `Finalize`: a session object that nothing refers to closes itself
  (`Session.__del__` of `runtime.py`), which ends its shell. `IsReferenced` says what
  refers to one: `_sessions`, the locals of calls, workers and execution threads.
  A worker keeps its local until its next pop; nothing looks at it after the
  command, and the model counts it until `Forget`. In CPython the thread that lets
  go of the last reference finalizes the object there and then, unless the exception
  of an execution keeps it in a cycle of frames, which the collector has to find: so
  it is a step of its own.

A session of `MayBeHosted` may be PowerShell in the daemon's own process. It has
no process to kill: `_terminate_session` closes it instead, which waits for the
lock the script holds (`Terminate`), so a cancel, a close or a deadline waits for
the script. What it printed is appended by the worker when it has ended
(`AfterEnd`, `AppendOutput`).

`Drop` and `WorkerDrop` only take a session from the table: the object, and the shell,
last until the thread that did it and the others with a reference have gone on.

`killedFor` is a history variable: for which commands, not at their end by then,
a shell was killed. `Join` raises, as Python does, when the thread to join has not
been started.
Reads that can be merged into one step are, where the values read can only change
in one direction; the comment of each such action says so. A `timeout_seconds` is
a membership in `TimedCommands`: time is not modelled, so the deadline may pass at
any turn of the loop.

Left out: SQLite failures, metadata, texts (in `CommandOutput`), other services on
the same database, recovery and shutdown (these three are in `StateDir`), and the
time limits of joins and of waits for a process to die, which delay a thread and
decide nothing. A terminated process
group is gone when `_terminate_session` returns: the code escalates from SIGTERM
to SIGKILL for this, and the README of the package calls it best effort.

### CommandOutput

One command, whose characters are named by their position in what its stream
printed, so that a lost, repeated or misplaced one shows. Three threads append and
finish: the execution thread (`_execute_command`, a line at a time, with the status
looked at before each append), the queue worker (`SeeEnd` to `FinishOutput`, which
appends what was not streamed) and a call that cancels (`Collect` reads the log for
the tails, another transaction writes them). `EventsOf` is `_append_output_event`
with its cut into chunks, `Joined` is `_collected_output` and `command_result`,
`TailOf` the last `TAIL_LIMIT` characters. It has no queue, no shell and no kill:
the execution may break off at any time, which is more than `Service` does.

### Reader

`events(since_seq)` is one transaction, `result()` is three: a poll that finds the
command terminal, then the command and then its events
(`Store.command_result`). The command goes on between them.

### StateDir

A daemon is one incarnation of a process, so a restart is another daemon, and one
may crash between any two steps. Its main thread (`pc`) removes the marker, writes
`daemon.json`, lists the sessions, recovers them row by row, lists the commands,
recovers them, listens (a socket daemon), serves, leaves its loop and ends.
`request_shutdown` (`stop`) runs beside it: on a connection thread of a socket
daemon, in the loop of a stdio daemon, or at the end of either. Both are modelled
a transaction, file access or locked region a step. What is served is coarser than
in `Service`: rows that are made active, and ended, and sessions that become live
or are given up. `daemon start` looks for a daemon that answers at the port of
`daemon.json`; a client's own stdio daemon is started without a look; operators
write the marker.

`before`, `stoppedBy` and `dropped` are history variables. A process that ends
loses what it has in memory (`Vanish`), in particular the threads that were
closing its sessions.

### Client

`lock` is `self._lock`, held by a request from its write to the answer, over the
timeout too: a request whose limit passes closes the client with the lock in its
hands. `sent` and `answers` are the two pipes, `reading` the readlines under way,
in the order they entered the lock of the buffer: one that nobody waits for any more
still takes the next line. A close is cut where it lets go of the lock and at each
wait for the process (terminate, then kill). `CloseStreams` waits for the readlines:
the buffer's lock is theirs. The daemon answers in order, late or never, and may end
at any time; `transport` says whether the client owns it (`stdio()`) or is connected
to it (`connect()`).

### ProcessSessions, PowerShellSessions

One session object and the calls of `run` and `close` on it, which are threads
(`kind = "sync"`) or tasks of an event loop (`kind = "async"`). In the latter
a task may be canceled at every await (`Cancel`): the locks are let go, `_closed`
is not set, and what was in the pipe stays there.

In `ProcessSessions` a line is the run whose command printed it and whether it is
that run's sentinel. `ReadLine` of `ProcessSession` may end in an exception of the
caller's callback. `stdin` says whether text is left in the buffer of a pipe to a
dead shell, whose close then raises (`Shut`). `create_subprocess_exec` starts the
process before it suspends for the first time, and kills it when it is canceled or
fails while it connects the pipes; `self.process` is assigned after it has returned.
So a start in "spawning" has made a process (`StartLocked`) that the session does not
have: `Spawn` gives it to the session, `Abort` is its end. The history variables
`started` and `aborted` count both, since the next start may then make another.

In `PowerShellSessions` `thread` is what `PowerShell` does for a call, and `pc` the
task of `AsyncPowerShell` that awaits it: the thread of a canceled task goes on,
without the task's lock. `overlapped` is a history variable: a close that came
while a start was making the session.

### Faults

A definition whose comment begins with "Fault" is no part of a specification. It
is the definition that follows it as a plausible bug would have it, and each
property of a passing run is violated when it takes that definition's place
(`mutants` in `PROJECT.json`).

## Runs

| run | instance | shows |
|---|---|---|
| `store` | 1 session, 2 commands, appends up to number 3, batches of 2 | `TerminalEventMatchesStatus`, `TerminalIsFinal`, `EndedSessionStaysEnded`, `ReadersSeeAppendsOnly` |
| `reader` | 2 readers of 1 command with 5 events; 1 command printing up to 4 characters to each stream, chunks of 2, tails of 3 | `CursorLosesNothing`, `ResultIsWhole`; `LogIsOutput`, `ChunksStandTogether`, `TailsMatchLog` |
| `service` | a client starts 2 commands on a session of either kind, another cancels and closes | `NoCommandStranded`, `KilledIsNotFailed`, `ExecutionIsWatched` |
| `service_command` | 1 command that prints and has a timeout, on a session of either kind, a client that cancels, one that closes | `KilledBeforeRecorded`, `UnlistedShellEnds`, the two refinements |
| `service_live` | 2 commands, one with a timeout, a client that closes | `ShellIsOwned`, `TimeoutIsEnforced`, `DroppedSessionsSettle`, `EveryCallReturns` |
| `state_dir` | a socket and two stdio daemons, 2 alive at a time, sessions opened on one of each | `OrphansAreEnded`, `StdioStopsClean` |
| `client` | 2 requests, 3 closes (one not graceful), either transport, every kind of limit | `AnswersStayInStep`, `OneCloses`, `CloseEndsDaemon`, `LimitedRequestsReturn`, `ClosesReturn` |
| `sessions` | 2 runs and 2 closes on one object of each of the four classes, commands of one line | `ResultsAreOwn`, `ClosedIsDead`, `OneShell`, `CallsReturn`; `ClosedLeavesNoRunspace`, `ScriptsHaveRunspace`, `HostedCallsReturn` |
| `one_runs`, `false_kill` | 1 or 2 commands, 2 clients | claims that do not hold, see below |
| `reliable`, `persistent` | 1 or 2 daemons | the same |

Bounds. One session is enough because sessions share nothing but the service's
lock, under which every step is atomic already. Two commands are what a queue
needs for its races (one executing or just ended, one behind it or being
started); two queue workers can exist at once with them. Three clients are what
the calls of one command can be cut by: its start, its cancel, its close
(`service_command`). With two commands the cancel and the close are two calls of
one client (`service`): a canceled command returns the call before its worker and
execution have settled, so the close still meets them. `MaxSeq`,
`MaxBatch`, `MaxOutput` and `MaxLog` bound the number of events; a store that has
reached `MaxSeq` appends nothing more, and two events before the end already show
the numbers drawn by two transactions. Commands are symmetric in the safety runs.
The runs of `Service` do not check for deadlock: when every command has been
started and every call has returned, nothing has to happen. Nor do those of
`StateDir`: when every daemon is gone, all is over.

`StateDir` needs three incarnations: one whose rows are left, one that crashes
while it recovers them, one that serves at last. Two of them alive at a time are
enough for every race on the files and rows, which are between two processes.
`Used`, `MaxAlive` and `Marked` are bounds of the model only.

`Client` needs two requests (one whose answer another could take) and three closes
(one that asks, one that comes while it asks, one that does not ask); `Limits` are
no limit, one that may pass at any time, and one the code refuses. The session
objects need two runs (one abandoned, one after it, or two that start at once) and
two closes; a command that prints one line and a sentinel is enough for two outputs
to be mixed up. In `CommandOutput` a text of four characters with chunks of two has
lengths below, at and above a multiple of the size, and is longer than a tail.
None of these runs checks for deadlock: a client or a session has no more to do when
its calls have returned.

Fairness of `Service`, for `service_live` and for
`UnlistedShellEnds` in `service_command`. Threads of the program
that can go on do go on (weak fairness of each call begun, of each worker, of each
execution thread as far as the program decides). The watch loop turns every 50 ms
and reads the clock at every turn, so a deadline that can be noticed again and
again is noticed (strong fairness of `WatchDeadline`, per command with a timeout).
An object that nothing refers to is finalized sooner or later (weak fairness of
`Finalize`): CPython does it at once, and its collector runs while the daemon works.
No fairness is assumed of clients, of `ExecEnd` (a command need not end), of
`ExecLine` (nor print) or of `ShellExits`. End of file is delivered once the
shell is dead, which assumes that no descendant of it outlives the process group
with the pipe in its hands. `TimeoutIsEnforced`, `DroppedSessionsSettle` and
`EveryCallReturns` except a script of a hosted session that runs for ever, since
nothing can interrupt one; the README of the package promises termination for
process-backed sessions only.

Fairness of `Client`: its threads go on when they can, the oldest readline returns
when there is a line or the pipe is at its end, a killed process ends. The daemon
need not answer, nor end when it is asked to or terminated. Hence `DaemonIsSilent`
in two properties: over a socket nothing makes a silent daemon's readline return.

Fairness of the session objects: calls go on, a killed shell ends, a thread that
makes a runspace ends. A command or script need not end, a shell need not exit when
it is told to; so the properties except a run that reads, or a script that runs, for
ever. No task need be canceled.

## What the code does not keep

Each of these runs checks one claim and ends with a counterexample.

- `one_runs`. `start_command` registers a thread under the lock and starts it
  after (daemon.py:433-444). A second start in between finds a thread that is not
  alive, and makes another worker. Two commands of the session are then in
  progress at once, and an exiting worker unregisters the other (513). The README
  says execution per session is FIFO and a test asserts that the second command is
  queued while the first runs.
- `false_kill`. `cancel_command` reads the status before it takes the lock
  (daemon.py:491): a command it read as queued may be executing by then, and no
  termination follows. When the execution ends by itself and the worker finds the
  Event set (641), it takes the cancel for a kill: it records `process_killed`, marks
  the session closed and drops it, though no call has killed the process or will, and
  the cancel was to leave the session open (493). The shell goes on until the worker
  and the call have let go of the object, whose `__del__` closes it.
- `reliable`. `request_shutdown` sets its flag first (daemon.py:165), then closes
  the sessions; on a socket daemon it runs on a thread that the process does not
  wait for. The accept loop sees the flag within half a second (1301) and the
  process ends, with sessions still running and the request unanswered. A stdio
  daemon has one thread and is free of this (`StdioStopsClean`).
- `persistent`. The marker is one file for all daemons of a directory, and only
  its existence is looked at (198, 225). The stdio daemon of a `liveshell run`, or
  of a client that disconnects, writes it when it stops, and the persistent daemon
  of the directory leaves its loop, without closing its sessions (1321).

Others were met and are no run, because no text of the repository says the
contrary or because it takes an exception that is not modelled:

- the same stale status the other way round: a command canceled as queued goes on
  executing behind the next one, which is recorded running while it waits for the
  lock (daemon.py:491);
- a cancel that arrives as its command ends kills the shell under the next command
  (daemon.py:495);
- a close of a session that is still being created reports it closed, after which
  it goes live (332);
- a close between registration and start of a queue thread joins an unstarted
  thread: Python raises, and the call fails after it canceled (362);
- a service that starts on a directory recovers the live rows of another one (236);
- a stdio daemon overwrites the port of the persistent daemon in `daemon.json`
  (214), which then cannot be found, and `daemon start` makes a second one;
- a cancel, a close or a deadline of a hosted command waits for its script to end
  (daemon.py:1034, powershell.py:397);
- a command whose execution breaks off with an exception keeps an empty stdout tail,
  with its output in the log (daemon.py:788);
- a limit that is not positive raises after the request was written, and every later
  request gets the answer of the one before it (client.py:513);
- a request over a socket whose limit passes waits for the daemon to answer after
  all, to close the stream (client.py:608);
- a second graceful close that finds the first one asking marks the client closed
  without a `daemon.shutdown` of its own (client.py:465), and the first one's may
  then be skipped (553);
- a run of `AsyncProcessSession` that is canceled, or a callback of `ProcessSession`
  that raises, leaves its output to be collected by the next run (process.py:345,
  197);
- `ProcessSession.close` raises on a pipe it cannot flush before it sets `_closed`
  (246);
- `AsyncPowerShell.close` finds nothing to close while a start makes the session, and
  leaves a runspace open that only the garbage collector may close
  (powershell.py:536);
- a run of `PowerShell` that waits for the lock while another thread closes the
  session runs with `runspace` None (309).

The properties are stated around these. `ShellIsOwned` and `EveryCallReturns` are
checked with closes and not with cancels: after a cancel as in `false_kill` no thread
ends the shell, and a command canceled as queued while it executes goes on holding
the object's lock, for which a later close waits. What remains true of the shell with
cancels is `UnlistedShellEnds`: it ends, with the object at the latest, unless such a
command executes in it for ever. `ResultsAreOwn` lets the output of
abandoned runs come first, `AnswersStayInStep` excepts refused limits,
`ClosedLeavesNoRunspace` a session closed while it started, and
`ScriptsHaveRunspace` is about `AsyncPowerShell` with no task canceled.

## Proofs

Each theorem holds for all values of the constants that satisfy the named
assumptions of the component's module; TLC evaluates these in the run of that
module. The bounds of the model (`MaxSeq`, `MaxLines`, `Used`, ...) are constants
too, so the theorems hold for every bound.

`CommandStoreProofs`: the two invariants (`StoreTypeOK`, `StoreOneTerminalEvent`) and
three action properties (`StoreTerminalIsFinal`, `StoreEndedSessionStaysEnded`,
`StoreReadersSeeAppendsOnly`) of the run `store`, and two more invariants they rest
on, that numbers have no gap (`StoreSeqsContiguous`) and that end marks are set in
ended rows (`StoreEndMarks`). None is inductive alone. That numbers have no gap needs
the number of the last event, `MAX(seq)`, to be the number of events: `Numbered` says that the numbers of each command are `1..n` for some natural `n`,
each taken once, from which `NextSeqOfInterval` gives `n + 1`. That a terminal
row stays so needs `ended_at` to be set in it, and the CHECK. `IInv` is their
conjunction with the type invariant, kept by one lemma per transaction; the action
properties follow from `IInv` in the state where the step begins.

`ServiceProofs`: `Stranded`, `Watched`, `Types`, `KilledNotFailed`, `ShellOwned` and
`KilledThenRecorded` are the invariants of the runs `service`, `service_live` and
`service_command`, `StoreImplemented` and `LifecycleImplemented` the two refinements
of `service_command`; all of them for any
number of sessions, commands and callers, whichever operations the callers use.
`ShellOwned` alone has a hypothesis: `NobodyCancels`, no caller uses
`cancel_command`, as in the run `service_live`. It is needed: in the run `false_kill`
nobody ends the shell of the dropped session before its object is finalized.

The inductive invariant is made in layers, each kept by every step with the help of
those before it:

- `Shapes`: types, and which row, queue entry, call or worker refers to which.
- `Places`: who has a command. Its start is one call (`StartsApart`); before it is
  registered nothing has to do with it (`UnregisteredIsFree`); in a queue it is once,
  with its Event and in no worker's hands (`QueuedIsFree`); otherwise it is in those
  of one worker at most (`OwnersApart`).
- `Progressing`: what a worker at each place knows of the row and of the execution of
  its command, although calls cancel it meanwhile (`Knows`); a command keeps its
  Event from its registration to its end (`ActiveHasEvent`); a queue that is not
  empty has a worker that runs or whose start is on its way (`QueueIsServed`).
  `NoCommandStranded` and `ExecutionIsWatched` are part of it.
- `Stored`: the invariant of the store, by `INSTANCE CommandStoreProofs`. Each step
  is one transaction, or none.
- `Counted`: which events a command has logged by when, and how many, so that every
  append finds the room that `CommandStore` asks for.

These five are `Core`, from which `ImplementsStore` and `TypeOK` follow. Then
`NewSessions` says that `create_session` has its session for itself. `Killing` is
for `KilledIsNotFailed`: whoever is about to kill a shell has set the Event of each
command he kills it for (`KillersWarn`), and the worker, which looks at the Event
after it has seen the execution end, will not record those as failed
(`KilledAreSpared`); the exception are commands that a close took before they were
registered, whose session is not listed when the worker looks (`Doomed`). `Owning`
says who has the shell of a session that is not listed. `TimersHaveKilled`, for
`KilledBeforeRecorded`, says that a worker which has decided for a timeout is past
its kill or about to make it, and that the shell, once gone, does not come back.

The step of `ImplementsLifecycle` is in three parts: a step changes one command at
most (`LifeStep`), its event goes to the end of its log (the log by number is
`LogIn`, to which the next number appends), and status and event move together as an
action of `CommandLifecycle` allows (`Moves`, `Reports`, `EndsAs`). It needs that a
command still queued does not execute (`QueuedIsIdle`).

`ReaderProofs`: `ReaderCursorLosesNothing`, `ReaderResultIsWhole`, `ReaderTypeOK`.
The first needs that a log is only appended to: `PrefixOfAppended` and
`PrefixCompleted` are the facts about prefixes, the second of which says that the
events after a cursor complete what was seen. The second needs what holds between
the three reads: a reader past its poll follows a command that has ended, and past
the read of the command has its final status (`Waits`); a command has one end in its
log, of its status, exactly when it has ended (`EndsOnce`), which later appends keep
(`EndsStayOnce`); and a completed or failed one is not appended to.

`StateDirProofs`: `StateDirOrphansAreEnded`. The invariant `Orphans` follows the rows
of a dead daemon through the recovery by another: while sessions are recovered each
open one is in `todo`; while commands are, no session is open and each active command
is in `todo`; after that none is active. It needs that a daemon holds only sessions
it owns, and that what it opens or owns has a row (`LiveIsOwn`), and what `todo`
holds when (`Listed`). No other daemon can make an old row active, since rows
become active only in the hands of their owner, which is gone (`Abandons`).
`EndingStep` shows this for all steps that at most end rows, so each action needs
only to be shown one of those, or to touch rows of a living daemon (`ServiceOpens`).

`StateDirTypeOK` takes the invariant of the store by instance, since every step is one
of its transactions or none (`Transaction`), and the types of the files and of what
each daemon has in memory (`Rest`). `StateDirStdioStopsClean` follows the sessions of
a stdio daemon to its end: each is being made, is in its memory, is in the hands of
its shutdown with the commands it still has to cancel (`BeingClosed`), or has been
ended (`Handled`); none is being made any more once it is asked to stop (`Quiet`), so
what the shutdown lists is all there is (`Collected`); and it stops when that is done
(`Stopped`). A session being created has no commands (`Fresh`). What other daemons
do to its rows, by recovering them while it lives, only ends them (`Subsides`,
`Undisturbed`).

`ClientProofs`: `ClientTypeOK`, `ClientOneCloses`, `ClientAnswersStayInStep`. A call
that waits for an answer holds the lock of an open client (`AnsweredHoldLock`), so
the mark of a closer and the timeout of a request exclude each other, and whoever is
past either has set `_closed` (`ClosingIsClosed`), so nobody follows. The invariant of
the third is that, unless a limit was refused, the readlines under way are those
of exactly the calls whose answers are still to come, in that order:
`reading = answers \o sent` (`PipesInStep`; once the daemon is gone and its answers
are read, every readline gets the end). `WriteKeepsStep`, `ReadLineKeepsStep` and
`AnswerKeepsStep` are the three steps that move a call along; all others leave the
pipes alone.

`ProcessSessionsProofs`: `ProcessTypeOK`, `ProcessClosedIsDead`, `ProcessOneShell`,
`ProcessResultsAreOwn`. A
close past its look under the locks has a process, holds the lock of start in
`AsyncProcessSession`, and has seen the process dead when it goes on to set `_closed`
(`ClosersHold`); a start that spawns holds that lock in an open session without a
shell (`StartersHold`); so no shell is made under a close. The processes started are
those aborted and at most one more, which the session has or a start is about to give
it (`ShellCounted`): a process that no start has aborted is the only one.

`ProcessResultsAreOwn` needs to know what is in the pipes. One run reads at a time
(`LockHeld`), and every command and line in them is its own or that of a run which
was abandoned (`PipesPending`). Take what it has collected and what is still to be
read as one (`Whole`): `ReadLine` only moves a line along in it, and `Execute` appends
one. It begins with the lines of abandoned runs, goes on with those of the reader's
command, as many as that has printed, and ends with its sentinel if its command is
done (`Reads`): so when the sentinel comes everything has been read
(`SentinelComesLast`), and a run that takes the lock finds only what others left
(`WriteKeepsLines`).

`PowerShellSessionsProofs`: `HostedTypeOK`, `HostedClosedLeavesNoRunspace`,
`HostedScriptsHaveRunspace` (the last two are the properties of these names in the
run `sessions`). For the second, a start that makes a session holds the lock of
start and has no runspace, so that a close that finds none is recorded as overlapping
it (`CreatorsHold`), and a close whose thread has ended has left the runspace closed
(`CloseThreadsClose`). For the third, as long as no task is canceled a thread works
only for the task that has the operation lock, and what a run has found open stays
open until it ends (`ThreadsHold`).

`CommandOutputProofs`: `OutputTyped`, `LogIsPrinted`, `ChunksAreTogether`,
`RowTailsMatchLog` (the last three are `LogIsOutput`, `ChunksStandTogether` and
`TailsMatchLog` of the run `reader`), for any chunk size, tail limit and amount of
output. `Joined` is a recursive function, and the library's induction theorems, which
take an operator, cannot be used by the provers; the proof uses well-foundedness of
the naturals as a fact about sets instead (`Least`: a set of naturals that is not empty
has a least element), so that a place of the log where a claim fails has a first one.
That gives that the recursive function exists, is unique and yields texts, and that an
event more adds its text (`JoinExists`, `JoinUnique`, `JoiningAppend`); with the
arithmetic of the cut into chunks (`ChunkCountFacts`, `ChunkFacts`), that the events of a
text add exactly the text (`JoiningEvents`). The inductive invariant `OutputInv` says
how much of each stream is in the log. `LogIsOutput` alone is not inductive: it does
not say what the next append adds. So `Streaming` has the log, while the command is
active, at all that was printed but the pending text; `WorkerRecords` has every stream
complete or, if it is the worker's to append, not begun; `OwnIsWhole` keeps both streams
complete once the command ended by itself; and `CollectedIsHead` has what a finisher
read as a beginning of what the log has by now. `ChunksStandTogether` needs the types
only: a block appended whole stands together wherever it is put (`BlockStands`), and
what is appended later leaves it alone (`ChunkStays`).

Not proved, and checked by TLC only: all liveness (`TimeoutIsEnforced`,
`DroppedSessionsSettle`, `EveryCallReturns`, `CloseEndsDaemon`, `LimitedRequestsReturn`,
`ClosesReturn`, `CallsReturn`, `HostedCallsReturn`), which with fairness is out of the
prover's reach.

## Plan

For further work, in this order.

1. As a liveness property on two daemons, that a daemon asked to stop ends although
   another removes the marker.
2. SQLite failures as a fault of any transaction of `Service`: an exception in the
   queue worker ends the thread (daemon.py:522).

## Not modelled

Parsing of arguments, the dispatch of requests with their error codes, discovery of
executables and of PowerShell installations, loading of the CLR, quoting and the
wrapping of commands in shell text, hashes and timestamps: they keep no state that
other code races with, and a model of them would be the text itself. Metadata of
sessions is read and written back by several threads; nothing in the repository
says what should hold of it. Failures of SQLite, other than a rejected constraint,
are left for later. Opening and migration of the database, and services made with
`recover=False`, are not modelled.
