------------------------------- MODULE Reader --------------------------------
(***************************************************************************)
(* Clients that follow a command: CommandHandle.events with a cursor, and  *)
(* CommandHandle.result and wait (src/src/liveshell/handles.py), which the *)
(* protocol's command.events and command.result repeat.                    *)
(*                                                                         *)
(* The commands live as CommandLifecycle promises, which is all a reader   *)
(* may rely on.  One step of a reader is one transaction of the store:     *)
(* result() takes three of them, and the command goes on in between.       *)
(*                                                                         *)
(* Left out: the exceptions for unknown ids, and the texts.  A reader      *)
(* takes the result of a command once.  A definition marked as a fault is  *)
(* the mutated form of the one after it.                                   *)
(***************************************************************************)
EXTENDS CommandLifecycle, Naturals

CONSTANTS Readers,
          MaxLog    \* bound of the model: events of a command
ASSUME MaxLogAssumption == MaxLog \in Nat

VARIABLES seen,    \* the events a reader collected with its cursor, in order
          waiting, \* the call of result() or wait() in progress
          result   \* the CommandResult it returned

readers == <<seen, waiting, result>>

Endeds == DOMAIN Endings
IsTerminal(c) == status[c] \in Endeds

NoResult == [status |-> "none", events |-> <<>>]
Idle == [pc |-> "idle", status |-> "none"]

\* Fault: the bound is off by one.
EventsAfterNext(c, n) == SubSeq(log[c], n + 2, Len(log[c]))

\* list_command_events: those with seq > n, by seq.
EventsSince(c, n) == SubSeq(log[c], n + 1, Len(log[c]))

ReadersInit ==
  /\ Init
  /\ seen = [r \in Readers |-> [c \in Commands |-> <<>>]]
  /\ waiting = [r \in Readers |-> [c \in Commands |-> Idle]]
  /\ result = [r \in Readers |-> [c \in Commands |-> NoResult]]

\* The cursor of a reader is the seq of the last event it has.
Events(r, c) ==
  /\ status[c] # "absent"
  /\ seen' = [seen EXCEPT ![r][c] = @ \o EventsSince(c, Len(@))]
  /\ UNCHANGED <<status, log, waiting, result>>

\* Fault: no look at the status.
PollAnyStatus(r, c) ==
  /\ waiting[r][c].pc = "idle" /\ result[r][c] = NoResult
  /\ status[c] # "absent"
  /\ waiting' = [waiting EXCEPT ![r][c] = [pc |-> "command", status |-> "none"]]
  /\ UNCHANGED <<status, log, seen, result>>

\* A poll that finds the command active ends the call, or goes round in wait().
Poll(r, c) ==
  /\ waiting[r][c].pc = "idle" /\ result[r][c] = NoResult
  /\ IsTerminal(c)
  /\ waiting' = [waiting EXCEPT ![r][c] = [pc |-> "command", status |-> "none"]]
  /\ UNCHANGED <<status, log, seen, result>>

ReadCommand(r, c) ==
  /\ waiting[r][c].pc = "command"
  /\ waiting' = [waiting EXCEPT ![r][c] = [pc |-> "events", status |-> status[c]]]
  /\ UNCHANGED <<status, log, seen, result>>

ReadEvents(r, c) ==
  /\ waiting[r][c].pc = "events"
  /\ result' = [result EXCEPT ![r][c] = [status |-> waiting[r][c].status,
                                         events |-> EventsSince(c, 0)]]
  /\ waiting' = [waiting EXCEPT ![r][c] = Idle]
  /\ UNCHANGED <<status, log, seen>>

CommandsGoOn ==
  /\ Next
  /\ \A c \in Commands : Len(log'[c]) <= MaxLog
  /\ UNCHANGED readers

Following(r, c) == Events(r, c) \/ Poll(r, c) \/ ReadCommand(r, c) \/ ReadEvents(r, c)
ReaderNext == CommandsGoOn \/ \E r \in Readers, c \in Commands : Following(r, c)

ReaderSpec == ReadersInit /\ [][ReaderNext]_<<vars, readers>>

-----------------------------------------------------------------------------
IsPrefixOf(s, t) == Len(s) <= Len(t) /\ s = SubSeq(t, 1, Len(s))

EventTypes == {"command_started", "stdout", "stderr"} \cup {Endings[st] : st \in Endeds}

TypeOK ==
  /\ status \in [Commands -> Active \cup Endeds \cup {"absent"}]
  /\ log \in [Commands -> Seq(EventTypes)]
  /\ seen \in [Readers -> [Commands -> Seq(EventTypes)]]
  /\ waiting \in [Readers -> [Commands ->
                    [pc : {"idle", "command", "events"}, status : Endeds \cup {"none"}]]]
  /\ result \in [Readers -> [Commands ->
                   [status : Endeds \cup {"none"}, events : Seq(EventTypes)]]]

\* However its reads fall between the appends, a reader that continues from its
\* last seq has the log from its beginning, with no event lost, repeated or
\* changed (PROTOCOL.md:55).
CursorLosesNothing ==
  \A r \in Readers, c \in Commands : IsPrefixOf(seen[r][c], log[c])

\* A result, though its status and its events are read one after the other,
\* tells one story: its events contain the one end its status names, and if the
\* command completed or failed they are the whole log and stay so.
ResultIsWhole ==
  \A r \in Readers, c \in Commands :
    LET res == result[r][c]
        ends == {i \in DOMAIN res.events : res.events[i] \in {Endings[st] : st \in Endeds}}
    IN res # NoResult =>
         /\ \E i \in ends : ends = {i} /\ res.events[i] = Endings[res.status]
         /\ res.status \in {"completed", "failed"} => res.events = log[c]
=============================================================================
