---------------------------- MODULE CommandStore ----------------------------
(***************************************************************************)
(* The durable tables of src/src/liveshell/store.py: session, command and  *)
(* command_event, and the transactions every other part of LiveShell uses  *)
(* to read and change them.                                                *)
(*                                                                         *)
(* Covered: the columns other code decides on (status, closed_at and       *)
(* ended_at being set, session_id, seq, event_type) and the constraints    *)
(* SQLite enforces on them.  One action is one committed transaction; a    *)
(* transaction a constraint rejects is rolled back and changes nothing, so *)
(* it is no action here, and its guard is exported (the CanUpdate          *)
(* operators) for the callers whose error path runs instead.               *)
(*                                                                         *)
(* Left out: texts, tails, hashes, exit codes, metadata, timestamps and    *)
(* the schema migration.                                                   *)
(*                                                                         *)
(* A definition marked as a fault is no part of the specification: it is   *)
(* the mutated form of the definition after it that shows what a property  *)
(* is sensitive to.                                                        *)
(***************************************************************************)
EXTENDS Integers, FiniteSets, FiniteSetsExt

CONSTANTS Sessions,   \* ids of session rows
          Commands,   \* ids of command rows
          NoSession,  \* session_id of a command row not inserted yet
          MaxSeq,     \* bound of the model: no append beyond this seq
          MaxBatch    \* bound of the model: longest batch of chunked output

ASSUME NoSessionAssumption == NoSession \notin Sessions
ASSUME BoundsAssumption == MaxSeq \in Nat /\ MaxBatch \in Nat \ {0}

VARIABLES session,  \* rows of table session
          command,  \* rows of table command
          events    \* rows of table command_event, by command

tables == <<session, command, events>>

-----------------------------------------------------------------------------
SessionStatuses == {"starting", "running", "closed", "crashed"}
EndedSession == {"closed", "crashed"}

Progress == {"starting", "running"}
Terminal == {"completed", "failed", "timed_out", "canceled"}
CommandStatuses == {"queued"} \cup Progress \cup Terminal

\* The event a terminal status is announced with.
TerminalEvent == [completed |-> "command_completed", failed |-> "command_failed",
                  timed_out |-> "command_timed_out", canceled |-> "command_canceled"]
TerminalEvents == {TerminalEvent[st] : st \in Terminal}
OutputEvents == {"stdout", "stderr"}
EventTypes == {"command_started"} \cup OutputEvents \cup TerminalEvents

\* "absent" is the status of a row that is not there.
SessionRows == [status : SessionStatuses \cup {"absent"}, closedAt : BOOLEAN]
CommandRows == [status : CommandStatuses \cup {"absent"}, endedAt : BOOLEAN,
                session : Sessions \cup {NoSession}]
EventRows == [seq : Nat \ {0}, type : EventTypes]

NoSessionRow == [status |-> "absent", closedAt |-> FALSE]
NoCommandRow == [status |-> "absent", endedAt |-> FALSE, session |-> NoSession]

-----------------------------------------------------------------------------
\* What a reader of the tables computes.
IsTerminal(c) == command[c].status \in Terminal
IsActive(c) == command[c].status \in {"queued"} \cup Progress
ActiveCommands(s) == {c \in Commands : IsActive(c) /\ command[c].session = s}

\* Fault: the last number is given again.
LastSeq(c) == Max({e.seq : e \in events[c]} \cup {0})

\* COALESCE(MAX(seq), 0) + 1
NextSeq(c) == Max({e.seq : e \in events[c]} \cup {0}) + 1

\* Faults: a table without its CHECK.
NoSessionCheck(s, st, closes) == TRUE
NoCommandCheck(c, st) == TRUE

\* The table constraints an UPDATE must satisfy: a row that has its closed_at
\* or ended_at can only hold a status that ends it.
CanUpdateSession(s, st, closes) ==
  session[s].closedAt \/ closes => st \in EndedSession
CanUpdateCommand(c, st) == command[c].endedAt => st \in Terminal

-----------------------------------------------------------------------------
Init ==
  /\ session = [s \in Sessions |-> NoSessionRow]
  /\ command = [c \in Commands |-> NoCommandRow]
  /\ events = [c \in Commands |-> {}]

CreateSession(s) ==
  /\ session[s].status = "absent"
  /\ session' = [session EXCEPT ![s] = [status |-> "starting", closedAt |-> FALSE]]
  /\ UNCHANGED <<command, events>>

UpdateSession(s, st, closes) ==
  /\ session[s].status # "absent"
  /\ CanUpdateSession(s, st, closes)
  /\ session' = [session EXCEPT ![s] = [status |-> st, closedAt |-> @.closedAt \/ closes]]
  /\ UNCHANGED <<command, events>>

\* Fault: no foreign key.
CreateOrphan(c, s) ==
  /\ command[c].status = "absent"
  /\ command' = [command EXCEPT ![c] =
                   [status |-> "queued", endedAt |-> FALSE, session |-> s]]
  /\ UNCHANGED <<session, events>>

\* The foreign key asks for the session row, in whatever status it is.
CreateCommand(c, s) ==
  /\ command[c].status = "absent"
  /\ session[s].status # "absent"
  /\ command' = [command EXCEPT ![c] =
                   [status |-> "queued", endedAt |-> FALSE, session |-> s]]
  /\ UNCHANGED <<session, events>>

UpdateCommand(c, st) ==
  /\ command[c].status # "absent"
  /\ CanUpdateCommand(c, st)
  /\ command' = [command EXCEPT ![c] =
                   [status |-> st, endedAt |-> @.endedAt, session |-> @.session]]
  /\ UNCHANGED <<session, events>>

\* A batch is the event types of a list of prepared events, in order.  Nothing
\* is asked of the command's status.
AppendEvents(c, batch) ==
  /\ command[c].status # "absent"
  /\ events' = [events EXCEPT ![c] = @ \cup
                  {[seq |-> NextSeq(c) + i - 1, type |-> batch[i]] : i \in DOMAIN batch}]
  /\ UNCHANGED <<session, command>>

\* Fault: no early return for a command that is terminal already.
FinishAgain(c, st) ==
  /\ command[c].status # "absent"
  /\ events' = [events EXCEPT ![c] =
                  @ \cup {[seq |-> NextSeq(c), type |-> TerminalEvent[st]]}]
  /\ command' = [command EXCEPT ![c] =
                   [status |-> st, endedAt |-> TRUE, session |-> @.session]]
  /\ UNCHANGED session

\* The terminal event and the terminal status are one transaction; a command
\* that is terminal already is returned as it stands.
FinishCommand(c, st) ==
  /\ command[c].status # "absent"
  /\ IF IsTerminal(c)
     THEN UNCHANGED tables
     ELSE /\ events' = [events EXCEPT ![c] =
                          @ \cup {[seq |-> NextSeq(c), type |-> TerminalEvent[st]]}]
          /\ command' = [command EXCEPT ![c] =
                             [status |-> st, endedAt |-> TRUE, session |-> @.session]]
          /\ UNCHANGED session

-----------------------------------------------------------------------------
\* The batches of the daemon: the started event alone, or output of one stream
\* cut into chunks.
Batches == {[i \in {1} |-> "command_started"]}
           \cup UNION {[1..n -> {t}] : n \in 1..MaxBatch, t \in OutputEvents}

\* The updates of the daemon: the status of a session it opens or closes, the
\* progress of a command.  A command's terminal status is written by
\* finish_command only.
Next ==
  \/ \E s \in Sessions :
       \/ CreateSession(s)
       \/ UpdateSession(s, "running", FALSE)
       \/ \E st \in EndedSession : UpdateSession(s, st, TRUE)
  \/ \E c \in Commands :
       \/ \E s \in Sessions : CreateCommand(c, s)
       \/ \E st \in Progress : UpdateCommand(c, st)
       \/ \E batch \in Batches : NextSeq(c) <= MaxSeq /\ AppendEvents(c, batch)
       \/ \E st \in Terminal : NextSeq(c) <= MaxSeq /\ FinishCommand(c, st)

Spec == Init /\ [][Next]_tables

-----------------------------------------------------------------------------
\* Every row is of its table's type, and no row of another table refers to a
\* row that is not there.
TypeOK ==
  /\ session \in [Sessions -> SessionRows]
  /\ command \in [Commands -> CommandRows]
  /\ events \in [Commands -> SUBSET EventRows]
  /\ \A c \in Commands :
       IF command[c].status = "absent" THEN command[c] = NoCommandRow /\ events[c] = {}
       ELSE /\ command[c].session \in Sessions
            /\ session[command[c].session].status # "absent"

\* A command has a terminal event exactly when its status is terminal, one
\* only, and of that status, whatever finishes raced to end it: the claim of
\* finish_command that status and event are written together, once.
TerminalEventMatchesStatus ==
  \A c \in Commands :
    LET ends == {e \in events[c] : e.type \in TerminalEvents}
    IN IF IsTerminal(c)
       THEN \E e \in ends : ends = {e} /\ e.type = TerminalEvent[command[c].status]
       ELSE ends = {}

\* A terminal command keeps its row for ever, although update_command is an
\* unconditional UPDATE and may run after any finish_command.
TerminalIsFinal ==
  [][\A c \in Commands : IsTerminal(c) => command'[c] = command[c]]_tables

\* An ended session is never running again, although update_session is an
\* unconditional UPDATE that create_session may run after a close_session.
EndedSessionStaysEnded ==
  [][\A s \in Sessions : session[s].status \in EndedSession
                         => session'[s].status \in EndedSession]_tables

\* What a reader has seen up to a seq never changes: no event is rewritten or
\* removed, and every new one comes after all those that were there.
ReadersSeeAppendsOnly ==
  [][\A c \in Commands :
       /\ events[c] \subseteq events'[c]
       /\ \A new \in events'[c] \ events[c], old \in events[c] :
            new.seq > old.seq]_tables
=============================================================================
