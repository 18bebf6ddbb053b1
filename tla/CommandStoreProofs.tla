------------------------ MODULE CommandStoreProofs --------------------------
(***************************************************************************)
(* Theorems about CommandStore, for every set of sessions and commands and *)
(* every bound on the events.                                              *)
(***************************************************************************)
EXTENDS CommandStore, TLAPS

-----------------------------------------------------------------------------
LEMMA MaxOfInterval ==
  ASSUME NEW n \in Nat, NEW S, S = (1..n) \cup {0}
  PROVE  Max(S) = n
PROOF
  <1>1. n \in S /\ \A y \in S : n >= y
    OBVIOUS
  <1>2. \A x \in S : (\A y \in S : x >= y) => x = n
    BY <1>1
  <1> QED
    BY <1>1, <1>2, Zenon DEF Max

\* NextSeq is one more than the number of rows when these are numbered 1..n.
LEMMA NextSeqOfInterval ==
  ASSUME NEW c \in Commands, NEW n \in Nat, {e.seq : e \in events[c]} = 1..n
  PROVE  NextSeq(c) = n + 1
PROOF
  <1>1. Max({e.seq : e \in events[c]} \cup {0}) = n
    BY MaxOfInterval
  <1> QED
    BY <1>1 DEF NextSeq

-----------------------------------------------------------------------------
\* A batch of the daemon: one to MaxBatch events, none of them terminal.
LEMMA BatchShape ==
  ASSUME NEW batch \in Batches
  PROVE  \E n \in Nat \ {0} : /\ batch \in [1..n -> EventTypes]
                              /\ \A i \in 1..n : batch[i] \notin TerminalEvents
PROOF
  <1>1. CASE batch = [i \in {1} |-> "command_started"]
    <2>1. batch \in [1..1 -> EventTypes] /\ batch[1] = "command_started"
      BY <1>1 DEF EventTypes
    <2> QED
      BY <2>1 DEF TerminalEvents, TerminalEvent, Terminal
  <1>2. CASE batch \in UNION {[1..n -> {t}] : n \in 1..MaxBatch, t \in OutputEvents}
    <2>1. PICK n \in 1..MaxBatch, t \in OutputEvents : batch \in [1..n -> {t}]
      BY <1>2
    <2>2. n \in Nat \ {0}
      BY BoundsAssumption
    <2>3. batch \in [1..n -> EventTypes]
      BY <2>1 DEF EventTypes
    <2>4. \A i \in 1..n : batch[i] \notin TerminalEvents
      BY <2>1 DEF TerminalEvents, TerminalEvent, Terminal, OutputEvents
    <2> QED
      BY <2>2, <2>3, <2>4
  <1> QED
    BY <1>1, <1>2 DEF Batches

-----------------------------------------------------------------------------
\* The events of a command are numbered 1..n, each number once (append and
\* finish read MAX(seq) in the transaction that inserts): a reader that asks
\* for seq > since_seq with the last seq it saw misses no event and sees none
\* twice.
SeqsContiguous ==
  \A c \in Commands :
    /\ {e.seq : e \in events[c]} = 1..(NextSeq(c) - 1)
    /\ \A e, f \in events[c] : e.seq = f.seq => e = f

\* ended_at is set exactly in a terminal row, and closed_at only in an ended
\* session: the constraints of the schema can be trusted to reject every later
\* move away from a terminal status.
EndMarksMatchStatus ==
  /\ \A c \in Commands : command[c].endedAt <=> IsTerminal(c)
  /\ \A s \in Sessions : session[s].closedAt <=> session[s].status \in EndedSession

\* SeqsContiguous in a form that is inductive: it names the number of rows.
Numbered(rows, n) ==
  /\ {e.seq : e \in rows} = 1..n
  /\ \A e, f \in rows : e.seq = f.seq => e = f

IInv ==
  /\ TypeOK
  /\ \A c \in Commands : \E n \in Nat : Numbered(events[c], n)
  /\ TerminalEventMatchesStatus
  /\ EndMarksMatchStatus

LEMMA IInvImpliesContiguous == IInv => SeqsContiguous
PROOF
  <1> SUFFICES ASSUME IInv, NEW c \in Commands
               PROVE  /\ {e.seq : e \in events[c]} = 1..(NextSeq(c) - 1)
                      /\ \A e, f \in events[c] : e.seq = f.seq => e = f
    BY DEF SeqsContiguous
  <1>1. PICK n \in Nat : Numbered(events[c], n)
    BY DEF IInv
  <1>2. NextSeq(c) - 1 = n
    BY <1>1, NextSeqOfInterval DEF Numbered
  <1> QED
    BY <1>1, <1>2 DEF Numbered

-----------------------------------------------------------------------------
\* Rows numbered 1..n followed by k rows from n + 1 on are numbered 1..n + k.
LEMMA NumberedAppend ==
  ASSUME NEW rows, NEW n \in Nat, Numbered(rows, n),
         NEW k \in Nat, NEW f
  PROVE  Numbered(rows \cup {[seq |-> n + i, type |-> f[i]] : i \in 1..k}, n + k)
PROOF
  <1> DEFINE new == {[seq |-> n + i, type |-> f[i]] : i \in 1..k}
  <1>1. \A e \in new : \E i \in 1..k : e = [seq |-> n + i, type |-> f[i]]
    OBVIOUS
  <1>2. \A e \in new : e.seq \in (n + 1)..(n + k)
    BY <1>1
  <1>3. \A e \in rows : e.seq \in 1..n
    BY DEF Numbered
  <1>4. {e.seq : e \in rows \cup new} = 1..(n + k)
    <2>1. ASSUME NEW j \in 1..(n + k) PROVE \E e \in rows \cup new : e.seq = j
      <3>1. CASE j \in 1..n
        BY <3>1 DEF Numbered
      <3>2. CASE j \in (n + 1)..(n + k)
        <4>1. j - n \in 1..k /\ n + (j - n) = j
          BY <3>2
        <4>2. [seq |-> n + (j - n), type |-> f[j - n]] \in new
          BY <4>1
        <4> QED
          BY <4>1, <4>2
      <3> QED
        BY <3>1, <3>2
    <2>2. ASSUME NEW e \in rows \cup new PROVE e.seq \in 1..(n + k)
      BY <1>2, <1>3
    <2> QED
      BY <2>1, <2>2
  <1>5. ASSUME NEW e \in rows \cup new, NEW g \in rows \cup new, e.seq = g.seq
        PROVE  e = g
    <2>1. CASE e \in rows /\ g \in rows
      BY <2>1, <1>5 DEF Numbered
    <2>2. CASE e \in new /\ g \in new
      <3>1. PICK i \in 1..k : e = [seq |-> n + i, type |-> f[i]]
        BY <2>2, <1>1
      <3>2. PICK j \in 1..k : g = [seq |-> n + j, type |-> f[j]]
        BY <2>2, <1>1
      <3>3. i = j
        BY <3>1, <3>2, <1>5
      <3> QED
        BY <3>1, <3>2, <3>3
    <2>3. CASE (e \in rows /\ g \in new) \/ (e \in new /\ g \in rows)
      BY <2>3, <1>2, <1>3, <1>5
    <2> QED
      BY <2>1, <2>2, <2>3
  <1> QED
    BY <1>4, <1>5 DEF Numbered

-----------------------------------------------------------------------------
\* Appending rows to one existing command: the numbering goes on, and the
\* events of the others stay.
LEMMA AppendKeepsTypeAndNumbers ==
  ASSUME IInv, NEW c \in Commands, NEW k \in Nat \ {0}, NEW batch \in [1..k -> EventTypes],
         events' = [events EXCEPT ![c] = @ \cup
                      {[seq |-> NextSeq(c) + i - 1, type |-> batch[i]] : i \in DOMAIN batch}]
  PROVE  /\ events' \in [Commands -> SUBSET EventRows]
         /\ \A d \in Commands : \E n \in Nat : Numbered(events'[d], n)
         /\ \A new \in events'[c] \ events[c], old \in events[c] : new.seq > old.seq
PROOF
  <1>0. events \in [Commands -> SUBSET EventRows]
    BY DEF IInv, TypeOK
  <1>1. PICK n \in Nat : Numbered(events[c], n)
    BY DEF IInv
  <1>2. NextSeq(c) = n + 1
    BY <1>1, NextSeqOfInterval DEF Numbered
  <1> DEFINE new == {[seq |-> n + i, type |-> batch[i]] : i \in 1..k}
  <1>3. {[seq |-> NextSeq(c) + i - 1, type |-> batch[i]] : i \in DOMAIN batch} = new
    <2>1. DOMAIN batch = 1..k
      OBVIOUS
    <2>2. \A i \in 1..k : NextSeq(c) + i - 1 = n + i
      BY <1>2
    <2> QED
      BY <2>1, <2>2
  <1>4. events' = [events EXCEPT ![c] = events[c] \cup new]
    BY <1>0, <1>3
  <1>5. new \subseteq EventRows
    BY DEF EventRows
  <1>6. events'[c] = events[c] \cup new /\ \A d \in Commands \ {c} : events'[d] = events[d]
    BY <1>0, <1>4
  <1>7. events' \in [Commands -> SUBSET EventRows]
    BY <1>0, <1>4, <1>5
  <1>8. Numbered(events'[c], n + k)
    <2>1. Numbered(events[c] \cup {[seq |-> n + i, type |-> batch[i]] : i \in 1..k}, n + k)
      BY <1>1, NumberedAppend, Zenon
    <2> QED
      BY <2>1, <1>6 DEF Numbered
  <1>9. \A d \in Commands : \E m \in Nat : Numbered(events'[d], m)
    <2> SUFFICES ASSUME NEW d \in Commands PROVE \E m \in Nat : Numbered(events'[d], m)
      OBVIOUS
    <2>1. CASE d = c
      BY <1>8, <2>1, n + k \in Nat
    <2>2. CASE d # c
      <3>1. PICK m \in Nat : Numbered(events[d], m)
        BY DEF IInv
      <3> QED
        BY <3>1, <2>2, <1>6
    <2> QED
      BY <2>1, <2>2
  <1>10. ASSUME NEW e \in events'[c] \ events[c], NEW old \in events[c]
         PROVE  e.seq > old.seq
    <2>1. PICK i \in 1..k : e = [seq |-> n + i, type |-> batch[i]]
      BY <1>6
    <2>2. old.seq \in 1..n
      BY <1>1 DEF Numbered
    <2> QED
      BY <2>1, <2>2
  <1> QED
    BY <1>7, <1>9, <1>10

-----------------------------------------------------------------------------
LEMMA InitIInv == Init => IInv
PROOF
  <1> SUFFICES ASSUME Init PROVE IInv
    OBVIOUS
  <1> USE DEF Init
  <1>1. TypeOK
    BY DEF TypeOK, SessionRows, CommandRows, NoSessionRow, NoCommandRow
  <1>2. \A c \in Commands : Numbered(events[c], 0)
    BY DEF Numbered
  <1>3. TerminalEventMatchesStatus
    BY DEF TerminalEventMatchesStatus, IsTerminal, Terminal, NoCommandRow
  <1>4. EndMarksMatchStatus
    BY DEF EndMarksMatchStatus, IsTerminal, Terminal, NoCommandRow, NoSessionRow, EndedSession
  <1> QED
    BY <1>1, <1>2, <1>3, <1>4 DEF IInv

\* The transactions on table session.
LEMMA SessionStep ==
  ASSUME IInv, NEW s \in Sessions,
         \/ CreateSession(s)
         \/ UpdateSession(s, "running", FALSE)
         \/ \E st \in EndedSession : UpdateSession(s, st, TRUE)
  PROVE  IInv'
PROOF
  <1> USE DEF SessionRows, SessionStatuses, EndedSession
  <1>1. UNCHANGED <<command, events>> /\ session \in [Sessions -> SessionRows]
    BY DEF CreateSession, UpdateSession, IInv, TypeOK
  <1>2. PICK row \in SessionRows :
          /\ session' = [session EXCEPT ![s] = row]
          /\ row.status # "absent"
          /\ row.closedAt <=> row.status \in EndedSession
    <2>0. session[s] \in SessionRows /\ (session[s].closedAt <=> session[s].status \in EndedSession)
      BY <1>1 DEF IInv, EndMarksMatchStatus
    <2>1. CASE CreateSession(s)
      <3> WITNESS [status |-> "starting", closedAt |-> FALSE] \in SessionRows
      <3> QED
        BY <2>0, <2>1 DEF CreateSession
    <2>2. CASE UpdateSession(s, "running", FALSE)
      <3>1. session' = [session EXCEPT ![s] = [status |-> "running", closedAt |-> FALSE]]
        BY <2>0, <2>2 DEF UpdateSession, CanUpdateSession
      <3> WITNESS [status |-> "running", closedAt |-> FALSE] \in SessionRows
      <3> QED
        BY <3>1
    <2>3. ASSUME NEW st \in EndedSession, UpdateSession(s, st, TRUE)
          PROVE  \E row \in SessionRows :
                   /\ session' = [session EXCEPT ![s] = row]
                   /\ row.status # "absent"
                   /\ row.closedAt <=> row.status \in EndedSession
      <3>1. session' = [session EXCEPT ![s] = [status |-> st, closedAt |-> TRUE]]
        BY <2>0, <2>3 DEF UpdateSession
      <3> WITNESS [status |-> st, closedAt |-> TRUE] \in SessionRows
      <3> QED
        BY <3>1
    <2> QED
      BY <2>1, <2>2, <2>3
  <1>3. TypeOK'
    BY <1>1, <1>2 DEF IInv, TypeOK
  <1>4. (\A c \in Commands : \E n \in Nat : Numbered(events[c], n))'
    BY <1>1 DEF IInv, Numbered
  <1>5. TerminalEventMatchesStatus'
    BY <1>1 DEF IInv, TerminalEventMatchesStatus, IsTerminal
  <1>6. EndMarksMatchStatus'
    BY <1>1, <1>2 DEF IInv, EndMarksMatchStatus, IsTerminal
  <1> QED
    BY <1>3, <1>4, <1>5, <1>6 DEF IInv

\* The transactions on table command alone: the row keeps or gets a session,
\* stays short of a terminal status or keeps it, and no event is written.
LEMMA CommandStep ==
  ASSUME IInv, NEW c \in Commands,
         \/ \E s \in Sessions : CreateCommand(c, s)
         \/ \E st \in Progress : UpdateCommand(c, st)
  PROVE  IInv'
PROOF
  <1> USE DEF CommandRows, CommandStatuses, Progress, Terminal
  <1>1. /\ UNCHANGED <<session, events>>
        /\ command \in [Commands -> CommandRows]
        /\ ~IsTerminal(c)
    <2>1. UNCHANGED <<session, events>> /\ command \in [Commands -> CommandRows]
      BY DEF CreateCommand, UpdateCommand, IInv, TypeOK
    <2>2. ~IsTerminal(c)
      BY DEF CreateCommand, UpdateCommand, CanUpdateCommand, IInv, EndMarksMatchStatus, IsTerminal
    <2> QED
      BY <2>1, <2>2
  <1>2. PICK row \in CommandRows :
          /\ command' = [command EXCEPT ![c] = row]
          /\ row.status \in {"queued"} \cup Progress
          /\ row.endedAt = FALSE
          /\ row.session \in Sessions /\ session[row.session].status # "absent"
    <2>1. ASSUME NEW s \in Sessions, CreateCommand(c, s)
          PROVE  \E row \in CommandRows :
                   /\ command' = [command EXCEPT ![c] = row]
                   /\ row.status \in {"queued"} \cup Progress
                   /\ row.endedAt = FALSE
                   /\ row.session \in Sessions /\ session[row.session].status # "absent"
      <3> WITNESS [status |-> "queued", endedAt |-> FALSE, session |-> s] \in CommandRows
      <3> QED
        BY <2>1 DEF CreateCommand
    <2>2. ASSUME NEW st \in Progress, UpdateCommand(c, st)
          PROVE  \E row \in CommandRows :
                   /\ command' = [command EXCEPT ![c] = row]
                   /\ row.status \in {"queued"} \cup Progress
                   /\ row.endedAt = FALSE
                   /\ row.session \in Sessions /\ session[row.session].status # "absent"
      <3>1. command[c] \in CommandRows /\ command[c].endedAt = FALSE
        BY <1>1 DEF IInv, EndMarksMatchStatus
      <3>2. command[c].session \in Sessions /\ session[command[c].session].status # "absent"
        BY <2>2 DEF UpdateCommand, IInv, TypeOK
      <3>3. command' = [command EXCEPT ![c] =
                          [status |-> st, endedAt |-> FALSE, session |-> command[c].session]]
        BY <2>2, <3>1 DEF UpdateCommand
      <3> WITNESS [status |-> st, endedAt |-> FALSE, session |-> command[c].session]
                  \in CommandRows
      <3> QED
        BY <3>2, <3>3
    <2> QED
      BY <2>1, <2>2
  <1>3. /\ command'[c] = row
        /\ \A d \in Commands \ {c} : command'[d] = command[d]
        /\ command' \in [Commands -> CommandRows]
    BY <1>1, <1>2
  <1>4. TypeOK'
    BY <1>1, <1>2, <1>3 DEF IInv, TypeOK
  <1>5. (\A d \in Commands : \E n \in Nat : Numbered(events[d], n))'
    BY <1>1 DEF IInv, Numbered
  <1>6. TerminalEventMatchesStatus'
    <2> SUFFICES ASSUME NEW d \in Commands
                 PROVE  (LET ends == {e \in events[d] : e.type \in TerminalEvents}
                         IN IF IsTerminal(d)
                            THEN \E e \in ends : /\ ends = {e}
                                                 /\ e.type = TerminalEvent[command[d].status]
                            ELSE ends = {})'
      BY DEF TerminalEventMatchesStatus
    <2>1. CASE d = c
      <3>1. ~IsTerminal(d)' /\ ~IsTerminal(d)
        BY <2>1, <1>1, <1>2, <1>3 DEF IsTerminal
      <3>2. {e \in events[d] : e.type \in TerminalEvents} = {}
        BY <3>1 DEF IInv, TerminalEventMatchesStatus
      <3> QED
        BY <3>1, <3>2, <1>1
    <2>2. CASE d # c
      BY <2>2, <1>1, <1>3 DEF IInv, TerminalEventMatchesStatus, IsTerminal
    <2> QED
      BY <2>1, <2>2
  <1>7. EndMarksMatchStatus'
    BY <1>1, <1>2, <1>3 DEF IInv, EndMarksMatchStatus, IsTerminal
  <1> QED
    BY <1>4, <1>5, <1>6, <1>7 DEF IInv

\* An append of started or output events.
LEMMA AppendStep ==
  ASSUME IInv, NEW c \in Commands, NEW batch \in Batches, AppendEvents(c, batch)
  PROVE  IInv'
PROOF
  <1>1. PICK k \in Nat \ {0} : /\ batch \in [1..k -> EventTypes]
                              /\ \A i \in 1..k : batch[i] \notin TerminalEvents
    BY BatchShape
  <1>2. UNCHANGED <<session, command>>
    BY DEF AppendEvents
  <1>3. /\ events' \in [Commands -> SUBSET EventRows]
        /\ \A d \in Commands : \E n \in Nat : Numbered(events'[d], n)
    BY <1>1, AppendKeepsTypeAndNumbers DEF AppendEvents
  <1>4. events \in [Commands -> SUBSET EventRows]
    BY DEF IInv, TypeOK
  <1>5. \A d \in Commands : d # c => events'[d] = events[d]
    BY <1>4 DEF AppendEvents
  <1>6. {e \in events'[c] : e.type \in TerminalEvents}
          = {e \in events[c] : e.type \in TerminalEvents}
    <2>1. events'[c] = events[c] \cup
            {[seq |-> NextSeq(c) + i - 1, type |-> batch[i]] : i \in DOMAIN batch}
      BY <1>4 DEF AppendEvents
    <2> QED
      BY <2>1, <1>1
  <1>7. TypeOK'
    BY <1>2, <1>3, <1>5 DEF IInv, TypeOK, AppendEvents
  <1>8. TerminalEventMatchesStatus'
    <2> SUFFICES ASSUME NEW d \in Commands
                 PROVE  (LET ends == {e \in events[d] : e.type \in TerminalEvents}
                         IN IF IsTerminal(d)
                            THEN \E e \in ends : /\ ends = {e}
                                                 /\ e.type = TerminalEvent[command[d].status]
                            ELSE ends = {})'
      BY DEF TerminalEventMatchesStatus
    <2>1. {e \in events'[d] : e.type \in TerminalEvents}
            = {e \in events[d] : e.type \in TerminalEvents}
      BY <1>5, <1>6
    <2> QED
      BY <2>1, <1>2 DEF IInv, TerminalEventMatchesStatus, IsTerminal
  <1>9. EndMarksMatchStatus'
    BY <1>2 DEF IInv, EndMarksMatchStatus, IsTerminal
  <1>10. (\A d \in Commands : \E n \in Nat : Numbered(events[d], n))'
    BY <1>3 DEF Numbered
  <1> QED
    BY <1>7, <1>8, <1>9, <1>10 DEF IInv

\* What a finish that finds the command active does: one terminal event, in
\* the step that makes the status terminal.
LEMMA FinishActive ==
  ASSUME IInv, NEW c \in Commands, NEW st \in Terminal, FinishCommand(c, st), ~IsTerminal(c)
  PROVE  LET e == [seq |-> NextSeq(c), type |-> TerminalEvent[st]]
             row == [status |-> st, endedAt |-> TRUE, session |-> command[c].session]
         IN /\ command' = [command EXCEPT ![c] = row]
            /\ events' = [events EXCEPT ![c] = @ \cup {e}]
            /\ row \in CommandRows
            /\ row.session \in Sessions /\ session[row.session].status # "absent"
            /\ UNCHANGED session
            /\ TerminalEvent[st] \in TerminalEvents
PROOF
  <1>1. command[c].session \in Sessions /\ session[command[c].session].status # "absent"
    BY DEF FinishCommand, IInv, TypeOK
  <1>2. TerminalEvent[st] \in TerminalEvents
    BY DEF TerminalEvents
  <1>3. [status |-> st, endedAt |-> TRUE, session |-> command[c].session] \in CommandRows
    BY <1>1 DEF CommandRows, CommandStatuses
  <1> QED
    BY <1>1, <1>2, <1>3 DEF FinishCommand

LEMMA FinishStep ==
  ASSUME IInv, NEW c \in Commands, NEW st \in Terminal, FinishCommand(c, st)
  PROVE  IInv'
PROOF
  <1>0. CASE IsTerminal(c)
    BY <1>0 DEF FinishCommand, tables, IInv, TypeOK, Numbered, TerminalEventMatchesStatus,
                EndMarksMatchStatus, IsTerminal
  <1>1. CASE ~IsTerminal(c)
    <2> DEFINE e == [seq |-> NextSeq(c), type |-> TerminalEvent[st]]
               row == [status |-> st, endedAt |-> TRUE, session |-> command[c].session]
    <2>1. /\ command' = [command EXCEPT ![c] = row]
          /\ events' = [events EXCEPT ![c] = @ \cup {e}]
          /\ row \in CommandRows
          /\ row.session \in Sessions /\ session[row.session].status # "absent"
          /\ UNCHANGED session
          /\ TerminalEvent[st] \in TerminalEvents
      BY <1>1, FinishActive
    <2>2. /\ command \in [Commands -> CommandRows]
          /\ events \in [Commands -> SUBSET EventRows]
      BY DEF IInv, TypeOK
    <2>3. /\ command' \in [Commands -> CommandRows]
          /\ command'[c] = row
          /\ \A d \in Commands : d # c => command'[d] = command[d] /\ events'[d] = events[d]
          /\ events'[c] = events[c] \cup {e}
      BY <2>1, <2>2
    <2>4. /\ events' \in [Commands -> SUBSET EventRows]
          /\ \A d \in Commands : \E n \in Nat : Numbered(events'[d], n)
      <3> DEFINE one == [i \in 1..1 |-> TerminalEvent[st]]
      <3>1. one \in [1..1 -> EventTypes]
        BY <2>1 DEF EventTypes
      <3>2. PICK n \in Nat : Numbered(events[c], n)
        BY DEF IInv
      <3>3. NextSeq(c) = n + 1
        BY <3>2, NextSeqOfInterval DEF Numbered
      <3>4. {[seq |-> NextSeq(c) + i - 1, type |-> one[i]] : i \in DOMAIN one} = {e}
        <4>1. DOMAIN one = {1} /\ one[1] = TerminalEvent[st] /\ NextSeq(c) + 1 - 1 = NextSeq(c)
          BY <3>3
        <4> HIDE DEF one
        <4>2. \A i \in DOMAIN one : [seq |-> NextSeq(c) + i - 1, type |-> one[i]] = e
          BY <4>1
        <4> QED
          BY <4>1, <4>2
      <3> HIDE DEF one
      <3>5. events' = [events EXCEPT ![c] = @ \cup
                         {[seq |-> NextSeq(c) + i - 1, type |-> one[i]] : i \in DOMAIN one}]
        BY <2>1, <3>4
      <3> QED
        BY <3>1, <3>5, 1 \in Nat \ {0}, AppendKeepsTypeAndNumbers
    <2>5. TypeOK'
      BY <2>1, <2>3, <2>4 DEF IInv, TypeOK, Terminal
    <2>6. (\A d \in Commands : \E n \in Nat : Numbered(events[d], n))'
      BY <2>4 DEF Numbered
    <2>7. TerminalEventMatchesStatus'
      <3> SUFFICES ASSUME NEW d \in Commands
                   PROVE  (LET ends == {f \in events[d] : f.type \in TerminalEvents}
                           IN IF IsTerminal(d)
                              THEN \E f \in ends : /\ ends = {f}
                                                   /\ f.type = TerminalEvent[command[d].status]
                              ELSE ends = {})'
        BY DEF TerminalEventMatchesStatus
      <3>1. CASE d = c
        <4>1. {f \in events[c] : f.type \in TerminalEvents} = {}
          BY <1>1 DEF IInv, TerminalEventMatchesStatus
        <4>2. {f \in events'[c] : f.type \in TerminalEvents} = {e}
          BY <4>1, <2>1, <2>3
        <4>3. command'[c].status = st /\ command'[d].status \in Terminal
          BY <2>3, <3>1
        <4>4. \E f \in {e} : {e} = {f} /\ f.type = TerminalEvent[command'[c].status]
          BY <4>3
        <4> HIDE DEF e
        <4> QED
          BY <3>1, <4>2, <4>3, <4>4 DEF IsTerminal
      <3>2. CASE d # c
        BY <3>2, <2>3 DEF IInv, TerminalEventMatchesStatus, IsTerminal
      <3> QED
        BY <3>1, <3>2
    <2>8. EndMarksMatchStatus'
      BY <2>1, <2>3 DEF IInv, EndMarksMatchStatus, IsTerminal
    <2> QED
      BY <2>5, <2>6, <2>7, <2>8 DEF IInv
  <1> QED
    BY <1>0, <1>1

-----------------------------------------------------------------------------
LEMMA NextIInv == IInv /\ [Next]_tables => IInv'
PROOF
  <1> SUFFICES ASSUME IInv, [Next]_tables PROVE IInv'
    OBVIOUS
  <1>1. CASE UNCHANGED tables
    BY <1>1 DEF tables, IInv, TypeOK, Numbered, TerminalEventMatchesStatus,
                EndMarksMatchStatus, IsTerminal
  <1>2. ASSUME NEW s \in Sessions,
               \/ CreateSession(s)
               \/ UpdateSession(s, "running", FALSE)
               \/ \E st \in EndedSession : UpdateSession(s, st, TRUE)
        PROVE  IInv'
    BY <1>2, SessionStep
  <1>3. ASSUME NEW c \in Commands,
               \/ \E s \in Sessions : CreateCommand(c, s)
               \/ \E st \in Progress : UpdateCommand(c, st)
        PROVE  IInv'
    BY <1>3, CommandStep
  <1>4. ASSUME NEW c \in Commands, NEW batch \in Batches, AppendEvents(c, batch)
        PROVE  IInv'
    BY <1>4, AppendStep
  <1>5. ASSUME NEW c \in Commands, NEW st \in Terminal, FinishCommand(c, st)
        PROVE  IInv'
    BY <1>5, FinishStep
  <1> QED
    BY <1>1, <1>2, <1>3, <1>4, <1>5 DEF Next

LEMMA StoreIInv == Spec => []IInv
PROOF
  BY InitIInv, NextIInv, PTL DEF Spec

\* Every row is of its table's type and every reference to a row holds.
THEOREM StoreTypeOK == Spec => []TypeOK
PROOF
  <1>1. IInv => TypeOK
    BY DEF IInv
  <1> QED
    BY <1>1, StoreIInv, PTL

\* The events of every command are numbered from 1 without a gap or a repeat:
\* reading seq > since_seq replays them exactly.
THEOREM StoreSeqsContiguous == Spec => []SeqsContiguous
PROOF
  BY IInvImpliesContiguous, StoreIInv, PTL

\* However many finishes race, a command gets one terminal event, with its
\* terminal status and of that status.
THEOREM StoreOneTerminalEvent == Spec => []TerminalEventMatchesStatus
PROOF
  <1>1. IInv => TerminalEventMatchesStatus
    BY DEF IInv
  <1> QED
    BY <1>1, StoreIInv, PTL

\* ended_at and closed_at are set exactly in ended rows.
THEOREM StoreEndMarks == Spec => []EndMarksMatchStatus
PROOF
  <1>1. IInv => EndMarksMatchStatus
    BY DEF IInv
  <1> QED
    BY <1>1, StoreIInv, PTL

-----------------------------------------------------------------------------
\* A step that is no append and no finish leaves the events alone, and no step
\* but a finish can touch the row of a terminal command.
LEMMA TerminalRowKept ==
  ASSUME IInv, [Next]_tables, NEW c \in Commands, IsTerminal(c)
  PROVE  command'[c] = command[c]
PROOF
  <1>0. /\ command \in [Commands -> CommandRows]
        /\ command[c].endedAt
        /\ command[c].status \in Terminal
    BY DEF IInv, TypeOK, EndMarksMatchStatus, IsTerminal
  <1>1. CASE UNCHANGED command
    BY <1>1
  <1>2. ASSUME NEW d \in Commands, NEW s \in Sessions, CreateCommand(d, s)
        PROVE  command'[c] = command[c]
    BY <1>0, <1>2 DEF CreateCommand, Terminal
  <1>3. ASSUME NEW d \in Commands, NEW st \in Progress, UpdateCommand(d, st)
        PROVE  command'[c] = command[c]
    BY <1>0, <1>3 DEF UpdateCommand, CanUpdateCommand, Progress, Terminal
  <1>4. ASSUME NEW d \in Commands, NEW st \in Terminal, FinishCommand(d, st)
        PROVE  command'[c] = command[c]
    <2>1. CASE d = c
      BY <2>1, <1>4 DEF FinishCommand, tables
    <2>2. CASE d # c
      BY <2>2, <1>4, <1>0 DEF FinishCommand, tables
    <2> QED
      BY <2>1, <2>2
  <1> QED
    BY <1>1, <1>2, <1>3, <1>4
    DEF Next, tables, CreateSession, UpdateSession, AppendEvents

LEMMA EndedSessionKept ==
  ASSUME IInv, [Next]_tables, NEW s \in Sessions, session[s].status \in EndedSession
  PROVE  session'[s].status \in EndedSession
PROOF
  <1>0. /\ session \in [Sessions -> SessionRows]
        /\ session[s].closedAt
    BY DEF IInv, TypeOK, EndMarksMatchStatus
  <1>1. CASE UNCHANGED session
    BY <1>1
  <1>2. ASSUME NEW r \in Sessions, CreateSession(r)
        PROVE  session'[s].status \in EndedSession
    BY <1>0, <1>2 DEF CreateSession, EndedSession
  <1>3. ASSUME NEW r \in Sessions, UpdateSession(r, "running", FALSE)
        PROVE  session'[s].status \in EndedSession
    BY <1>0, <1>3 DEF UpdateSession, CanUpdateSession, EndedSession
  <1>4. ASSUME NEW r \in Sessions, NEW st \in EndedSession, UpdateSession(r, st, TRUE)
        PROVE  session'[s].status \in EndedSession
    BY <1>0, <1>4 DEF UpdateSession
  <1> QED
    BY <1>1, <1>2, <1>3, <1>4
    DEF Next, tables, CreateCommand, UpdateCommand, AppendEvents, FinishCommand

LEMMA EventsOnlyAppended ==
  ASSUME IInv, [Next]_tables, NEW c \in Commands
  PROVE  /\ events[c] \subseteq events'[c]
         /\ \A new \in events'[c] \ events[c], old \in events[c] : new.seq > old.seq
PROOF
  <1>0. events \in [Commands -> SUBSET EventRows]
    BY DEF IInv, TypeOK
  <1>1. CASE UNCHANGED events
    BY <1>1
  <1>2. ASSUME NEW d \in Commands, NEW batch \in Batches, AppendEvents(d, batch)
        PROVE  /\ events[c] \subseteq events'[c]
               /\ \A new \in events'[c] \ events[c], old \in events[c] : new.seq > old.seq
    <2>1. CASE d # c
      BY <2>1, <1>0, <1>2 DEF AppendEvents
    <2>2. CASE d = c
      <3>1. PICK k \in Nat \ {0} : batch \in [1..k -> EventTypes]
        BY BatchShape
      <3>2. events[c] \subseteq events'[c]
        BY <2>2, <1>0, <1>2 DEF AppendEvents
      <3>3. \A new \in events'[c] \ events[c], old \in events[c] : new.seq > old.seq
        BY <2>2, <1>2, <3>1, AppendKeepsTypeAndNumbers DEF AppendEvents
      <3> QED
        BY <3>2, <3>3
    <2> QED
      BY <2>1, <2>2
  <1>3. ASSUME NEW d \in Commands, NEW st \in Terminal, FinishCommand(d, st), ~IsTerminal(d)
        PROVE  /\ events[c] \subseteq events'[c]
               /\ \A new \in events'[c] \ events[c], old \in events[c] : new.seq > old.seq
    <2> DEFINE e == [seq |-> NextSeq(d), type |-> TerminalEvent[st]]
    <2>1. events' = [events EXCEPT ![d] = @ \cup {e}]
      BY <1>3 DEF FinishCommand
    <2>2. PICK n \in Nat : Numbered(events[d], n)
      BY DEF IInv
    <2>3. e.seq = n + 1 /\ \A old \in events[d] : old.seq \in 1..n
      BY <2>2, NextSeqOfInterval DEF Numbered
    <2> HIDE DEF e
    <2> QED
      BY <2>1, <2>3, <1>0
  <1> QED
    BY <1>1, <1>2, <1>3
    DEF Next, tables, CreateSession, UpdateSession, CreateCommand, UpdateCommand, FinishCommand

\* No update and no second finish changes the row of a terminal command.
THEOREM StoreTerminalIsFinal == Spec => TerminalIsFinal
PROOF
  <1>1. IInv /\ [Next]_tables
          => [\A c \in Commands : IsTerminal(c) => command'[c] = command[c]]_tables
    BY TerminalRowKept
  <1> QED
    BY <1>1, StoreIInv, PTL DEF Spec, TerminalIsFinal

\* No update makes an ended session starting or running again.
THEOREM StoreEndedSessionStaysEnded == Spec => EndedSessionStaysEnded
PROOF
  <1>1. IInv /\ [Next]_tables
          => [\A s \in Sessions : session[s].status \in EndedSession
                                  => session'[s].status \in EndedSession]_tables
    BY EndedSessionKept
  <1> QED
    BY <1>1, StoreIInv, PTL DEF Spec, EndedSessionStaysEnded

\* The events a reader has seen stay, and new ones come after them.
THEOREM StoreReadersSeeAppendsOnly == Spec => ReadersSeeAppendsOnly
PROOF
  <1>1. IInv /\ [Next]_tables
          => [\A c \in Commands :
                /\ events[c] \subseteq events'[c]
                /\ \A new \in events'[c] \ events[c], old \in events[c] :
                     new.seq > old.seq]_tables
    BY EventsOnlyAppended
  <1> QED
    BY <1>1, StoreIInv, PTL DEF Spec, ReadersSeeAppendsOnly
=============================================================================
