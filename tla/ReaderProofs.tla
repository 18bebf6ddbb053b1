----------------------------- MODULE ReaderProofs -----------------------------
(***************************************************************************)
(* Theorems about Reader, for any number of readers and commands, and logs *)
(* of any length.                                                          *)
(***************************************************************************)
EXTENDS Reader, SequenceTheorems, TLAPS

-----------------------------------------------------------------------------
EndEvents == {Endings[st] : st \in Endeds}
Reported == {"command_started", "stdout", "stderr"}

LEMMA EndingsAre ==
  /\ Endeds = {"completed", "failed", "timed_out", "canceled"}
  /\ \A st \in Endeds : Endings[st] \in EndEvents /\ Endings[st] \notin Reported
  /\ EndEvents \cap Reported = {} /\ EventTypes = EndEvents \cup Reported
  /\ Active \cap Endeds = {} /\ "absent" \notin Endeds \cup Active
PROOF
  BY DEF Endeds, Endings, EndEvents, Reported, EventTypes, Active

CommandsTyped ==
  /\ status \in [Commands -> Active \cup Endeds \cup {"absent"}]
  /\ log \in [Commands -> Seq(EventTypes)]

\* What a step of CommandLifecycle is to one command.
Moves(c) == status[c] \notin Endeds /\ status'[c] \in Active /\ log'[c] = log[c]
Reports(c) ==
  /\ status'[c] = status[c] /\ status[c] \notin {"completed", "failed"}
  /\ \E t \in Reported : log'[c] = Append(log[c], t)
Ends(c) ==
  /\ status[c] \notin Endeds /\ status'[c] \in Endeds
  /\ log'[c] = Append(log[c], Endings[status'[c]])
Rests(c) == status'[c] = status[c] /\ log'[c] = log[c]

LEMMA CommandSteps ==
  ASSUME CommandsTyped, Next, NEW c \in Commands
  PROVE  Moves(c) \/ Reports(c) \/ Ends(c) \/ Rests(c)
PROOF
  <1> USE DEF CommandsTyped
  <1>1. PICK d \in Commands :
          \/ Move(d, "absent", "queued") \/ Move(d, "queued", "starting")
          \/ Move(d, "starting", "running")
          \/ \E t \in Reported : Report(d, t)
          \/ \E st \in Endeds : End(d, st)
    BY DEF Next, Reported, Endeds
  <1>2. CASE \/ Move(d, "absent", "queued") \/ Move(d, "queued", "starting")
             \/ Move(d, "starting", "running")
    BY <1>2, EndingsAre DEF Move, Moves, Rests, Active
  <1>3. ASSUME NEW t \in Reported, Report(d, t) PROVE Reports(c) \/ Rests(c)
    BY <1>3 DEF Report, Reports, Rests
  <1>4. ASSUME NEW st \in Endeds, End(d, st) PROVE Ends(c) \/ Rests(c)
    BY <1>4, EndingsAre DEF End, Ends, Rests
  <1> QED
    BY <1>1, <1>2, <1>3, <1>4

LEMMA CommandsStayTyped ==
  ASSUME CommandsTyped, Next
  PROVE  CommandsTyped'
PROOF
  <1>1. \A c \in Commands : status'[c] \in Active \cup Endeds \cup {"absent"}
    BY CommandSteps DEF Moves, Reports, Ends, Rests, CommandsTyped
  <1>2. ASSUME NEW c \in Commands PROVE log'[c] \in Seq(EventTypes)
    <2>1. log[c] \in Seq(EventTypes)
      BY DEF CommandsTyped
    <2>2. CASE Moves(c) \/ Rests(c)
      BY <2>1, <2>2 DEF Moves, Rests
    <2>3. CASE Reports(c)
      BY <2>1, <2>3, EndingsAre, AppendProperties DEF Reports
    <2>4. CASE Ends(c)
      BY <2>1, <2>4, EndingsAre, AppendProperties DEF Ends
    <2> QED
      BY <2>2, <2>3, <2>4, CommandSteps
  <1>3. /\ status' = [c \in Commands |-> status'[c]]
        /\ log' = [c \in Commands |-> log'[c]]
    BY DEF Next, Move, Report, End, CommandsTyped
  <1> QED
    BY <1>1, <1>2, <1>3 DEF CommandsTyped

-----------------------------------------------------------------------------
(* Prefixes *)

LEMMA PrefixOfAppended ==
  ASSUME NEW S, NEW s \in Seq(S), NEW t \in Seq(S), NEW e \in S, IsPrefixOf(s, t)
  PROVE  IsPrefixOf(s, Append(t, e))
PROOF
  <1>1. /\ Len(s) \in Nat /\ Len(t) \in Nat /\ Len(s) <= Len(t) /\ s = SubSeq(t, 1, Len(s))
        /\ Append(t, e) = t \o <<e>> /\ <<e>> \in Seq(S) /\ Len(Append(t, e)) = Len(t) + 1
    BY LenProperties, AppendIsConcat, AppendProperties DEF IsPrefixOf
  <1>2. CASE Len(s) = 0
    BY <1>1, <1>2, SubSeqEmpty DEF IsPrefixOf
  <1>3. CASE Len(s) # 0
    <2>1. SubSeq(t \o <<e>>, 1, Len(s)) = SubSeq(t, 1, Len(s))
      BY <1>1, <1>3, SubSeqOfConcat1
    <2> QED
      BY <1>1, <2>1 DEF IsPrefixOf
  <1> QED
    BY <1>2, <1>3

LEMMA PrefixCompleted ==
  ASSUME NEW S, NEW s \in Seq(S), NEW t \in Seq(S), IsPrefixOf(s, t)
  PROVE  s \o SubSeq(t, Len(s) + 1, Len(t)) = t
PROOF
  <1>1. Len(s) \in Nat /\ Len(t) \in Nat /\ Len(s) <= Len(t) /\ s = SubSeq(t, 1, Len(s))
    BY LenProperties DEF IsPrefixOf
  <1> DEFINE rest == SubSeq(t, Len(s) + 1, Len(t))
  <1>2. /\ rest \in Seq(S) /\ Len(rest) = Len(t) - Len(s)
        /\ \A i \in 1..Len(t) - Len(s) : rest[i] = t[Len(s) + i]
    <2>1. \A i \in Len(s) + 1..Len(t) : t[i] \in S
      BY <1>1, ElementOfSeq
    <2> QED
      BY <1>1, <2>1, SubSeqProperties
  <1>3. \A i \in 1..Len(s) : s[i] = t[i]
    <2>1. \A i \in 1..Len(s) : t[i] \in S
      BY <1>1, ElementOfSeq
    <2> QED
      BY <1>1, <2>1, SubSeqProperties
  <1> HIDE DEF rest
  <1>4. /\ s \o rest \in Seq(S) /\ Len(s \o rest) = Len(t)
        /\ \A i \in 1..Len(t) : (s \o rest)[i] = IF i <= Len(s) THEN s[i] ELSE rest[i - Len(s)]
    BY <1>1, <1>2, ConcatProperties
  <1> DEFINE m == Len(s)
             n == Len(t)
             whole == s \o rest
  <1>5. ASSUME NEW i \in 1..n PROVE whole[i] = t[i]
    <2>1. m \in Nat /\ n \in Nat /\ m <= n
      BY <1>1
    <2>2. whole[i] = IF i <= m THEN s[i] ELSE rest[i - m]
      BY <1>4
    <2>3. \A j \in 1..m : s[j] = t[j]
      BY <1>3
    <2>4. \A j \in 1..n - m : rest[j] = t[m + j]
      BY <1>2
    <2> HIDE DEF m, n, whole
    <2>5. CASE i <= m
      BY <2>1, <2>2, <2>3, <2>5
    <2>6. CASE i > m
      <3>1. i - m \in 1..n - m /\ m + (i - m) = i
        BY <2>1, <2>6
      <3>2. rest[i - m] = t[m + (i - m)]
        BY <2>4, <3>1
      <3> QED
        BY <2>1, <2>2, <2>6, <3>1, <3>2
    <2> QED
      BY <2>1, <2>5, <2>6
  <1>6. s \o rest = t
    BY <1>4, <1>5, SeqEqual
  <1> QED
    BY <1>6 DEF rest

LEMMA PrefixOfItself ==
  ASSUME NEW S, NEW s \in Seq(S)
  PROVE  IsPrefixOf(s, s)
PROOF
  BY SubSeqFull, LenProperties DEF IsPrefixOf

-----------------------------------------------------------------------------
(* Cursors *)

SeenTyped == seen \in [Readers -> [Commands -> Seq(EventTypes)]]
CursorInv == CommandsTyped /\ SeenTyped /\ CursorLosesNothing

LEMMA InitCursorInv == ReadersInit => CursorInv
PROOF
  <1> SUFFICES ASSUME ReadersInit PROVE CursorInv
    OBVIOUS
  <1>1. <<>> \in Seq(EventTypes)
    BY EmptySeq
  <1>2. IsPrefixOf(<<>>, <<>>)
    BY <1>1, PrefixOfItself
  <1> QED
    BY <1>1, <1>2 DEF ReadersInit, Init, CursorInv, CommandsTyped, SeenTyped, CursorLosesNothing

LEMMA NextCursorInv == CursorInv /\ [ReaderNext]_<<vars, readers>> => CursorInv'
PROOF
  <1> SUFFICES ASSUME CursorInv, [ReaderNext]_<<vars, readers>> PROVE CursorInv'
    OBVIOUS
  <1>t. /\ CommandsTyped /\ SeenTyped /\ CursorLosesNothing
        /\ \A c \in Commands : log[c] \in Seq(EventTypes)
    BY DEF CursorInv, CommandsTyped
  <1>1. CASE CommandsGoOn
    <2>1. Next /\ seen' = seen
      BY <1>1 DEF CommandsGoOn, readers
    <2>2. CommandsTyped' /\ SeenTyped'
      BY <1>t, <2>1, CommandsStayTyped DEF SeenTyped
    <2>3. ASSUME NEW r \in Readers, NEW c \in Commands PROVE IsPrefixOf(seen'[r][c], log'[c])
      <3>1. /\ IsPrefixOf(seen[r][c], log[c]) /\ seen[r][c] \in Seq(EventTypes)
            /\ log[c] \in Seq(EventTypes) /\ seen'[r][c] = seen[r][c]
        BY <1>t, <2>1 DEF CursorLosesNothing, SeenTyped
      <3>2. log'[c] = log[c] \/ \E t \in EventTypes : log'[c] = Append(log[c], t)
        BY <1>t, <2>1, CommandSteps, EndingsAre DEF Moves, Reports, Ends, Rests
      <3> QED
        BY <3>1, <3>2, PrefixOfAppended
    <2> QED
      BY <2>2, <2>3 DEF CursorInv, CursorLosesNothing
  <1>2. ASSUME NEW r \in Readers, NEW c \in Commands, Events(r, c) PROVE CursorInv'
    <2>1. /\ seen' = [seen EXCEPT ![r][c] = seen[r][c] \o SubSeq(log[c], Len(seen[r][c]) + 1,
                                                                 Len(log[c]))]
          /\ UNCHANGED <<status, log>>
      BY <1>2 DEF Events, EventsSince
    <2>2. seen[r][c] \o SubSeq(log[c], Len(seen[r][c]) + 1, Len(log[c])) = log[c]
      <3>1. seen[r][c] \in Seq(EventTypes) /\ log[c] \in Seq(EventTypes)
        BY <1>t DEF SeenTyped
      <3>2. IsPrefixOf(seen[r][c], log[c])
        BY <1>t DEF CursorLosesNothing
      <3> QED
        BY <3>1, <3>2, PrefixCompleted
    <2>3. seen' = [seen EXCEPT ![r][c] = log[c]]
      BY <2>1, <2>2
    <2>4. IsPrefixOf(log[c], log[c])
      BY <1>t, PrefixOfItself
    <2>5. SeenTyped'
      BY <1>t, <2>3 DEF SeenTyped
    <2>6. ASSUME NEW q \in Readers, NEW d \in Commands PROVE IsPrefixOf(seen'[q][d], log'[d])
      <3>1. seen'[q][d] = IF q = r /\ d = c THEN log[d] ELSE seen[q][d]
        BY <1>t, <2>3 DEF SeenTyped
      <3> QED
        BY <1>t, <2>1, <2>4, <3>1 DEF CursorLosesNothing
    <2> QED
      BY <1>t, <2>1, <2>5, <2>6 DEF CursorInv, CommandsTyped, CursorLosesNothing
  <1>3. CASE UNCHANGED <<status, log, seen>>
    BY <1>3, <1>t DEF CursorInv, CommandsTyped, SeenTyped, CursorLosesNothing
  <1> QED
    BY <1>1, <1>2, <1>3
       DEF ReaderNext, Following, Poll, ReadCommand, ReadEvents, vars, readers

\* Any number of readers, each continuing from its own last seq at any moments,
\* lose, repeat and change nothing of the log.
THEOREM ReaderCursorLosesNothing == ReaderSpec => []CursorLosesNothing
PROOF
  <1>1. CursorInv => CursorLosesNothing
    BY DEF CursorInv
  <1> QED
    BY <1>1, InitCursorInv, NextCursorInv, PTL DEF ReaderSpec

-----------------------------------------------------------------------------
(* Results *)

EndsOf(s) == {i \in DOMAIN s : s[i] \in EndEvents}

\* Every log holds the end of its command, once, and no other.
EndsOnce ==
  \A c \in Commands :
    IF status[c] \in Endeds
    THEN \E i \in EndsOf(log[c]) : EndsOf(log[c]) = {i} /\ log[c][i] = Endings[status[c]]
    ELSE EndsOf(log[c]) = {}

\* A command that a reader has found terminal has the status that it found.
Waits ==
  /\ waiting \in [Readers -> [Commands ->
                    [pc : {"idle", "command", "events"}, status : Endeds \cup {"none"}]]]
  /\ \A r \in Readers, c \in Commands :
       /\ waiting[r][c].pc = "command" => status[c] \in Endeds
       /\ waiting[r][c].pc = "events" => status[c] \in Endeds /\ waiting[r][c].status = status[c]

ResultsTyped ==
  result \in [Readers -> [Commands ->
                [status : Endeds \cup {"none"}, events : Seq(EventTypes)]]]

Whole(res, c) ==
  /\ res.status = status[c] /\ status[c] \in Endeds
  /\ \E i \in EndsOf(res.events) : EndsOf(res.events) = {i} /\ res.events[i] = Endings[res.status]
  /\ res.status \in {"completed", "failed"} => res.events = log[c]

ResultsWhole == \A r \in Readers, c \in Commands : result[r][c] # NoResult => Whole(result[r][c], c)

ResultInv == CommandsTyped /\ EndsOnce /\ Waits /\ ResultsTyped /\ ResultsWhole

\* A reader goes to another place with one command.
LEMMA WaitsStep ==
  ASSUME Waits, UNCHANGED status, NEW r \in Readers, NEW c \in Commands,
         NEW w \in [pc : {"idle", "command", "events"}, status : Endeds \cup {"none"}],
         waiting' = [waiting EXCEPT ![r][c] = w],
         w.pc \in {"command", "events"} => status[c] \in Endeds,
         w.pc = "events" => w.status = status[c]
  PROVE  Waits'
PROOF
  <1> DEFINE W == [pc : {"idle", "command", "events"}, status : Endeds \cup {"none"}]
  <1>1. waiting \in [Readers -> [Commands -> W]]
    BY DEF Waits
  <1>2. \A q \in Readers, d \in Commands :
          /\ waiting[q][d].pc = "command" => status[d] \in Endeds
          /\ waiting[q][d].pc = "events" => status[d] \in Endeds /\ waiting[q][d].status = status[d]
    BY DEF Waits
  <1>3. w \in W
    OBVIOUS
  <1> HIDE DEF W
  <1>4. waiting' = [waiting EXCEPT ![r] = [waiting[r] EXCEPT ![c] = w]]
    BY <1>1
  <1>5. waiting[r] \in [Commands -> W]
    BY <1>1
  <1>6. [waiting[r] EXCEPT ![c] = w] \in [Commands -> W]
    BY <1>3, <1>5
  <1>7. waiting' \in [Readers -> [Commands -> W]]
    BY <1>1, <1>4, <1>6
  <1>8. ASSUME NEW q \in Readers, NEW d \in Commands
        PROVE  waiting'[q][d] = IF q = r /\ d = c THEN w ELSE waiting[q][d]
    BY <1>1, <1>4, <1>5
  <1>9. ASSUME NEW q \in Readers, NEW d \in Commands
        PROVE  /\ waiting'[q][d].pc = "command" => status'[d] \in Endeds
               /\ waiting'[q][d].pc = "events" =>
                    status'[d] \in Endeds /\ waiting'[q][d].status = status'[d]
    <2>1. CASE q = r /\ d = c
      BY <1>8, <2>1
    <2>2. CASE ~(q = r /\ d = c)
      BY <1>2, <1>8, <2>2
    <2> QED
      BY <2>1, <2>2
  <1> QED
    BY <1>7, <1>9 DEF Waits, W

LEMMA EndsOfAppended ==
  ASSUME NEW s \in Seq(EventTypes), NEW e \in EventTypes
  PROVE  /\ EndsOf(Append(s, e)) = EndsOf(s) \cup IF e \in EndEvents THEN {Len(s) + 1} ELSE {}
         /\ \A i \in EndsOf(s) : Append(s, e)[i] = s[i]
         /\ Append(s, e)[Len(s) + 1] = e
PROOF
  <1>1. Len(s) \in Nat /\ DOMAIN s = 1..Len(s)
    BY LenProperties
  <1>2. /\ Append(s, e) \in Seq(EventTypes) /\ Len(Append(s, e)) = Len(s) + 1
        /\ \A i \in 1..Len(s) : Append(s, e)[i] = s[i]
        /\ Append(s, e)[Len(s) + 1] = e
    BY AppendProperties
  <1>3. DOMAIN Append(s, e) = 1..Len(s) + 1
    BY <1>2, LenProperties
  <1> QED
    BY <1>1, <1>2, <1>3 DEF EndsOf

LEMMA EndsStayOnce ==
  ASSUME CommandsTyped, EndsOnce, Next
  PROVE  EndsOnce'
PROOF
  <1> SUFFICES ASSUME NEW c \in Commands
               PROVE  IF status'[c] \in Endeds
                      THEN \E i \in EndsOf(log'[c]) : /\ EndsOf(log'[c]) = {i}
                                                      /\ log'[c][i] = Endings[status'[c]]
                      ELSE EndsOf(log'[c]) = {}
    BY DEF EndsOnce
  <1>t. log[c] \in Seq(EventTypes)
    BY DEF CommandsTyped
  <1>1. CASE Moves(c) \/ Rests(c)
    BY <1>1, EndingsAre DEF Moves, Rests, EndsOnce
  <1>2. CASE Reports(c)
    <2>1. PICK t \in Reported : log'[c] = Append(log[c], t)
      BY <1>2 DEF Reports
    <2>2. /\ EndsOf(log'[c]) = EndsOf(log[c])
          /\ \A i \in EndsOf(log[c]) : log'[c][i] = log[c][i]
      <3>1. t \in EventTypes /\ t \notin EndEvents
        BY EndingsAre
      <3>2. /\ EndsOf(Append(log[c], t)) = EndsOf(log[c]) \cup {}
            /\ \A i \in EndsOf(log[c]) : Append(log[c], t)[i] = log[c][i]
        BY <1>t, <3>1, EndsOfAppended
      <3> QED
        BY <2>1, <3>2
    <2>3. status'[c] = status[c]
      BY <1>2 DEF Reports
    <2> QED
      BY <2>2, <2>3 DEF EndsOnce
  <1>3. CASE Ends(c)
    <2>1. /\ status[c] \notin Endeds /\ status'[c] \in Endeds
          /\ log'[c] = Append(log[c], Endings[status'[c]])
      BY <1>3 DEF Ends
    <2>2. Endings[status'[c]] \in EndEvents /\ Endings[status'[c]] \in EventTypes
      BY <2>1, EndingsAre
    <2>3. EndsOf(log'[c]) = {Len(log[c]) + 1} /\ log'[c][Len(log[c]) + 1] = Endings[status'[c]]
      <3>1. /\ EndsOf(log'[c]) = EndsOf(log[c]) \cup {Len(log[c]) + 1}
            /\ log'[c][Len(log[c]) + 1] = Endings[status'[c]]
        BY <1>t, <2>1, <2>2, EndsOfAppended
      <3>2. EndsOf(log[c]) = {}
        BY <2>1 DEF EndsOnce
      <3> QED
        BY <3>1, <3>2
    <2> QED
      BY <2>1, <2>3
  <1> QED
    BY <1>1, <1>2, <1>3, CommandSteps

\* What has ended does not change its status, nor its log if it completed or failed.
LEMMA EndedStays ==
  ASSUME CommandsTyped, Next, NEW c \in Commands, status[c] \in Endeds
  PROVE  status'[c] = status[c] /\ (status[c] \in {"completed", "failed"} => log'[c] = log[c])
PROOF
  BY CommandSteps DEF Moves, Reports, Ends, Rests

LEMMA InitResultInv == ReadersInit => ResultInv
PROOF
  <1> SUFFICES ASSUME ReadersInit PROVE ResultInv
    OBVIOUS
  <1>1. <<>> \in Seq(EventTypes) /\ EndsOf(<<>>) = {}
    BY EmptySeq DEF EndsOf
  <1>2. CommandsTyped /\ EndsOnce
    BY <1>1, EndingsAre DEF ReadersInit, Init, CommandsTyped, EndsOnce
  <1>3. Waits /\ ResultsTyped /\ ResultsWhole
    BY <1>1 DEF ReadersInit, Waits, ResultsTyped, ResultsWhole, Idle, NoResult
  <1> QED
    BY <1>2, <1>3 DEF ResultInv

LEMMA NextResultInv == ResultInv /\ [ReaderNext]_<<vars, readers>> => ResultInv'
PROOF
  <1> SUFFICES ASSUME ResultInv, [ReaderNext]_<<vars, readers>> PROVE ResultInv'
    OBVIOUS
  <1>t. CommandsTyped /\ EndsOnce /\ Waits /\ ResultsTyped /\ ResultsWhole
    BY DEF ResultInv
  <1>1. CASE CommandsGoOn
    <2>1. Next /\ UNCHANGED <<waiting, result>>
      BY <1>1 DEF CommandsGoOn, readers
    <2>2. CommandsTyped' /\ EndsOnce'
      BY <1>t, <2>1, CommandsStayTyped, EndsStayOnce
    <2>3. \A c \in Commands : status[c] \in Endeds =>
            /\ status'[c] = status[c]
            /\ status[c] \in {"completed", "failed"} => log'[c] = log[c]
      BY <1>t, <2>1, EndedStays
    <2>4. Waits'
      BY <1>t, <2>1, <2>3 DEF Waits
    <2>5. ResultsTyped'
      BY <1>t, <2>1 DEF ResultsTyped
    <2>6. ResultsWhole'
      BY <1>t, <2>1, <2>3 DEF ResultsWhole, Whole
    <2> QED
      BY <2>2, <2>4, <2>5, <2>6 DEF ResultInv
  <1>2. ASSUME UNCHANGED <<status, log>> PROVE CommandsTyped' /\ EndsOnce'
    BY <1>2, <1>t DEF CommandsTyped, EndsOnce
  <1>r. ASSUME UNCHANGED <<status, log, result>> PROVE ResultsTyped' /\ ResultsWhole'
    <2>1. ResultsTyped'
      BY <1>r, <1>t DEF ResultsTyped
    <2>2. ASSUME NEW q \in Readers, NEW d \in Commands, result'[q][d] # NoResult
          PROVE  Whole(result[q][d], d)'
      <3>1. Whole(result[q][d], d)
        BY <1>r, <1>t, <2>2 DEF ResultsWhole
      <3> QED
        BY <1>r, <3>1 DEF Whole
    <2> QED
      BY <1>r, <2>1, <2>2 DEF ResultsWhole
  <1>3. ASSUME NEW r \in Readers, NEW c \in Commands, Poll(r, c) \/ ReadCommand(r, c)
        PROVE  ResultInv'
    <2>1. UNCHANGED <<status, log, result>>
      BY <1>3 DEF Poll, ReadCommand
    <2>2. Waits'
      <3>1. CASE Poll(r, c)
        <4>1. /\ status[c] \in Endeds
              /\ waiting' = [waiting EXCEPT ![r][c] = [pc |-> "command", status |-> "none"]]
          BY <3>1 DEF Poll, IsTerminal
        <4>2. [pc |-> "command", status |-> "none"]
                \in [pc : {"idle", "command", "events"}, status : Endeds \cup {"none"}]
          OBVIOUS
        <4> QED
          BY <1>t, <2>1, <4>1, <4>2, WaitsStep
      <3>2. CASE ReadCommand(r, c)
        <4>1. /\ waiting[r][c].pc = "command"
              /\ waiting' = [waiting EXCEPT ![r][c] = [pc |-> "events", status |-> status[c]]]
          BY <3>2 DEF ReadCommand
        <4>2. status[c] \in Endeds
          BY <1>t, <4>1 DEF Waits
        <4>3. [pc |-> "events", status |-> status[c]]
                \in [pc : {"idle", "command", "events"}, status : Endeds \cup {"none"}]
          BY <4>2
        <4> QED
          BY <1>t, <2>1, <4>1, <4>2, <4>3, WaitsStep
      <3> QED
        BY <1>3, <3>1, <3>2
    <2> QED
      BY <1>2, <1>r, <2>1, <2>2 DEF ResultInv
  <1>4. ASSUME NEW r \in Readers, NEW c \in Commands, ReadEvents(r, c) PROVE ResultInv'
    <2>1. /\ UNCHANGED <<status, log>> /\ waiting' = [waiting EXCEPT ![r][c] = Idle]
          /\ waiting[r][c].status = status[c] /\ status[c] \in Endeds
      BY <1>4, <1>t DEF ReadEvents, Waits
    <2>2. log[c] \in Seq(EventTypes) /\ EventsSince(c, 0) = log[c]
      BY <1>t, SubSeqFull DEF CommandsTyped, EventsSince
    <2>3. result' = [result EXCEPT ![r][c] = [status |-> status[c], events |-> log[c]]]
      BY <1>4, <2>1, <2>2 DEF ReadEvents
    <2>4. Waits'
      <3>1. Idle \in [pc : {"idle", "command", "events"}, status : Endeds \cup {"none"}]
            /\ Idle.pc = "idle"
        BY DEF Idle
      <3> QED
        BY <1>t, <2>1, <3>1, WaitsStep
    <2>5. ResultsTyped'
      BY <1>t, <2>1, <2>2, <2>3 DEF ResultsTyped
    <2>6. Whole([status |-> status[c], events |-> log[c]], c)
      BY <1>t, <2>1 DEF Whole, EndsOnce
    <2>7. ResultsWhole'
      <3>1. ASSUME NEW q \in Readers, NEW d \in Commands
            PROVE  result'[q][d] = IF q = r /\ d = c THEN [status |-> status[c], events |-> log[c]]
                                   ELSE result[q][d]
        BY <1>t, <2>3 DEF ResultsTyped
      <3>2. \A res, d : Whole(res, d)' <=> Whole(res, d)
        BY <2>1 DEF Whole
      <3> QED
        BY <1>t, <2>6, <3>1, <3>2 DEF ResultsWhole
    <2> QED
      BY <1>2, <2>1, <2>4, <2>5, <2>7 DEF ResultInv
  <1>5. CASE UNCHANGED <<status, log, waiting, result>>
    <2>1. Waits'
      BY <1>5, <1>t DEF Waits
    <2> QED
      BY <1>2, <1>r, <1>5, <2>1 DEF ResultInv
  <1> QED
    BY <1>1, <1>3, <1>4, <1>5 DEF ReaderNext, Following, Events, vars, readers

\* result() reads a command and its events in two transactions, with the command
\* going on in between: what it returns is whole for every reader and command.
THEOREM ReaderResultIsWhole == ReaderSpec => []ResultIsWhole
PROOF
  <1>1. ResultInv => ResultIsWhole
    BY DEF ResultInv, ResultsWhole, Whole, ResultIsWhole, EndsOf, EndEvents
  <1> QED
    BY <1>1, InitResultInv, NextResultInv, PTL DEF ReaderSpec

\* Types hold of readers and logs (in LogTypesOK of the run reader).
THEOREM ReaderTypeOK == ReaderSpec => []TypeOK
PROOF
  <1>1. CursorInv /\ ResultInv => TypeOK
    BY DEF CursorInv, ResultInv, CommandsTyped, SeenTyped, Waits, ResultsTyped, TypeOK
  <1> QED
    BY <1>1, InitCursorInv, NextCursorInv, InitResultInv, NextResultInv, PTL DEF ReaderSpec
=============================================================================
