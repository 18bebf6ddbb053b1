----------------------------- MODULE ClientProofs -----------------------------
(***************************************************************************)
(* Theorems about Client, for any number of requests and closes, over both *)
(* transports.                                                             *)
(***************************************************************************)
EXTENDS Client, SequenceTheorems, TLAPS

-----------------------------------------------------------------------------
(* Pipes: what is taken from a \o b, and moved from the one to the other. *)

LEMMA TakenFromFirst ==
  ASSUME NEW S, NEW a \in Seq(S), NEW b \in Seq(S), a # <<>>
  PROVE  Head(a \o b) = Head(a) /\ Tail(a \o b) = Tail(a) \o b
PROOF
  <1>1. Len(a) \in Nat \ {0} /\ a \o b \in Seq(S) /\ Len(a \o b) = Len(a) + Len(b)
    BY EmptySeq, ConcatProperties, LenProperties
  <1>2. a \o b # <<>> /\ Len(b) \in Nat
    BY <1>1, LenProperties, EmptySeq
  <1>3. (a \o b)[1] = a[1]
    BY <1>1, <1>2, ConcatProperties
  <1>4. /\ Tail(a) \in Seq(S) /\ Len(Tail(a)) = Len(a) - 1
        /\ \A i \in 1..Len(Tail(a)) : Tail(a)[i] = a[i + 1]
    BY HeadTailProperties
  <1>5. /\ Tail(a \o b) \in Seq(S) /\ Len(Tail(a \o b)) = Len(a \o b) - 1
        /\ \A i \in 1..Len(Tail(a \o b)) : Tail(a \o b)[i] = (a \o b)[i + 1]
    BY <1>1, <1>2, HeadTailProperties
  <1>6. /\ Tail(a) \o b \in Seq(S) /\ Len(Tail(a) \o b) = Len(Tail(a)) + Len(b)
        /\ \A i \in 1..Len(Tail(a)) + Len(b) :
             (Tail(a) \o b)[i] = IF i <= Len(Tail(a)) THEN Tail(a)[i] ELSE b[i - Len(Tail(a))]
    BY <1>4, ConcatProperties
  <1>7. \A i \in 1..Len(Tail(a \o b)) : Tail(a \o b)[i] = (Tail(a) \o b)[i]
    <2>1. TAKE i \in 1..Len(Tail(a \o b))
    <2>2. i \in Int /\ i + 1 \in 1..Len(a) + Len(b) /\ i \in 1..Len(Tail(a)) + Len(b)
      BY <1>1, <1>2, <1>4, <1>5
    <2>3. (a \o b)[i + 1] = IF i + 1 <= Len(a) THEN a[i + 1] ELSE b[i + 1 - Len(a)]
      BY <2>2, ConcatProperties
    <2> QED
      BY <2>2, <2>3, <1>1, <1>4, <1>5, <1>6
  <1>8. Len(Tail(a \o b)) = Len(Tail(a) \o b)
    BY <1>1, <1>2, <1>4, <1>5, <1>6
  <1>9. Tail(a \o b) = Tail(a) \o b
    BY <1>5, <1>6, <1>7, <1>8, SeqEqual
  <1> QED
    BY <1>1, <1>2, <1>3, <1>9

LEMMA FirstMoved ==
  ASSUME NEW S, NEW a \in Seq(S), NEW b \in Seq(S), b # <<>>
  PROVE  Append(a, Head(b)) \o Tail(b) = a \o b
PROOF
  <1>1. /\ Head(b) \in S /\ Tail(b) \in Seq(S) /\ <<Head(b)>> \in Seq(S)
        /\ Append(a, Head(b)) = a \o <<Head(b)>>
    BY HeadTailProperties, AppendIsConcat
  <1>2. b = <<Head(b)>> \o Tail(b)
    BY <1>1
  <1>3. (a \o <<Head(b)>>) \o Tail(b) = a \o (<<Head(b)>> \o Tail(b))
    BY <1>1, ConcatAssociative
  <1> QED
    BY <1>1, <1>2, <1>3

-----------------------------------------------------------------------------
USE CallsAssumption, LinesAssumption, KindsAssumption DEF Calls

LEMMA InitTypeOK == Init => TypeOK
PROOF
  <1>1. <<>> \in Seq(Calls)
    BY EmptySeq
  <1> QED
    BY <1>1 DEF Init, TypeOK, RequestPcs, CloserPcs, Outcomes

\* A call that closes the client goes on in a place that both kinds of call have.
LEMMA ClosingTyped ==
  ASSUME TypeOK, NEW c \in Calls, NEW place \in Closing, pc' = [pc EXCEPT ![c] = place]
  PROVE  /\ pc' \in [Calls -> RequestPcs \cup CloserPcs]
         /\ \A r \in Requests : pc'[r] \in RequestPcs
         /\ \A d \in Closers : pc'[d] \in CloserPcs
PROOF
  <1>1. pc \in [Calls -> RequestPcs \cup CloserPcs] /\ place \in RequestPcs /\ place \in CloserPcs
    BY DEF TypeOK, RequestPcs, CloserPcs
  <1>2. pc' \in [Calls -> RequestPcs \cup CloserPcs]
    BY <1>1
  <1>3. \A d \in Calls : pc'[d] = IF d = c THEN place ELSE pc[d]
    BY <1>1
  <1> QED
    BY <1>1, <1>2, <1>3 DEF TypeOK

\* Every step keeps the types.
LEMMA NextTypeOK == TypeOK /\ [Next]_vars => TypeOK'
PROOF
  <1> SUFFICES ASSUME TypeOK, [Next]_vars PROVE TypeOK'
    OBVIOUS
  <1> USE DEF TypeOK, RequestPcs, CloserPcs, Closing, Waiting, Outcomes, Goto, Return,
              AfterMark, OwnsDaemon, state, pipes, process
  <1>1. ASSUME NEW c \in Calls, Begin(c) PROVE TypeOK'
    BY <1>1 DEF Begin
  <1>2. ASSUME NEW r \in Requests, RequestFails(r) PROVE TypeOK'
    BY <1>2 DEF RequestFails
  <1>3. ASSUME NEW r \in Requests, WriteRequest(r) PROVE TypeOK'
    <2>1. sent' \in Seq(Calls) /\ reading' \in Seq(Calls) /\ lock' \in Calls
      BY <1>3, AppendProperties DEF WriteRequest, Write
    <2> QED
      BY <1>3, <2>1 DEF WriteRequest
  <1>4. ASSUME NEW r \in Requests, WriteAndRefuse(r) PROVE TypeOK'
    BY <1>4, AppendProperties DEF WriteAndRefuse
  <1>5. ASSUME NEW r \in Requests, Receive(r) PROVE TypeOK'
    BY <1>5 DEF Receive
  <1>6. ASSUME NEW r \in Requests, Timeout(r) PROVE TypeOK'
    BY <1>6 DEF Timeout
  <1>7. ASSUME NEW c \in Closers, CloseBegin(c) PROVE TypeOK'
    <2>1. pc' = [pc EXCEPT ![c] = pc'[c]] /\ pc'[c] \in {"done", "shutdown", "mark"}
      BY <1>7 DEF CloseBegin
    <2> QED
      BY <1>7, <2>1 DEF CloseBegin
  <1>8. ASSUME NEW c \in Closers, WriteShutdown(c) PROVE TypeOK'
    <2>1. sent' \in Seq(Calls) /\ reading' \in Seq(Calls) /\ lock' \in Calls \cup {NoCall}
      <3>1. CASE closed \/ daemon = "gone"
        BY <1>8, <3>1 DEF WriteShutdown
      <3>2. CASE ~(closed \/ daemon = "gone")
        <4>1. lock' = c /\ sent' = Append(sent, c) /\ reading' = Append(reading, c)
          BY <1>8, <3>2 DEF WriteShutdown, Write
        <4> QED
          BY <4>1, AppendProperties
      <3> QED
        BY <3>1, <3>2
    <2>2. \E place \in {"mark", "read_shutdown"} : pc' = [pc EXCEPT ![c] = place]
      BY <1>8 DEF WriteShutdown
    <2>3. UNCHANGED <<closed, closing, outcome, answers, line, transport, daemon, signal>>
      BY <1>8 DEF WriteShutdown
    <2> QED
      BY <2>1, <2>2, <2>3
  <1>9. ASSUME NEW c \in Closers, ShutdownAnswered(c) PROVE TypeOK'
    BY <1>9 DEF ShutdownAnswered
  <1>10. ASSUME NEW c \in Closers, Mark(c) PROVE TypeOK'
    BY <1>10 DEF Mark
  <1>11. ASSUME NEW c \in Calls, ProcessEnded(c) PROVE TypeOK'
    BY <1>11 DEF ProcessEnded
  <1>12. ASSUME NEW c \in Calls, WaitTimesOut(c) PROVE TypeOK'
    <2>1. UNCHANGED <<lock, closed, closing, outcome, pipes, transport, daemon>>
      BY <1>12 DEF WaitTimesOut
    <2>2. PICK place \in Closing : pc' = [pc EXCEPT ![c] = place] /\ signal' \in {"none", "term", "kill"}
      BY <1>12 DEF WaitTimesOut
    <2>3. /\ pc' \in [Calls -> RequestPcs \cup CloserPcs]
          /\ \A r \in Requests : pc'[r] \in RequestPcs
          /\ \A d \in Closers : pc'[d] \in CloserPcs
      BY <2>2, ClosingTyped
    <2> HIDE DEF RequestPcs, CloserPcs, Closing, Waiting
    <2> QED
      BY <2>1, <2>2, <2>3
  <1>13. ASSUME NEW c \in Calls, CloseStreams(c) PROVE TypeOK'
    BY <1>13 DEF CloseStreams
  <1>14. CASE ReadLine
    <2>1. Head(reading) \in Calls /\ Tail(reading) \in Seq(Calls)
      BY <1>14, HeadTailProperties DEF ReadLine
    <2>2. CASE answers # <<>>
      <3>1. Head(answers) \in Calls /\ Tail(answers) \in Seq(Calls)
        BY <2>2, HeadTailProperties
      <3>2. /\ reading' = Tail(reading) /\ line' = [line EXCEPT ![Head(reading)] = Head(answers)]
            /\ answers' = Tail(answers) /\ UNCHANGED <<state, sent, process>>
        BY <1>14, <2>2 DEF ReadLine
      <3>3. line' \in [Calls -> Calls \cup {NoAnswer, Eof}]
        BY <2>1, <3>1, <3>2
      <3> HIDE DEF RequestPcs, CloserPcs, Closing, Waiting
      <3> QED
        BY <2>1, <3>1, <3>2, <3>3
    <2>3. CASE answers = <<>>
      <3>1. /\ reading' = Tail(reading) /\ line' = [line EXCEPT ![Head(reading)] = Eof]
            /\ UNCHANGED <<answers, state, sent, process>>
        BY <1>14, <2>3 DEF ReadLine
      <3>2. line' \in [Calls -> Calls \cup {NoAnswer, Eof}]
        BY <2>1, <3>1
      <3> HIDE DEF RequestPcs, CloserPcs, Closing, Waiting
      <3> QED
        BY <2>1, <3>1, <3>2
    <2> QED
      BY <2>2, <2>3
  <1>15. CASE Answer
    <2>1. Head(sent) \in Calls /\ Tail(sent) \in Seq(Calls)
      BY <1>15, HeadTailProperties DEF Answer
    <2>2. answers' \in Seq(Calls) /\ sent' \in Seq(Calls)
      BY <1>15, <2>1, AppendProperties DEF Answer
    <2>3. UNCHANGED <<state, line, reading, transport, signal>> /\ daemon' \in {"running", "stopping", "gone"}
      BY <1>15 DEF Answer
    <2> HIDE DEF RequestPcs, CloserPcs, Closing, Waiting
    <2> QED
      BY <2>2, <2>3
  <1>16. CASE DaemonEnds
    BY <1>16 DEF DaemonEnds
  <1>17. CASE UNCHANGED vars
    BY <1>17 DEF vars
  <1> QED
    BY <1>1, <1>2, <1>3, <1>4, <1>5, <1>6, <1>7, <1>8, <1>9, <1>10, <1>11, <1>12, <1>13,
       <1>14, <1>15, <1>16, <1>17
       DEF Next, Request, Close, CloseRest

\* Types hold over both transports (TypeOK of the run client).
THEOREM ClientTypeOK == Spec => []TypeOK
PROOF
  BY InitTypeOK, NextTypeOK, PTL DEF Spec

-----------------------------------------------------------------------------
\* A call that waits for an answer has the lock, and the client is open: of all
\* that would close it, the timeout of that call comes first or the others wait.
Answered == {"read", "read_limited", "read_shutdown"}
AnsweredHoldLock == \A c \in Calls : pc[c] \in Answered => lock = c /\ ~closed
ClosingIsClosed == \A c \in Calls : pc[c] \in Closing => closed

CInv == TypeOK /\ AnsweredHoldLock /\ ClosingIsClosed /\ OneCloses

LEMMA InitCInv == Init => CInv
PROOF
  BY InitTypeOK DEF Init, CInv, AnsweredHoldLock, ClosingIsClosed, OneCloses, Answered, Closing,
     Waiting

LEMMA NextCInv == CInv /\ [Next]_vars => CInv'
PROOF
  <1> SUFFICES ASSUME CInv, [Next]_vars
               PROVE  AnsweredHoldLock' /\ ClosingIsClosed' /\ OneCloses'
    BY NextTypeOK DEF CInv
  <1>t. TypeOK
    BY DEF CInv
  <1> DEFINE Kept == AnsweredHoldLock' /\ ClosingIsClosed' /\ OneCloses'
  <1> USE <1>t DEF CInv, AnsweredHoldLock, ClosingIsClosed, OneCloses, Answered, Closing, Waiting,
              Goto, Return, Write, AfterMark, TypeOK, state
  <1>1. ASSUME NEW c \in Calls, Begin(c) PROVE Kept
    BY <1>1 DEF Begin
  <1>2. ASSUME NEW r \in Requests, RequestFails(r) PROVE Kept
    BY <1>2 DEF RequestFails
  <1>3. ASSUME NEW r \in Requests, WriteRequest(r) PROVE Kept
    BY <1>3 DEF WriteRequest
  <1>4. ASSUME NEW r \in Requests, WriteAndRefuse(r) PROVE Kept
    BY <1>4 DEF WriteAndRefuse
  <1>5. ASSUME NEW r \in Requests, Receive(r) PROVE Kept
    BY <1>5 DEF Receive
  <1>6. ASSUME NEW r \in Requests, Timeout(r) PROVE Kept
    BY <1>6 DEF Timeout
  <1>7. ASSUME NEW c \in Closers, CloseBegin(c) PROVE Kept
    <2>1. pc' = [pc EXCEPT ![c] = pc'[c]] /\ pc'[c] \in {"done", "shutdown", "mark"}
      BY <1>7 DEF CloseBegin
    <2> QED
      BY <1>7, <2>1 DEF CloseBegin
  <1>8. ASSUME NEW c \in Closers, WriteShutdown(c) PROVE Kept
    BY <1>8 DEF WriteShutdown
  <1>9. ASSUME NEW c \in Closers, ShutdownAnswered(c) PROVE Kept
    BY <1>9 DEF ShutdownAnswered
  <1>10. ASSUME NEW c \in Closers, Mark(c) PROVE Kept
    BY <1>10 DEF Mark
  <1>11. ASSUME NEW c \in Calls, ProcessEnded(c) PROVE Kept
    BY <1>11 DEF ProcessEnded
  <1>12. ASSUME NEW c \in Calls, WaitTimesOut(c) PROVE Kept
    <2>1. /\ pc' = [pc EXCEPT ![c] = pc'[c]] /\ pc'[c] \in Closing /\ pc[c] \in Closing
          /\ UNCHANGED <<lock, closed>>
      BY <1>12 DEF WaitTimesOut
    <2> QED
      BY <2>1
  <1>13. ASSUME NEW c \in Calls, CloseStreams(c) PROVE Kept
    BY <1>13 DEF CloseStreams
  <1>14. CASE ReadLine
    BY <1>14 DEF ReadLine
  <1>15. CASE Answer
    BY <1>15 DEF Answer
  <1>16. CASE DaemonEnds
    BY <1>16 DEF DaemonEnds
  <1>17. CASE UNCHANGED vars
    BY <1>17 DEF vars
  <1> QED
    BY <1>1, <1>2, <1>3, <1>4, <1>5, <1>6, <1>7, <1>8, <1>9, <1>10, <1>11, <1>12, <1>13,
       <1>14, <1>15, <1>16, <1>17
       DEF Next, Request, Close, CloseRest

\* However many threads close a client, or find their limit over, at the same
\* time, one of them sees to the process and the streams.
THEOREM ClientOneCloses == Spec => []OneCloses
PROOF
  <1>1. CInv => OneCloses
    BY DEF CInv
  <1> QED
    BY <1>1, InitCInv, NextCInv, PTL DEF Spec

-----------------------------------------------------------------------------
\* Unless a request is refused after it was written, the calls that read are those
\* whose lines are on their way, in their order: every line that comes is taken
\* for the call it answers, late or not.  A daemon that is gone leaves the lines
\* it has not taken, and those that read find the end once the answers are out.
Refused == \E r \in Requests : outcome[r] = "refused"

PipesInStep == answers # <<>> \/ daemon # "gone" => reading = answers \o sent
LinesAreOwn == \A c \in Calls : line[c] \in {NoAnswer, Eof, c}
NoMismatch == \A r \in Requests : outcome[r] # "mismatch"

OutcomesLast ==
  \A r \in Requests : outcome[r] # "none" => pc[r] \in Closing \cup {"done"}

SInv == TypeOK /\ OutcomesLast /\ (Refused \/ (PipesInStep /\ LinesAreOwn /\ NoMismatch))

LEMMA InitSInv == Init => SInv
PROOF
  <1>1. <<>> \o <<>> = <<>>
    BY ConcatEmptySeq, EmptySeq
  <1> QED
    BY <1>1, InitTypeOK
       DEF Init, SInv, OutcomesLast, Refused, PipesInStep, LinesAreOwn, NoMismatch

LEMMA NextOutcomesLast ==
  ASSUME SInv, [Next]_vars
  PROVE  OutcomesLast' /\ (Refused => Refused')
PROOF
  <1>t. TypeOK
    BY DEF SInv
  <1> DEFINE Kept == OutcomesLast' /\ (Refused => Refused')
  <1> USE <1>t DEF SInv, TypeOK, OutcomesLast, Refused, Closing, Waiting, Goto, Return,
              AfterMark, state
  <1>1. ASSUME NEW c \in Calls, pc[c] \in {"idle", "begun", "shutdown", "read_shutdown", "mark"},
               c \in Closers \/ pc[c] = "idle", UNCHANGED outcome,
               pc' = [pc EXCEPT ![c] = pc'[c]]
        PROVE  Kept
    <2>1. \A d \in Calls : d # c => pc'[d] = pc[d]
      BY <1>1
    <2>2. \A r \in Requests : pc'[r] # pc[r] => pc[r] = "idle"
      BY <1>1, <2>1
    <2>3. Refused => Refused'
      BY <1>1
    <2>4. \A r \in Requests : outcome[r] # "none" => pc[r] \in Waiting \cup {"streams", "done"}
      OBVIOUS
    <2>5. ASSUME NEW r \in Requests, outcome'[r] # "none"
          PROVE  pc'[r] \in Waiting \cup {"streams", "done"}
      <3>1. pc[r] \in Waiting \cup {"streams", "done"}
        BY <1>1, <2>4, <2>5
      <3>2. pc[r] # "idle"
        BY <3>1
      <3> HIDE DEF Waiting
      <3> QED
        BY <2>2, <3>1, <3>2
    <2> HIDE DEF SInv, TypeOK, Refused, Waiting
    <2> QED
      BY <2>3, <2>5
  <1>2. ASSUME NEW c \in Calls, Begin(c) PROVE Kept
    BY <1>2 DEF Begin
  <1>3. ASSUME NEW r \in Requests, Request(r) PROVE Kept
    BY <1>3 DEF Request, RequestFails, WriteRequest, WriteAndRefuse, Receive, Timeout
  <1>4. ASSUME NEW c \in Closers, Close(c) PROVE Kept
    <2>1. /\ pc[c] \in {"begun", "shutdown", "read_shutdown", "mark"}
          /\ UNCHANGED outcome /\ pc' = [pc EXCEPT ![c] = pc'[c]]
      BY <1>4 DEF Close, CloseBegin, WriteShutdown, ShutdownAnswered, Mark
    <2> QED
      BY <1>1, <2>1
  <1>5. ASSUME NEW c \in Calls, CloseRest(c) PROVE Kept
    <2>1. /\ pc[c] \in Closing /\ UNCHANGED outcome
          /\ pc' = [pc EXCEPT ![c] = pc'[c]] /\ pc'[c] \in Closing \cup {"done"}
      BY <1>5 DEF CloseRest, ProcessEnded, WaitTimesOut, CloseStreams
    <2> QED
      BY <2>1
  <1>6. CASE ReadLine \/ Answer \/ DaemonEnds \/ UNCHANGED vars
    BY <1>6 DEF ReadLine, Answer, DaemonEnds, vars
  <1> QED
    BY <1>2, <1>3, <1>4, <1>5, <1>6 DEF Next

\* The step of a line written: it goes behind the lines on their way, and who
\* wrote it behind those that read.
LEMMA WriteKeepsStep ==
  ASSUME TypeOK, PipesInStep, NEW c \in Calls, Write(c), UNCHANGED <<answers, daemon>>
  PROVE  PipesInStep'
PROOF
  <1>1. sent' = Append(sent, c) /\ reading' = Append(reading, c)
    BY DEF Write
  <1>2. sent \in Seq(Calls) /\ answers \in Seq(Calls)
    BY DEF TypeOK
  <1>3. answers \o sent \in Seq(Calls) /\ <<c>> \in Seq(Calls)
    BY <1>2, ConcatProperties
  <1>4. Append(answers \o sent, c) = (answers \o sent) \o <<c>> /\ Append(sent, c) = sent \o <<c>>
    BY <1>2, <1>3, AppendIsConcat
  <1>5. (answers \o sent) \o <<c>> = answers \o (sent \o <<c>>)
    BY <1>2, <1>3, ConcatAssociative
  <1> QED
    BY <1>1, <1>4, <1>5 DEF PipesInStep

LEMMA ReadLineKeepsStep ==
  ASSUME TypeOK, PipesInStep, LinesAreOwn, ReadLine
  PROVE  PipesInStep' /\ LinesAreOwn'
PROOF
  <1>t. /\ reading \in Seq(Calls) /\ answers \in Seq(Calls) /\ sent \in Seq(Calls)
        /\ line \in [Calls -> Calls \cup {NoAnswer, Eof}]
    BY DEF TypeOK
  <1>1. CASE /\ answers # <<>>
             /\ line' = [line EXCEPT ![Head(reading)] = Head(answers)]
             /\ answers' = Tail(answers)
    <2>1. reading = answers \o sent
      BY <1>1 DEF PipesInStep
    <2>2. Head(reading) = Head(answers) /\ Tail(reading) = Tail(answers) \o sent
      BY <1>1, <1>t, <2>1, TakenFromFirst
    <2>3. reading' = Tail(reading) /\ UNCHANGED <<sent, daemon>>
      BY DEF ReadLine, process
    <2>4. PipesInStep'
      BY <1>1, <2>2, <2>3 DEF PipesInStep
    <2>5. LinesAreOwn'
      BY <1>1, <1>t, <2>2 DEF LinesAreOwn
    <2> QED
      BY <2>4, <2>5
  <1>2. CASE /\ answers = <<>> /\ daemon = "gone"
             /\ line' = [line EXCEPT ![Head(reading)] = Eof]
             /\ UNCHANGED answers
    <2>1. UNCHANGED daemon
      BY DEF ReadLine, process
    <2> QED
      BY <1>2, <1>t, <2>1 DEF PipesInStep, LinesAreOwn
  <1> QED
    BY <1>1, <1>2 DEF ReadLine

LEMMA AnswerKeepsStep ==
  ASSUME TypeOK, PipesInStep, Answer
  PROVE  PipesInStep'
PROOF
  <1>1. sent \in Seq(Calls) /\ sent # <<>> /\ answers \in Seq(Calls)
    BY DEF TypeOK, Answer
  <1>2. Append(answers, Head(sent)) \o Tail(sent) = answers \o sent
    BY <1>1, FirstMoved
  <1>3. /\ daemon = "running" /\ sent' = Tail(sent) /\ answers' = Append(answers, Head(sent))
        /\ UNCHANGED reading
    BY DEF Answer
  <1> QED
    BY <1>2, <1>3 DEF PipesInStep

\* Every step keeps the pipes in step, or is the one that refuses a request.
LEMMA NextSInv == SInv /\ [Next]_vars => SInv'
PROOF
  <1> SUFFICES ASSUME SInv, [Next]_vars, ~Refused'
               PROVE  PipesInStep' /\ LinesAreOwn' /\ NoMismatch'
    BY NextTypeOK, NextOutcomesLast DEF SInv
  <1>t. TypeOK /\ PipesInStep /\ LinesAreOwn /\ NoMismatch
    BY NextOutcomesLast DEF SInv
  <1>o. outcome \in [Requests -> Outcomes \cup {"none"}]
    BY <1>t DEF TypeOK
  <1> DEFINE Kept == PipesInStep' /\ LinesAreOwn' /\ NoMismatch'
  <1>1. ASSUME UNCHANGED <<answers, sent, reading, line, daemon, outcome>> PROVE Kept
    BY <1>1, <1>t DEF PipesInStep, LinesAreOwn, NoMismatch
  <1>2. ASSUME NEW c \in Calls, Begin(c) \/ ProcessEnded(c) \/ CloseStreams(c) PROVE Kept
    BY <1>1, <1>2 DEF Begin, ProcessEnded, CloseStreams, pipes, process
  <1>3. ASSUME NEW c \in Calls, WaitTimesOut(c) PROVE Kept
    BY <1>1, <1>3 DEF WaitTimesOut, pipes
  <1>4. ASSUME NEW r \in Requests, NEW what \in Outcomes, what # "mismatch",
               outcome' = [outcome EXCEPT ![r] = what],
               UNCHANGED <<answers, sent, reading, line, daemon>>
        PROVE  Kept
    BY <1>4, <1>t, <1>o DEF PipesInStep, LinesAreOwn, NoMismatch
  <1>5. ASSUME NEW r \in Requests, RequestFails(r) PROVE Kept
    BY <1>4, <1>5 DEF RequestFails, Return, Outcomes, pipes, process
  <1>6. ASSUME NEW r \in Requests, WriteRequest(r) PROVE Kept
    <2>1. Write(r) /\ UNCHANGED <<answers, line, daemon, outcome>>
      BY <1>6 DEF WriteRequest, process
    <2> QED
      BY <2>1, <1>t, WriteKeepsStep DEF LinesAreOwn, NoMismatch
  <1>7. ASSUME NEW r \in Requests, WriteAndRefuse(r) PROVE FALSE
    BY <1>7, <1>o DEF WriteAndRefuse, Return, Refused
  <1>8. ASSUME NEW r \in Requests, Receive(r) PROVE Kept
    <2>1. line[r] = Eof \/ line[r] = r
      BY <1>8, <1>t DEF Receive, LinesAreOwn
    <2>2. outcome' = [outcome EXCEPT ![r] = IF line[r] = Eof THEN "error" ELSE "answered"]
      BY <1>8, <2>1, LinesAssumption DEF Receive, Return
    <2> QED
      BY <1>4, <1>8, <2>2 DEF Receive, Outcomes, pipes, process
  <1>9. ASSUME NEW r \in Requests, Timeout(r) PROVE Kept
    BY <1>4, <1>9 DEF Timeout, Outcomes, pipes, process
  <1>10. ASSUME NEW c \in Closers, CloseBegin(c) \/ ShutdownAnswered(c) \/ Mark(c) PROVE Kept
    BY <1>1, <1>10 DEF CloseBegin, ShutdownAnswered, Mark, pipes, process
  <1>11. ASSUME NEW c \in Closers, WriteShutdown(c) PROVE Kept
    <2>1. CASE closed \/ daemon = "gone"
      BY <1>1, <1>11, <2>1 DEF WriteShutdown, process
    <2>2. CASE ~(closed \/ daemon = "gone")
      <3>1. Write(c) /\ UNCHANGED <<answers, line, daemon, outcome>>
        BY <1>11, <2>2 DEF WriteShutdown, process
      <3> QED
        BY <3>1, <1>t, WriteKeepsStep DEF LinesAreOwn, NoMismatch
    <2> QED
      BY <2>1, <2>2
  <1>12. CASE ReadLine
    <2>1. UNCHANGED outcome
      BY <1>12 DEF ReadLine, state
    <2> QED
      BY <1>12, <1>t, <2>1, ReadLineKeepsStep DEF NoMismatch
  <1>13. CASE Answer
    <2>1. UNCHANGED <<line, outcome>>
      BY <1>13 DEF Answer, state
    <2> QED
      BY <1>13, <1>t, <2>1, AnswerKeepsStep DEF LinesAreOwn, NoMismatch
  <1>14. CASE DaemonEnds
    BY <1>14, <1>t DEF DaemonEnds, state, pipes, PipesInStep, LinesAreOwn, NoMismatch
  <1>15. CASE UNCHANGED vars
    BY <1>1, <1>15 DEF vars
  <1> QED
    BY <1>2, <1>3, <1>5, <1>6, <1>7, <1>8, <1>9, <1>10, <1>11, <1>12, <1>13, <1>14, <1>15
       DEF Next, Request, Close, CloseRest

\* Over both transports, however many threads ask and close, and whatever comes
\* late, a request gets the answer to another only after one was refused.
THEOREM ClientAnswersStayInStep == Spec => []AnswersStayInStep
PROOF
  <1>1. SInv => AnswersStayInStep
    BY DEF SInv, Refused, NoMismatch, AnswersStayInStep
  <1> QED
    BY <1>1, InitSInv, NextSInv, PTL DEF Spec
=============================================================================
