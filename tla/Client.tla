------------------------------- MODULE Client --------------------------------
(***************************************************************************)
(* LiveShellClient of src/src/liveshell/client.py: calls of request and of *)
(* close by several threads on one client, over the two pipes, or the      *)
(* socket, between it and a daemon.                                        *)
(*                                                                         *)
(* A call is its thread and its request id.  A step is what holds the lock *)
(* throughout or touches the shared state once; an answer is the id it     *)
(* carries.  The daemon is serve_stdio or _serve_socket_connection of      *)
(* daemon.py: it answers the lines it is sent, in order, after any delay   *)
(* or never, and may end at any time.                                      *)
(*                                                                         *)
(* Left out: lines that are no JSON object (this daemon writes none), the  *)
(* tail of stderr, which only goes into messages, and what the typed       *)
(* methods make of an answer.                                              *)
(* A definition marked as a fault is the mutated form of the one after it. *)
(***************************************************************************)
EXTENDS Naturals, FiniteSets, Sequences

CONSTANTS Requests,  \* calls of request_envelope
          Closers,   \* calls of close
          Graceful,  \* those that do not pass graceful=False
          NoCall,
          NoAnswer,  \* nothing was put in the queue of a reader thread
          Eof,       \* the empty line
          Transports,  \* "stdio": stdio(), "socket": connect()
          Limits     \* bound of the model: the kinds of timeout clients pass

Calls == Requests \cup Closers

ASSUME CallsAssumption == Requests \cap Closers = {} /\ NoCall \notin Calls
ASSUME LinesAssumption == NoAnswer # Eof /\ {NoAnswer, Eof} \cap Calls = {}
ASSUME KindsAssumption ==
  /\ Graceful \subseteq Closers /\ Transports \subseteq {"stdio", "socket"}
  /\ Limits \subseteq {"none", "positive", "not_positive"}

VARIABLES transport,
          lock,      \* who holds self._lock
          closed, closing,  \* self._closed, self._closing
          sent,      \* lines written and not yet taken by the daemon
          answers,   \* lines written by the daemon and not yet read
          reading,   \* calls with a readline under way, in the order they entered
          line,      \* what the readline of a call has returned
          pc, outcome,
          daemon, signal

vars == <<transport, lock, closed, closing, sent, answers, reading, line, pc, outcome,
          daemon, signal>>
state == <<lock, closed, closing, pc, outcome>>
pipes == <<sent, answers, reading, line>>
process == <<transport, daemon, signal>>

Waiting == {"wait", "wait_terminated", "wait_killed"}
Closing == Waiting \cup {"streams"}
RequestPcs == {"idle", "begun", "read", "read_limited", "done"} \cup Closing
CloserPcs == {"idle", "begun", "shutdown", "read_shutdown", "mark", "done"} \cup Closing
Outcomes == {"answered", "mismatch", "refused", "timeout", "error"}

\* connect() gives the client no process: only stdio() owns its daemon.
OwnsDaemon == transport = "stdio"

Goto(c, place) == pc' = [pc EXCEPT ![c] = place]

\* A request releases the lock and returns, or raises.
Return(r, what) ==
  /\ Goto(r, "done")
  /\ outcome' = [outcome EXCEPT ![r] = what]
  /\ lock' = NoCall

Init ==
  /\ transport \in Transports
  /\ lock = NoCall
  /\ closed = FALSE /\ closing = FALSE
  /\ sent = <<>> /\ answers = <<>> /\ reading = <<>>
  /\ line = [c \in Calls |-> NoAnswer]
  /\ pc = [c \in Calls |-> "idle"]
  /\ outcome = [r \in Requests |-> "none"]
  /\ daemon = "running" /\ signal = "none"

Begin(c) ==
  /\ pc[c] = "idle"
  /\ Goto(c, "begun")
  /\ UNCHANGED <<lock, closed, closing, outcome, pipes, process>>

-----------------------------------------------------------------------------
(* Requests *)

\* A write fails once the daemon is gone; on a socket the first one after
\* that may still succeed.
CanWrite == daemon # "gone" \/ ~OwnsDaemon

\* A line is written, and a readline for its answer begun.
Write(c) ==
  /\ lock' = c
  /\ sent' = Append(sent, c)
  /\ reading' = Append(reading, c)

RequestFails(r) ==
  /\ pc[r] = "begun" /\ lock = NoCall
  /\ closed \/ daemon = "gone"
  /\ Return(r, "error")
  /\ UNCHANGED <<closed, closing, pipes, process>>

\* Without a limit the caller reads the line itself, else a thread does.
WriteRequest(r) ==
  /\ pc[r] = "begun" /\ lock = NoCall
  /\ ~closed /\ CanWrite
  /\ Write(r)
  /\ \/ "none" \in Limits /\ Goto(r, "read")
     \/ "positive" \in Limits /\ Goto(r, "read_limited")
  /\ UNCHANGED <<closed, closing, outcome, answers, line, process>>

\* A limit that is not positive raises, but after the request was written.
WriteAndRefuse(r) ==
  /\ pc[r] = "begun" /\ lock = NoCall
  /\ ~closed /\ CanWrite
  /\ "not_positive" \in Limits
  /\ sent' = Append(sent, r)
  /\ Return(r, "refused")
  /\ UNCHANGED <<closed, closing, answers, reading, line, process>>

\* The first readline is in the read of the pipe, and the buffer's lock keeps
\* the others behind it.
ReadLine ==
  /\ reading # <<>>
  /\ reading' = Tail(reading)
  /\ \/ /\ answers # <<>>
        /\ line' = [line EXCEPT ![Head(reading)] = Head(answers)]
        /\ answers' = Tail(answers)
     \/ /\ answers = <<>> /\ daemon = "gone"
        /\ line' = [line EXCEPT ![Head(reading)] = Eof]
        /\ UNCHANGED answers
  /\ UNCHANGED <<state, sent, process>>

Receive(r) ==
  /\ pc[r] \in {"read", "read_limited"}
  /\ line[r] # NoAnswer
  /\ Return(r, CASE line[r] = Eof -> "error"
                 [] line[r] = r -> "answered"
                 [] OTHER -> "mismatch")
  /\ UNCHANGED <<closed, closing, pipes, process>>

\* Fault: the streams are closed before the process is waited for.
StreamsFirst == "streams"

\* Where a closer goes when it has set _closed.
AfterMark == IF OwnsDaemon THEN "wait" ELSE "streams"

\* Fault: a request that times out gives up its read and leaves the client open.
TimeoutKeepsOpen(r) ==
  /\ pc[r] = "read_limited"
  /\ line[r] = NoAnswer
  /\ reading' = SelectSeq(reading, LAMBDA c : c # r)
  /\ Return(r, "timeout")
  /\ UNCHANGED <<closed, closing, sent, answers, line, process>>

\* Fault: the request closes the client gracefully.
TimeoutAsksFirst(r) ==
  /\ pc[r] = "read_limited"
  /\ line[r] = NoAnswer
  /\ closing' = TRUE
  /\ outcome' = [outcome EXCEPT ![r] = "timeout"]
  /\ Goto(r, IF closing THEN AfterMark ELSE "shutdown")
  /\ UNCHANGED <<lock, closed, pipes, process>>

\* The request closes the client, with the lock in its hands until it returns.
Timeout(r) ==
  /\ pc[r] = "read_limited"
  /\ line[r] = NoAnswer
  /\ closed' = TRUE /\ closing' = TRUE
  /\ outcome' = [outcome EXCEPT ![r] = "timeout"]
  /\ Goto(r, AfterMark)
  /\ UNCHANGED <<lock, pipes, process>>

-----------------------------------------------------------------------------
(* close *)

\* The first closer, if graceful, asks a daemon that runs to shut down.
ShouldAsk(c) == ~closing /\ c \in Graceful /\ OwnsDaemon /\ daemon # "gone"

CloseBegin(c) ==
  /\ pc[c] = "begun" /\ lock = NoCall
  /\ closing' = (closing \/ ~closed)
  /\ Goto(c, CASE closed -> "done" [] ShouldAsk(c) -> "shutdown" [] OTHER -> "mark")
  /\ UNCHANGED <<lock, closed, outcome, pipes, process>>

\* The lock was free in between: the client may be closed by now.
WriteShutdown(c) ==
  /\ pc[c] = "shutdown" /\ lock = NoCall
  /\ IF closed \/ daemon = "gone"
     THEN Goto(c, "mark") /\ UNCHANGED <<lock, sent, reading>>
     ELSE Write(c) /\ Goto(c, "read_shutdown")
  /\ UNCHANGED <<closed, closing, outcome, answers, line, process>>

\* Whatever the answer, or when none has come after a second, close goes on.
\* The readline goes on too.
ShutdownAnswered(c) ==
  /\ pc[c] = "read_shutdown"
  /\ lock' = NoCall
  /\ Goto(c, "mark")
  /\ UNCHANGED <<closed, closing, outcome, pipes, process>>

\* Fault: the second locked region does not look at _closed again.
MarkAgain(c) ==
  /\ pc[c] = "mark" /\ lock = NoCall
  /\ closed' = TRUE
  /\ Goto(c, AfterMark)
  /\ UNCHANGED <<lock, closing, outcome, pipes, process>>

\* One closer sets _closed, closes the stream to the daemon and, outside the
\* lock, sees to the process.
Mark(c) ==
  /\ pc[c] = "mark" /\ lock = NoCall
  /\ closed' = TRUE
  /\ Goto(c, IF closed THEN "done" ELSE AfterMark)
  /\ UNCHANGED <<lock, closing, outcome, pipes, process>>

\* A wait that sees the process end.
ProcessEnded(c) ==
  /\ pc[c] \in Waiting
  /\ daemon = "gone"
  /\ Goto(c, "streams")
  /\ UNCHANGED <<lock, closed, closing, outcome, pipes, process>>

\* Fault: the wait after terminate has no limit.
WaitTimesOutOnce(c) ==
  /\ pc[c] = "wait"
  /\ daemon # "gone"
  /\ signal' = "term" /\ Goto(c, "wait_terminated")
  /\ UNCHANGED <<lock, closed, closing, outcome, pipes, transport, daemon>>

\* A wait that times out: terminate, then kill, then the exception of the last
\* wait goes to the caller after the streams are closed.
WaitTimesOut(c) ==
  /\ pc[c] \in Waiting
  /\ daemon # "gone"
  /\ CASE pc[c] = "wait" -> signal' = "term" /\ Goto(c, "wait_terminated")
       [] pc[c] = "wait_terminated" -> signal' = "kill" /\ Goto(c, "wait_killed")
       [] OTHER -> Goto(c, "streams") /\ UNCHANGED signal
  /\ UNCHANGED <<lock, closed, closing, outcome, pipes, transport, daemon>>

\* Fault: a request that timed out keeps the lock.
CloseStreamsLocked(c) ==
  /\ pc[c] = "streams"
  /\ reading = <<>>
  /\ Goto(c, "done")
  /\ UNCHANGED <<lock, closed, closing, outcome, pipes, process>>

\* The close of the stream that is read waits for the lock of its buffer, which
\* a readline holds until it returns.  Then the socket is closed, and the call
\* returns: a request that timed out releases the lock.
CloseStreams(c) ==
  /\ pc[c] = "streams"
  /\ reading = <<>>
  /\ Goto(c, "done")
  /\ lock' = IF lock = c THEN NoCall ELSE lock
  /\ UNCHANGED <<closed, closing, outcome, pipes, process>>

-----------------------------------------------------------------------------
(* The daemon *)

\* The loop of the daemon ends with the answer to daemon.shutdown.
Answer ==
  /\ daemon = "running" /\ sent # <<>>
  /\ sent' = Tail(sent)
  /\ answers' = Append(answers, Head(sent))
  /\ daemon' = IF Head(sent) \in Closers THEN "stopping" ELSE daemon
  /\ UNCHANGED <<state, transport, reading, line, signal>>

\* It ends by itself, at the end of its input, or by a signal.
DaemonEnds ==
  /\ daemon # "gone"
  /\ daemon' = "gone"
  /\ UNCHANGED <<state, transport, pipes, signal>>

-----------------------------------------------------------------------------
Request(r) == RequestFails(r) \/ WriteRequest(r) \/ WriteAndRefuse(r) \/ Receive(r) \/ Timeout(r)

Close(c) == CloseBegin(c) \/ WriteShutdown(c) \/ ShutdownAnswered(c) \/ Mark(c)

CloseRest(c) == ProcessEnded(c) \/ WaitTimesOut(c) \/ CloseStreams(c)

Next ==
  \/ \E c \in Calls : Begin(c) \/ CloseRest(c)
  \/ \E r \in Requests : Request(r)
  \/ \E c \in Closers : Close(c)
  \/ ReadLine \/ Answer \/ DaemonEnds

Spec == Init /\ [][Next]_vars

\* Threads of the client that can go on do, and a killed process ends.  The
\* daemon need not answer, nor end when it is asked to or terminated.
Fairness ==
  /\ \A r \in Requests : WF_vars(Request(r) \/ CloseRest(r))
  /\ \A c \in Closers : WF_vars(Close(c) \/ CloseRest(c))
  /\ WF_vars(ReadLine)
  /\ WF_vars(signal = "kill" /\ DaemonEnds)

FairSpec == Spec /\ Fairness

-----------------------------------------------------------------------------
(* Properties *)

TypeOK ==
  /\ transport \in Transports
  /\ lock \in Calls \cup {NoCall}
  /\ closed \in BOOLEAN /\ closing \in BOOLEAN
  /\ sent \in Seq(Calls) /\ answers \in Seq(Calls) /\ reading \in Seq(Calls)
  /\ line \in [Calls -> Calls \cup {NoAnswer, Eof}]
  /\ pc \in [Calls -> RequestPcs \cup CloserPcs]
  /\ \A r \in Requests : pc[r] \in RequestPcs
  /\ \A c \in Closers : pc[c] \in CloserPcs
  /\ outcome \in [Requests -> Outcomes \cup {"none"}]
  /\ daemon \in {"running", "stopping", "gone"}
  /\ signal \in {"none", "term", "kill"}

\* A request gets the answer of another one only after a request was refused
\* for its limit: late answers, a shutdown that nobody waits for any more, and
\* requests made while the client closes do not bring the two pipes out of step.
AnswersStayInStep ==
  (\E r \in Requests : outcome[r] = "mismatch") => (\E r \in Requests : outcome[r] = "refused")

\* Of all that close at once, one waits for the process, signals it and closes
\* the streams.
OneCloses == \A c, d \in Calls : pc[c] \in Closing /\ pc[d] \in Closing => c = d

\* close() of a client ends the daemon it owns, whatever the daemon does.
CloseEndsDaemon == OwnsDaemon /\ closed ~> daemon = "gone"

\* The streams of a socket are not closed before the daemon has answered.
DaemonIsSilent == ~OwnsDaemon /\ reading # <<>> /\ answers = <<>>

\* A request with a limit returns, whatever the daemon does: over a socket only
\* when the daemon answers or ends.
LimitedRequestsReturn ==
  \A r \in Requests : pc[r] = "read_limited" ~> pc[r] = "done" \/ []DaemonIsSilent

\* A close returns, unless requests without a limit keep it waiting for ever.
ClosesReturn ==
  \A c \in Closers : pc[c] = "begun" ~>
    pc[c] = "done" \/ []DaemonIsSilent \/ [](\E r \in Requests : pc[r] = "read")
=============================================================================
