---------------------------- MODULE CommandOutput -----------------------------
(***************************************************************************)
(* The text of one command, from the execution thread to the log and to    *)
(* the tails of its row: _execute_command, _append_output_event,           *)
(* _collected_output and _finish_terminal of src/src/liveshell/daemon.py,  *)
(* against a call that cancels the command meanwhile.                      *)
(*                                                                         *)
(* A character is its position in what its stream printed, so that a lost, *)
(* repeated or misplaced one shows.  A step is one transaction, or a look  *)
(* at the status.  Sessions, queues and kills are in Service: here the     *)
(* execution of a command may break off at any time.                       *)
(*                                                                         *)
(* Left out: the final newlines that the sessions strip, exit codes, and   *)
(* the hash.  An exception has a text of one character.                    *)
(* A definition marked as a fault is the mutated form of the one after it. *)
(***************************************************************************)
EXTENDS Naturals, Sequences

CONSTANTS ChunkSize,  \* event_chunk_size
          TailLimit,  \* TAIL_LIMIT
          MaxText     \* bound of the model: characters printed to a stream

ASSUME SizesAssumption ==
  ChunkSize \in Nat \ {0} /\ TailLimit \in Nat \ {0} /\ MaxText \in Nat \ {0}

VARIABLES hosted,    \* the session runs PowerShell in this process
          printed,   \* characters printed by stream: stdout_parts, stderr_parts
          exec,      \* the execution thread, at an append when it is a stream
          pending,   \* the text it appends
          output,    \* the log: the output events, and the end
          finished,  \* the status
          tails,     \* stdout_tail and stderr_tail
          finisher   \* the queue worker, and a call that cancels

outputVars == <<hosted, printed, exec, pending, output, finished, tails, finisher>>

Streams == {"stdout", "stderr"}
Finishers == {"worker", "caller"}
Collected == {"canceled", "timed_out"}
Own == {"completed", "failed"}
NoTails == [s \in Streams |-> <<>>]

Ended == finished # "running"

\* Characters from + 1 to from + n of a stream.
Piece(from, n) == [i \in 1..n |-> from + i]
Text(s) == Piece(0, printed[s])

-----------------------------------------------------------------------------
\* Fault: one chunk too many when the text is a multiple of the size.
OneMoreChunk(text) == Len(text) \div ChunkSize + 1

ChunkCount(text) == (Len(text) + ChunkSize - 1) \div ChunkSize

\* text[index : index + chunk_size]
Chunk(text, i) ==
  LET rest == Len(text) - i * ChunkSize
  IN SubSeq(text, i * ChunkSize + 1, i * ChunkSize + IF rest < ChunkSize THEN rest ELSE ChunkSize)

\* Fault: the chunks are numbered from one.
EventsFromOne(s, text) ==
  [i \in 1..ChunkCount(text) |->
     [stream |-> s, text |-> Chunk(text, i - 1), index |-> i, count |-> ChunkCount(text)]]

\* A text becomes events, appended together: none when it is empty.  A text of
\* one chunk has no chunk metadata, and is the chunk 0 of 1 here.
EventsOf(s, text) ==
  [i \in 1..ChunkCount(text) |->
     [stream |-> s, text |-> Chunk(text, i - 1), index |-> i - 1, count |-> ChunkCount(text)]]

EndEvent == [stream |-> "end", text |-> <<>>, index |-> 0, count |-> 1]

\* What an event adds to the text of a stream.
TextFor(s, e) == IF e.stream = s THEN e.text ELSE <<>>

\* The texts of a stream's events, one after the other.
Joined(s) ==
  LET upTo[i \in 0..Len(output)] == IF i = 0 THEN <<>> ELSE upTo[i - 1] \o TextFor(s, output[i])
  IN upTo[Len(output)]

\* Fault: the tail is a head.
HeadOf(text) == SubSeq(text, 1, IF Len(text) < TailLimit THEN Len(text) ELSE TailLimit)

\* text[-TAIL_LIMIT:]
TailOf(text) ==
  SubSeq(text, (IF Len(text) < TailLimit THEN 0 ELSE Len(text) - TailLimit) + 1, Len(text))

-----------------------------------------------------------------------------
OutputInit ==
  /\ hosted \in BOOLEAN
  /\ printed = [s \in Streams |-> 0]
  /\ exec = "running" /\ pending = <<>>
  /\ output = <<>> /\ finished = "running" /\ tails = NoTails
  /\ finisher = [f \in Finishers |->
                   [pc |-> IF f = "worker" THEN "watch" ELSE "idle", status |-> "none", texts |-> NoTails]]

(* The execution thread *)

\* Keep the text; append it later unless the command has ended by now.
Emit(s, text, otherwise) ==
  IF text = <<>> \/ Ended THEN exec' = otherwise /\ pending' = <<>>
  ELSE exec' = s /\ pending' = text

\* The stdout callback of run_stream.
PrintLine(n) ==
  /\ exec = "running" /\ ~hosted
  /\ printed.stdout + n <= MaxText
  /\ printed' = [printed EXCEPT !.stdout = @ + n]
  /\ Emit("stdout", Piece(printed.stdout, n), "running")
  /\ UNCHANGED <<hosted, output, finished, tails, finisher>>

\* The command ends, with what it wrote to stderr; a hosted one with all it
\* printed, which is in the result only.
EndExecution(n, m) ==
  /\ exec = "running"
  /\ IF hosted
     THEN /\ printed' = [stdout |-> m, stderr |-> n]
          /\ exec' = "ok" /\ UNCHANGED pending
     ELSE /\ m = 0
          /\ printed' = [printed EXCEPT !.stderr = n]
          /\ Emit("stderr", Piece(0, n), "ok")
  /\ UNCHANGED <<hosted, output, finished, tails, finisher>>

\* The exception's text is all the stderr there is.
BreakOff ==
  /\ exec = "running"
  /\ exec' = "error"
  /\ printed' = [printed EXCEPT !.stderr = 1]
  /\ UNCHANGED <<hosted, pending, output, finished, tails, finisher>>

AppendPending ==
  /\ exec \in Streams
  /\ output' = output \o EventsOf(exec, pending)
  /\ exec' = IF exec = "stdout" THEN "running" ELSE "ok"
  /\ pending' = <<>>
  /\ UNCHANGED <<hosted, printed, finished, tails, finisher>>

-----------------------------------------------------------------------------
(* The queue worker, and a call of cancel_command or close_session *)

Decide(f, pc, status, texts) ==
  finisher' = [finisher EXCEPT ![f] = [pc |-> pc, status |-> status, texts |-> texts]]
Leave(f) == Decide(f, "done", "none", NoTails)

CancelBegins ==
  /\ finisher.caller.pc = "idle" /\ ~Ended
  /\ Decide("caller", "collect", "canceled", NoTails)
  /\ UNCHANGED <<hosted, printed, exec, pending, output, finished, tails>>

\* The loop that watches the execution, with a cancel or a deadline.
GiveUp ==
  /\ finisher.worker.pc = "watch" /\ exec \notin {"ok", "error"}
  /\ IF Ended THEN Leave("worker")
     ELSE \E st \in Collected :
            /\ st = "canceled" => finisher.caller.pc # "idle"
            /\ Decide("worker", "collect", st, NoTails)
  /\ UNCHANGED <<hosted, printed, exec, pending, output, finished, tails>>

\* Fault: output is appended whether or not it was streamed.
ToAppend == Streams

\* What the worker has to append: an error, and what a hosted session returned.
NotStreamed == IF exec = "error" THEN {"stderr"} ELSE IF hosted THEN Streams ELSE {}

\* The execution is over: a canceled command is finished as such, however it
\* ended.  An error has no stdout to record.
SeeEnd ==
  /\ finisher.worker.pc = "watch" /\ exec \in {"ok", "error"}
  /\ \/ Ended /\ Leave("worker")
     \/ /\ ~Ended /\ finisher.caller.pc # "idle"
        /\ Decide("worker", "collect", "canceled", NoTails)
     \/ /\ ~Ended
        /\ \E st \in Own :
             /\ exec = "error" => st = "failed"
             /\ Decide("worker", "stdout", st,
                       [s \in Streams |-> IF exec = "error" /\ s = "stdout" THEN <<>> ELSE Text(s)])
  /\ UNCHANGED <<hosted, printed, exec, pending, output, finished, tails>>

WorkerAppends(s) ==
  /\ finisher.worker.pc = s
  /\ output' = output \o EventsOf(s, IF s \in NotStreamed THEN Text(s) ELSE <<>>)
  /\ finisher' = [finisher EXCEPT !.worker.pc = IF s = "stdout" THEN "stderr" ELSE "finish"]
  /\ UNCHANGED <<hosted, printed, exec, pending, finished, tails>>

\* _finish_terminal looks at the status, then reads the events.
Collect(f) ==
  /\ finisher[f].pc = "collect"
  /\ IF Ended THEN Leave(f)
     ELSE Decide(f, "finish", finisher[f].status, [s \in Streams |-> Joined(s)])
  /\ UNCHANGED <<hosted, printed, exec, pending, output, finished, tails>>

\* finish_command: the first one counts.
FinishOutput(f) ==
  /\ finisher[f].pc = "finish"
  /\ IF Ended THEN UNCHANGED <<output, finished, tails>>
     ELSE /\ output' = Append(output, EndEvent)
          /\ finished' = finisher[f].status
          /\ tails' = [s \in Streams |-> TailOf(finisher[f].texts[s])]
  /\ Leave(f)
  /\ UNCHANGED <<hosted, printed, exec, pending>>

OutputNext ==
  \/ \E n \in 1..MaxText : PrintLine(n)
  \/ \E n \in 0..MaxText, m \in 0..MaxText : EndExecution(n, m)
  \/ BreakOff \/ AppendPending \/ CancelBegins \/ GiveUp \/ SeeEnd
  \/ \E s \in Streams : WorkerAppends(s)
  \/ \E f \in Finishers : Collect(f) \/ FinishOutput(f)

OutputSpec == OutputInit /\ [][OutputNext]_outputVars

-----------------------------------------------------------------------------
(* Properties *)

Texts == Seq(Nat \ {0})
OutputEvents ==
  {e \in [stream : Streams \cup {"end"}, text : Texts, index : Nat, count : Nat] : e.index < e.count}

OutputTypeOK ==
  /\ hosted \in BOOLEAN
  /\ printed \in [Streams -> 0..MaxText]
  /\ exec \in {"running", "ok", "error"} \cup Streams
  /\ pending \in Texts
  /\ output \in Seq(OutputEvents)
  /\ finished \in {"running"} \cup Own \cup Collected
  /\ tails \in [Streams -> Texts]
  /\ finisher \in [Finishers -> [pc : {"idle", "watch", "collect", "finish", "done"} \cup Streams,
                                 status : {"none"} \cup Own \cup Collected,
                                 texts : [Streams -> Texts]]]

IsHead(s, t) == Len(s) <= Len(t) /\ s = SubSeq(t, 1, Len(s))

\* The events of a stream, joined as command_result joins them, are what the
\* command printed from its beginning, nothing twice, whether the execution
\* thread or the worker appended them; and all of it once it completed or failed.
LogIsOutput ==
  \A s \in Streams : IsHead(Joined(s), Text(s)) /\ (finished \in Own => Joined(s) = Text(s))

\* The chunks of a text stand together in the log, in order and complete, though
\* three threads append; each is full but the last, and none is empty.
ChunksStandTogether ==
  \A i \in DOMAIN output :
    LET e == output[i]
        first == i - e.index
    IN e.stream # "end" =>
         /\ \A j \in 0..e.count - 1 :
              /\ first + j \in DOMAIN output
              /\ output[first + j].stream = e.stream
              /\ output[first + j].index = j /\ output[first + j].count = e.count
         /\ Len(e.text) \in 1..ChunkSize
         /\ e.index < e.count - 1 => Len(e.text) = ChunkSize

\* The last characters of a text, at most TailLimit and all if it is shorter.
IsTailOf(tail, text) ==
  /\ text = SubSeq(text, 1, Len(text) - Len(tail)) \o tail
  /\ Len(tail) <= TailLimit /\ (Len(tail) < TailLimit => tail = text)

\* The tails of the row end what the log says was printed: all of it when the
\* command ended by itself, and as much as was there when it was given up
\* otherwise.  A command that broke off keeps no stdout tail.
TailsMatchLog ==
  Ended =>
    \A s \in Streams :
      IF finished \in Own
      THEN IF exec = "error" /\ s = "stdout" THEN tails[s] = <<>> ELSE IsTailOf(tails[s], Joined(s))
      ELSE \E n \in 0..Len(Joined(s)) : IsTailOf(tails[s], SubSeq(Joined(s), 1, n))
=============================================================================
