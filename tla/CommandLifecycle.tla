-------------------------- MODULE CommandLifecycle ---------------------------
(***************************************************************************)
(* What LiveShell promises a client about its commands, with no threads,   *)
(* sessions or tables in it: a command is queued, starts, runs and ends,   *)
(* in this order and once, and it has a log that only grows and records    *)
(* its end once.  Service implements this specification.                   *)
(*                                                                         *)
(* The promise is weaker than a reader may think in one place: a command   *)
(* that was canceled or timed out may still log what it was doing, after   *)
(* the event of its end; one that completed or failed has logged it all.   *)
(***************************************************************************)
EXTENDS Sequences

CONSTANT Commands

VARIABLES status,  \* the status a poll returns
          log      \* the types of the events a replay from seq 0 returns

vars == <<status, log>>

Endings == [completed |-> "command_completed", failed |-> "command_failed",
            timed_out |-> "command_timed_out", canceled |-> "command_canceled"]
Active == {"queued", "starting", "running"}

Logged(c, t) == \E i \in DOMAIN log[c] : log[c][i] = t

Init ==
  /\ status = [c \in Commands |-> "absent"]
  /\ log = [c \in Commands |-> <<>>]

\* The status moves one place on.
Move(c, from, to) ==
  /\ status[c] = from
  /\ status' = [status EXCEPT ![c] = to]
  /\ UNCHANGED log

\* A command reports its start once, and output only after its start.
Report(c, t) ==
  /\ status[c] \in {"starting", "running", "timed_out", "canceled"}
  /\ Logged(c, "command_started") <=> t # "command_started"
  /\ log' = [log EXCEPT ![c] = Append(@, t)]
  /\ UNCHANGED status

\* A queued command can only be canceled.
End(c, st) ==
  /\ status[c] \in Active
  /\ status[c] = "queued" => st = "canceled"
  /\ status' = [status EXCEPT ![c] = st]
  /\ log' = [log EXCEPT ![c] = Append(@, Endings[st])]

Next ==
  \E c \in Commands :
    \/ Move(c, "absent", "queued")
    \/ Move(c, "queued", "starting")
    \/ Move(c, "starting", "running")
    \/ \E t \in {"command_started", "stdout", "stderr"} : Report(c, t)
    \/ \E st \in DOMAIN Endings : End(c, st)

Spec == Init /\ [][Next]_vars
=============================================================================
