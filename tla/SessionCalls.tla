---------------------------- MODULE SessionCalls -----------------------------
(* What ProcessSessions and PowerShellSessions have in common: the calls that *)
(* are made on one session object, and the two classes of session.            *)
EXTENDS Naturals, FiniteSets, Sequences

CONSTANTS Runs,     \* calls of run, and of what comes down to it
          Closers,  \* calls of close
          NoCall,
          Kinds,    \* "sync": threads and a session, "async": tasks and an async one
          MaxLines  \* bound of the models: lines a command prints

Calls == Runs \cup Closers

\* Calls have names of their own: "exit" is the exit command of a close.
ASSUME CallsAssumption == Runs \cap Closers = {} /\ Calls \cap {NoCall, "exit"} = {}
ASSUME KindsAssumption == Kinds \subseteq {"sync", "async"} /\ MaxLines \in Nat

\* What is left of a lock when a call lets go of it, holding it or not.
Without(holder, c) == IF holder = c THEN NoCall ELSE holder
=============================================================================
