------------------------------ MODULE MCSessions ------------------------------
(* Checks ProcessSessions and PowerShellSessions in one run: a behaviour is a *)
(* behaviour of one of the two, and the other stays in its initial state.     *)
EXTENDS ProcessSessions

VARIABLES which,
          psStartLock, operationLock, psLock, psClosed, runspace, psPc, thread,
          psOutcome, overlapped

processVars == <<startLock, lock, closed, shell, stdin, input, output, printed, got, pc,
                 outcome, started, aborted>>
hostedVars == <<psStartLock, operationLock, psLock, psClosed, runspace, psPc,
                thread, psOutcome, overlapped>>

Hosted == INSTANCE PowerShellSessions WITH
  startLock <- psStartLock, lock <- psLock, closed <- psClosed, pc <- psPc,
  outcome <- psOutcome

EitherInit ==
  /\ which \in {"process", "hosted"}
  /\ Init /\ Hosted!Init

EitherNext ==
  \/ which = "process" /\ Next /\ UNCHANGED <<which, hostedVars>>
  \/ which = "hosted" /\ Hosted!Next /\ UNCHANGED <<which, processVars>>

\* Nothing is enabled in a module that is in its initial state but the calls to
\* come, which need not come: its fairness asks for nothing.
EitherFairSpec ==
  /\ EitherInit /\ [][EitherNext]_<<which, kind, processVars, hostedVars>>
  /\ Fairness /\ Hosted!Fairness

\* Every variable of the two modules has the values its comment gives.
SessionTypesOK == TypeOK /\ Hosted!TypeOK

\* A closed session has no runspace open (PowerShellSessions).
ClosedLeavesNoRunspace == Hosted!ClosedLeavesNoRunspace
\* A script is not run in a closed runspace (PowerShellSessions).
ScriptsHaveRunspace == Hosted!ScriptsHaveRunspace
\* Calls return, unless a script goes on for ever (PowerShellSessions).
HostedCallsReturn == Hosted!CallsReturn
=============================================================================
