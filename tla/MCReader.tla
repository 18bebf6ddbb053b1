------------------------------ MODULE MCReader -------------------------------
(* Checks Reader and CommandOutput, the two ends of a command's log, in one   *)
(* run: a behaviour is a behaviour of one of the two, and the other stays in  *)
(* its initial state.                                                         *)
EXTENDS Reader, CommandOutput, TLC

VARIABLE which

ReadOrWrite ==
  /\ which \in {"reader", "output"}
  /\ ReadersInit /\ OutputInit
  /\ which = "reader" => ~hosted

ReadOrWriteNext ==
  \/ which = "reader" /\ ReaderNext /\ UNCHANGED <<which, outputVars>>
  \/ which = "output" /\ OutputNext /\ UNCHANGED <<which, vars, readers>>

ReadOrWriteSpec == ReadOrWrite /\ [][ReadOrWriteNext]_<<which, vars, readers, outputVars>>

\* Every variable of the two modules has the values its comment gives.
LogTypesOK == TypeOK /\ OutputTypeOK

Symmetric == Permutations(Readers)
=============================================================================
