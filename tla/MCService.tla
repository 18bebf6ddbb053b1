------------------------------ MODULE MCService ------------------------------
(* Callers and model values for the checks of Service.                      *)
EXTENDS Service, TLC

CONSTANTS k1, k2, k3

\* k1 opens the session and starts commands in each.
Starter == {"create", "start"}
EndCalls == k1 :> Starter @@ k2 :> {"cancel", "close"}
CancelAndClose == k1 :> Starter @@ k2 :> {"cancel"} @@ k3 :> {"close"}
StartTwice == k1 :> Starter @@ k2 :> {"start"}
CancelOne == k1 :> Starter @@ k2 :> {"cancel"}
CloseOne == k1 :> Starter @@ k2 :> {"close"}

Symmetric == Permutations(Commands)
=============================================================================
