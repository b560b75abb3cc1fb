------------------------------ MODULE OnChain ------------------------------
(***************************************************************************)
(* What meets the cluster: the Squads builders and the online commands.    *)
(* They share no state, so a run uses one of them and no interleaving is   *)
(* lost.                                                                   *)
(***************************************************************************)
EXTENDS Squads, Online

VARIABLE use
vars == <<use, squadsVars, onlineVars>>

Init == use \in {"squads", "online"} /\ SquadsInit /\ OnlineInit

Next == /\ UNCHANGED use
        /\ \/ use = "squads" /\ SquadsNext /\ UNCHANGED onlineVars
           \/ use = "online" /\ OnlineNext /\ UNCHANGED squadsVars

Spec == Init /\ [][Next]_vars /\ (use = "online" => OnlineFairness)
=============================================================================
