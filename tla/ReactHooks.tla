----------------------------- MODULE ReactHooks -----------------------------
(***************************************************************************)
(* The components of the React package: a QrAnimator on its send hook, or  *)
(* a QrScanner on its receive hook.  They share no state (a page shows one *)
(* or the other), so a run uses one of them and no interleaving is lost.   *)
(***************************************************************************)
EXTENDS SendHook, RecvHook

VARIABLE component
hooksVars == <<component, vars, recvVars>>

HooksInit == component \in {"animator", "scanner"} /\ Init /\ RecvInit

HooksNext ==
  /\ UNCHANGED component
  /\ \/ component = "animator" /\ Next /\ UNCHANGED recvVars
     \/ component = "scanner" /\ RecvNext /\ UNCHANGED vars

\* The fairness of both; what a run does not use is never enabled.
HooksSpec ==
  HooksInit /\ [][HooksNext]_hooksVars /\ SendFairness /\ RecvFairness
=============================================================================
