---------------------------- MODULE MCLocalState ----------------------------
(***************************************************************************)
(* LocalState for TLC: two processes that sign, and three requests, two    *)
(* with nonces of their own and one addressed to this key whose            *)
(* transaction does not list it; two calls at a time on the phone, four in *)
(* a run, and one key from elsewhere; three processes over one label of a  *)
(* keychain; four blocks in a chain, a triple and a doublet that nested    *)
(* calls reduce in turn.                                                   *)
(***************************************************************************)
EXTENDS LocalState, TLC

CONSTANTS r1, r2, r3, n1, n2

MCRequests == {r1, r2, r3}
MCNonces == {n1, n2}
MCNonce == (r1 :> n1) @@ (r2 :> n2) @@ (r3 :> n2)

MCCover == [a |-> {1}, b |-> {1, 2}, c |-> {2, 3}, d |-> {1, 2, 3}, e |-> {3, 4}, f |-> {1, 4}]
MCSeeds == DOMAIN MCCover

\* Two processes that sign are alike, and so are those of the keychain.
Alike == Permutations(Processes)
=============================================================================
