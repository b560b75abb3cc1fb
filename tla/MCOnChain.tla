----------------------------- MODULE MCOnChain -----------------------------
(***************************************************************************)
(* OnChain for TLC.  Squads: groups of one and two, one of them with       *)
(* members of limited permissions; a message and a configuration action    *)
(* race for two indices.  Online: a payment the payer may not be able to   *)
(* make, a token transfer, a withdrawal of all of a stake, and a payment   *)
(* with a key at hand, two of them in a run.                               *)
(***************************************************************************)
EXTENDS OnChain, TLC

Member(k, permissions) == [key |-> k, permissions |-> permissions]
MCConfigs ==
  {[threshold |-> 2, time_lock |-> 0, members |-> <<Member(1, ALL), Member(2, ALL)>>],
   [threshold |-> 1, time_lock |-> 600, members |-> <<Member(1, INITIATE), Member(2, VOTE + EXECUTE)>>],
   [threshold |-> 300, time_lock |-> 0, members |-> <<Member(1, ALL)>>]}
MCContents ==
  {[kind |-> "vault", action |-> "pay", threshold |-> 0, member |-> 0],
   [kind |-> "config", action |-> "change_threshold", threshold |-> 1, member |-> 0]}

Order(kind, amount, withMemo) == [kind |-> kind, to |-> "alice", mint |-> "usdc", amount |-> amount, memo |-> withMemo]
MCOrders == {Order("transfer", 100, FALSE), Order("token", 5, TRUE),
             Order("stake_all", 0, FALSE), Order("run", 1, FALSE)}
=============================================================================
