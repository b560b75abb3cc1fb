-------------------------- MODULE MCWalletAdapter --------------------------
(***************************************************************************)
(* Two calls of connect, and two to sign a transaction.                   *)
(***************************************************************************)
EXTENDS WalletAdapter

CONSTANTS k1, k2, t1, t2

MCCalls == {k1, k2, t1, t2}
MCKind == [c \in MCCalls |-> IF c \in {k1, k2} THEN "connect" ELSE "transaction"]
=============================================================================
