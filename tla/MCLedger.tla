----------------------------- MODULE MCLedger -----------------------------
(***************************************************************************)
(* Ledger for TLC: three calls, transactions of one chunk and of three     *)
(* (the last of one byte) after a path of four components (17 bytes).      *)
(***************************************************************************)
EXTENDS Ledger, TLC

MCTxLens == {233, 484}
=============================================================================
