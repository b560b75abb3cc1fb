------------------------------ MODULE MCFrost ------------------------------
(***************************************************************************)
(* Frost for TLC: two devices, both needed, one of which may restart the   *)
(* key ceremony and recommit; one superseded output; two packages.         *)
(***************************************************************************)
EXTENDS Frost, TLC

MCP == {1, 2}
=============================================================================
