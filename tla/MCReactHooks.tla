---------------------------- MODULE MCReactHooks ----------------------------
(***************************************************************************)
(* ReactHooks for TLC.  Sending: two frames, three sets of inputs, of the  *)
(* second of which no session can be made, and three calls of the handles. *)
(* Receiving: the first password is wrong and the second right, and two    *)
(* renders with other props or uses of "Scan again".                       *)
(***************************************************************************)
EXTENDS ReactHooks
=============================================================================
