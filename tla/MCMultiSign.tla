---------------------------- MODULE MCMultiSign ----------------------------
(***************************************************************************)
(* Two transactions and three sessions: for one of them a 2-of-2 session   *)
(* of the CLI and a 2-of-3 session of the page, with the same signer in    *)
(* round two, and for the other a list that names a signer twice.          *)
(***************************************************************************)
EXTENDS MultiSign, TLC

CONSTANTS cli, page, twice, pay, swap, ann, ben, cat

MCSessions == {cli, page, twice}
MCTx == (cli :> pay) @@ (page :> pay) @@ (twice :> swap)
MCSignerList ==
  (cli :> <<ann, cat>>) @@ (page :> <<ben, cat, ann>>) @@ (twice :> <<cat, cat>>)
MCThreshold == (cli :> 2) @@ (page :> 2) @@ (twice :> 2)
MCKeys == (pay :> {ann, ben, cat}) @@ (swap :> {ann, cat})
=============================================================================
