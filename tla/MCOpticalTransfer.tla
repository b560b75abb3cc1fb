------------------------- MODULE MCOpticalTransfer -------------------------
(***************************************************************************)
(* A file of two blocks, three seeds before the counter wraps, METADATA in *)
(* every third frame of a frame count that wraps out of step with it, and  *)
(* two sessions whose key-derivation parameters differ.                    *)
(***************************************************************************)
EXTENDS OpticalTransfer

CONSTANTS alice, bob

MCSessions == {alice, bob}
MCNeighbours == [s \in Seeds |-> CASE s = 0 -> {0, 1} [] s = 1 -> {1} [] OTHER -> {0}]
MCParams == [o \in MCSessions |-> IF o = alice THEN 1 ELSE 2]
=============================================================================
