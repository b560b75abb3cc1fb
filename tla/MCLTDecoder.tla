---------------------------- MODULE MCLTDecoder ----------------------------
(***************************************************************************)
(* A file of four blocks and nine droplets: three of degree one (two of    *)
(* them for the same block), a chain that decodes in nested calls, and     *)
(* overlapping droplets of degree three and four, so that a droplet is     *)
(* reached again for a block that an inner call has already removed.       *)
(***************************************************************************)
EXTENDS LTDecoder

MCNeighbours ==
  << {0}, {0, 1}, {1, 2}, {2, 3}, {0, 1, 2}, {0, 2, 3},
     {0, 1, 2, 3}, {3}, {3} >>

MCSeeds == DOMAIN MCNeighbours
=============================================================================
