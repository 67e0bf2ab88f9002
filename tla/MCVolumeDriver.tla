--------------------------- MODULE MCVolumeDriver ---------------------------
(***************************************************************************)
(* Small instances of VolumeDriver for TLC.                                *)
(***************************************************************************)
EXTENDS VolumeDriverInv, TLC

CONSTANTS h1, h2, v1, v2, c1, c2, d1, d2, d3

Symmetry ==
    Permutations({h1, h2}) \union Permutations({v1, v2})
        \union Permutations({c1, c2}) \union Permutations({d1, d2, d3})
=============================================================================
