---------------------------- MODULE MCMountLocks ----------------------------
(***************************************************************************)
(* Small instances of MountLocks for TLC.                                  *)
(***************************************************************************)
EXTENDS MountLocksInv, TLC

CONSTANTS h1, h2, c1, c2, c3

\* Hosts are interchangeable, and so are the IDs of containers; the empty ID
\* and the numbered handles are not.
Symmetry == Permutations({h1, h2}) \union Permutations({c1, c2, c3})
=============================================================================
