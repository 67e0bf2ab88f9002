---------------------------- MODULE MCProvision -----------------------------
(***************************************************************************)
(* Model values for the run of Provision: two hosts that contend for one   *)
(* volume, two images that may come to be called by its name, and its      *)
(* first backup, which is asked for by name and removed like a volume.     *)
(***************************************************************************)
EXTENDS ProvisionInv, TLC

CONSTANTS h1, h2, n1, m1, m2, i1, i2

Created == {<<n1, <<>>>>}
Removed == {<<n1, <<>>>>, <<n1, <<0>>>>}

Symmetry ==
    Permutations({h1, h2}) \union Permutations({i1, i2}) \union Permutations({m1, m2})
=============================================================================
