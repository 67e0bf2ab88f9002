---------------------------- MODULE VolumeAccess ----------------------------
(***************************************************************************)
(* What the mount locks of cepher are for, without locks, leases, sessions *)
(* or hosts: the containers that hold a volume are readers sharing it, or  *)
(* one writer alone.  A container comes in only if it is compatible with   *)
(* those that are in; any number of them may leave, or be put out, at any  *)
(* time.  MountLocks implements this specification (see Access there).     *)
(***************************************************************************)
CONSTANT Holder      \* a set of records with fields vol and mode

VARIABLE holders

Compatible(x, y) == x.vol = y.vol => x.mode = "ro" /\ y.mode = "ro"

Init == holders = {}

Enter(x) ==
    /\ x \notin holders
    /\ \A y \in holders : Compatible(x, y)
    /\ holders' = holders \union {x}

Leave ==
    /\ holders' \subseteq holders
    /\ holders' # holders

Next == (\E x \in Holder : Enter(x)) \/ Leave

Spec == Init /\ [][Next]_holders

-----------------------------------------------------------------------------
(***************************************************************************)
(* No two holders of a volume unless both only read.                       *)
(***************************************************************************)
Exclusion == \A x, y \in holders : x # y => Compatible(x, y)
=============================================================================
