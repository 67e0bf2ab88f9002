------------------------- MODULE VolumeAccessProofs -------------------------
(***************************************************************************)
(* The abstract specification says what it is meant to say.                *)
(***************************************************************************)
EXTENDS VolumeAccess, TLAPS

(***************************************************************************)
(* Whoever enters and leaves, a volume is held by readers or by one writer *)
(* alone: with MountLocks implementing VolumeAccess, this is what Mount    *)
(* and Unmount promise to containers (driver.go:425 and 813).              *)
(***************************************************************************)
THEOREM AccessExcludes == Spec => []Exclusion
<1>1. Init => Exclusion
  BY DEF Init, Exclusion
<1>2. Exclusion /\ [Next]_holders => Exclusion'
  <2> SUFFICES ASSUME Exclusion, [Next]_holders PROVE Exclusion'
    OBVIOUS
  <2>1. ASSUME NEW x \in Holder, Enter(x) PROVE Exclusion'
    BY <2>1 DEF Enter, Exclusion, Compatible
  <2>2. CASE Leave
    BY <2>2 DEF Leave, Exclusion
  <2>3. CASE UNCHANGED holders
    BY <2>3 DEF Exclusion
  <2> QED
    BY <2>1, <2>2, <2>3 DEF Next
<1> QED
  BY <1>1, <1>2, PTL DEF Spec
=============================================================================
