--------------------------- MODULE EtcdLockProofs ---------------------------
(***************************************************************************)
(* The lock service keeps its promise by itself.                           *)
(***************************************************************************)
EXTENDS EtcdLock, TLAPS

(***************************************************************************)
(* The mutexes of the etcd-lock library (driver.go:554-589) exclude        *)
(* writers, and no key outlives its lease, in every behaviour of the lock  *)
(* service, for every set of sessions, volumes and mutexes.                *)
(***************************************************************************)
THEOREM EtcdSafety == Spec => [](KeysLeased /\ RWExclusion)
<1> DEFINE Safe == KeysLeased /\ RWExclusion
<1>1. Init => Safe
  BY DEF Init, KeysLeased, RWExclusion
<1>2. Safe /\ [Next]_vars => Safe'
  <2> SUFFICES ASSUME Safe, [Next]_vars PROVE Safe'
    OBVIOUS
  <2>1. ASSUME NEW s \in Session, Grant(s) PROVE Safe'
    BY <2>1 DEF Grant, KeysLeased, RWExclusion
  <2>2. ASSUME NEW s \in Session, Expire(s) PROVE Safe'
    BY <2>2 DEF Expire, KeysLeased, RWExclusion
  <2>3. ASSUME NEW k \in Key, Acquire(k) PROVE Safe'
    BY <2>3 DEF Acquire, MayShare, KeysLeased, RWExclusion
  <2>4. ASSUME NEW k \in Key, Release(k) PROVE Safe'
    BY <2>4 DEF Release, KeysLeased, RWExclusion
  <2>5. CASE UNCHANGED vars
    BY <2>5 DEF vars, KeysLeased, RWExclusion
  <2> QED
    BY <2>1, <2>2, <2>3, <2>4, <2>5 DEF Next
<1> QED
  BY <1>1, <1>2, PTL DEF Spec
=============================================================================
