------------------------- MODULE VolumeMountsProofs -------------------------
(***************************************************************************)
(* Theorems about what containers have, that need the lock protocol and    *)
(* the devices together: volumes stay mounted as long as somebody counts   *)
(* on them.                                                                *)
(***************************************************************************)
EXTENDS VolumeDriverProofs

\* What the lock protocol guarantees, in the terms of this module.
LockFacts ==
    \A h \in Host :
        /\ \A e \in locks[h], g \in grants :
              g.mp /\ e.key = g.key => g.host = h /\ g.vol = e.vol
        /\ pc[h] = "register" => \A g \in grants : g.mp => g.key # mine[h]
        /\ pc[h] = "umount" => \A e \in locks[h] : e.vol # req[h].vol

LEMMA LockFactsHold == LP!IInv /\ LP!CalmInv => LockFacts
<1> SUFFICES ASSUME LP!IInv, LP!CalmInv, NEW h \in Host
             PROVE  /\ \A e \in locks[h], g \in grants :
                          g.mp /\ e.key = g.key => g.host = h /\ g.vol = e.vol
                    /\ pc[h] = "register" => \A g \in grants : g.mp => g.key # mine[h]
                    /\ pc[h] = "umount" => \A e \in locks[h] : e.vol # req[h].vol
  BY DEF LockFacts
<1>0. LP!TypeOK
  BY DEF LP!IInv
<1>1. \A e \in locks[h], g \in grants :
         g.mp /\ e.key = g.key => g.host = h /\ g.vol = e.vol
  BY Assumptions, LP!GrantEntry
<1>2. pc[h] = "register" => \A g \in grants : g.mp => g.key # mine[h]
  <2> SUFFICES ASSUME pc[h] = "register", NEW g \in grants, g.mp, g.key = mine[h] PROVE FALSE
    OBVIOUS
  <2>1. mine[h] \in LP!Key
    BY <1>0 DEF LP!TypeOK
  <2>2. mine[h] # NoKey /\ mine[h].sess # 0
    BY <1>0, <2>1, Assumptions, LP!KeysHaveSession
  <2>3. mine[h].sess = session[h] /\ session[h] \in leases
    BY <2>2 DEF LP!CalmInv, LP!KeysOfSession, LP!SessionsLive
  <2> QED
    BY <2>2, <2>3 DEF LP!IInv, LP!MineNotGranted, LP!Live
<1>3. pc[h] = "umount" => \A e \in locks[h] : e.vol # req[h].vol
  BY DEF LP!CalmInv, LP!UmountAlone
<1> QED
  BY <1>1, <1>2, <1>3

\* A host on which no container is added and no mount taken away.
LEMMA MountsStay ==
  ASSUME NEW h \in Host, MountsFit(h),
         locks'[h] \subseteq locks[h],
         \A g \in grants' : g.host = h /\ g.mp => g \in grants,
         mnts[h] \subseteq mnts'[h],
         at'[h] = "rumount" => at[h] = "rumount" /\ req'[h] = req[h]
  PROVE  MountsFit(h)'
<1>1. Counted(h)' \subseteq Counted(h)
  BY DEF Counted
<1> QED
  BY <1>1 DEF MountsFit, PathOf

\* The lock protocol registers a lock before anybody counts on it.
LEMMA LocksKeepMounts ==
  ASSUME TypeOK, LockFacts, NEW h \in Host, LockStep(h), NEW i \in Host, MountsFit(i)
  PROVE  MountsFit(i)'
<1>0. UNCHANGED <<mnts, at>>
  BY DEF LockStep, devVars
<1>1. at'[i] = "rumount" => at[i] = "rumount" /\ req'[i] = req[i]
  BY <1>0, LockStepStays DEF BodyOrUmount, TypeOK
<1>t. locks \in [Host -> SUBSET L!Entry]
  BY DEF TypeOK, L!TypeOK
<1>2. \A g \in grants' : g.mp => g \in grants
  BY DEF LockStep, L!LockStep, L!LockSkip, L!LockNoCaller, L!LockCheck, L!NewMutex, L!Acquire,
         L!AcquireFail, L!Register, L!RegisterFail, L!UndoOk, L!UndoFail, L!Unlock,
         L!UnlockError, L!CountStay, L!CountLast, L!SessionStep, L!LeaseLost, L!SessionDone,
         L!Recreate, L!RecreateFail, L!Start, L!StartFail, L!BeginMount, L!BeginUnmount,
         L!MountReply, L!GrantsOf
<1>3. CASE L!Register(h)
  <2> DEFINE e == [vol |-> req[h].vol, caller |-> req[h].caller, key |-> mine[h]]
  <2>1. /\ locks' = [locks EXCEPT ![h] = locks[h] \union {e}]
        /\ pc[h] = "register" /\ grants' = grants /\ e.key = mine[h]
    BY <1>3 DEF L!Register
  <2> HIDE DEF e
  <2>2. Counted(i)' \subseteq Counted(i)
    BY <1>t, <2>1 DEF Counted, LockFacts
  <2> QED
    BY <1>0, <1>1, <2>2 DEF MountsFit, PathOf
<1>4. CASE ~L!Register(h)
  <2>1. CASE L!UndoOk(h) \/ L!Unlock(h)
    <3>1. locks' = locks \/ \E e : locks' = [locks EXCEPT ![h] = locks[h] \ {e}]
      BY <2>1 DEF L!UndoOk, L!Unlock, L!UnlockOk
    <3>2. locks'[i] \subseteq locks[i]
      BY <1>t, <3>1
    <3> QED
      BY <1>0, <1>1, <1>2, <3>2, MountsStay
  <2>2. CASE ~L!UndoOk(h) /\ ~L!Unlock(h)
    <3>0. locks' = locks \/ locks' = [locks EXCEPT ![h] = {}]
      <4>1. CASE L!LockStep(h)
        BY <1>4, <2>2, <4>1
           DEF L!LockStep, L!LockSkip, L!LockNoCaller, L!LockCheck, L!NewMutex, L!Acquire,
               L!AcquireFail, L!RegisterFail, L!UndoFail, L!UnlockNotFound, L!UnlockFail,
               L!UnlockError, L!CountStay, L!CountLast, L!procVars
      <4>2. CASE L!SessionStep(h) \/ L!Start(h) \/ L!StartFail(h)
        BY <4>2
           DEF L!SessionStep, L!LeaseLost, L!SessionDone, L!Recreate, L!RecreateFail,
               L!Start, L!StartFail, L!procVars
      <4>3. ASSUME NEW v \in Volume, NEW m \in L!Mode, NEW c \in Caller,
                   L!BeginMount(h, v, m, c) \/ L!BeginUnmount(h, v, m, c)
            PROVE  locks' = locks
        BY <4>3 DEF L!BeginMount, L!BeginUnmount, L!procVars
      <4> QED
        BY <4>1, <4>2, <4>3 DEF LockStep
    <3>1. locks'[i] \subseteq locks[i]
      BY <1>t, <3>0
    <3> QED
      BY <1>0, <1>1, <1>2, <3>1, MountsStay
  <2> QED
    BY <2>1, <2>2
<1> QED
  BY <1>3, <1>4

\* The handler's own steps leave the table of locks alone, and only a reply
\* with a mountpoint adds a container.
LEMMA BodyLocks ==
  ASSUME NEW h \in Host,
         MountStep(h) \/ UnmountStep(h) \/ \E p \in Actor : ScanStep(h, p)
  PROVE  /\ locks' = locks
         /\ \/ grants' = grants
            \/ (MountReuse(h) \/ MountOk(h)) /\ L!MountReply(h, TRUE)
BY DEF MountStep, MountReuse, Map, MapFail, Check, RepairMount, RepairUmount, Recheck,
       MkDir, MountOk, MountFail, Drop, UnmountStep, UmountOk, UmountFail, UnmapLast,
       ScanStep, ListMapped, ListMounts, ListFails, Reap, Reply, ScanError,
       L!BodyOk, L!BodyFail, L!UmountDone, L!procVars, lockVars

\* A Mount that replies with a mountpoint: the volume is mounted there.
LEMMA ReplyMounted ==
  ASSUME TypeOK, NEW h \in Host, HostInv(h), MountsFit(h), MountReuse(h) \/ MountOk(h),
         locks' = locks, L!MountReply(h, TRUE)
  PROVE  MountsFit(h)'
<1> DEFINE new == [host |-> h, vol |-> req[h].vol, mode |-> req[h].mode,
                   caller |-> req[h].caller, key |-> mine[h], mp |-> TRUE]
<1>1. grants' = grants \union {new} /\ PathOf(new) = PathOf(req[h])
  BY DEF L!MountReply, PathOf
<1>2. /\ mnts[h] \subseteq mnts'[h]
      /\ at'[h] = "out"
      /\ \E m \in mnts'[h] : m.path = PathOf(req[h])
  <2>1. CASE MountReuse(h)
    <3>1. PICK f \in scan[h][API].found : f.path = PathOf(req[h])
      BY <2>1 DEF MountReuse, FoundHere
    <3>2. [dev |-> f.dev, path |-> f.path] \in mnts[h] /\ at[h] = "out"
      BY <2>1 DEF MountReuse, Scanned, HostInv, ListFits
    <3> QED
      BY <2>1, <3>1, <3>2 DEF MountReuse
  <2>2. CASE MountOk(h)
    <3> DEFINE m == [dev |-> dev[h], path |-> PathOf(req[h])]
    <3>1. mnts'[h] = mnts[h] \union {m} /\ m.path = PathOf(req[h])
      BY <2>2 DEF MountOk, MountPath, TypeOK
    <3>2. at'[h] = "out"
      BY <2>2 DEF MountOk, Leave, Move, TypeOK
    <3> HIDE DEF m
    <3> QED
      BY <3>1, <3>2
  <2> QED
    BY <2>1, <2>2
<1>3. Counted(h)' \subseteq Counted(h) \union {new}
  BY <1>1 DEF Counted
<1> HIDE DEF new
<1> QED
  BY <1>1, <1>2, <1>3 DEF MountsFit, PathOf

LEMMA BodyKeepsMounts ==
  ASSUME TypeOK, LockFacts, NEW h \in Host, HostInv(h), MountsFit(h),
         MountStep(h) \/ UnmountStep(h)
  PROVE  MountsFit(h)'
<1>0. CASE L!MountReply(h, TRUE) /\ (MountReuse(h) \/ MountOk(h))
  BY <1>0, BodyLocks, ReplyMounted
<1>1. CASE grants' = grants
  <2> USE <1>1, BodyLocks
  <2>1. CASE RepairMount(h)
    <3>1. /\ mnts[h] \subseteq mnts'[h] /\ at[h] = "rmount" /\ UNCHANGED <<req, locks>>
          /\ Counted(h)' = Counted(h)
      BY <2>1 DEF RepairMount, MountPath, MountPathFails, TypeOK, Counted, lockVars
    <3>2. \A m \in mnts[h] : m.path # PathOf(req[h])
      BY <3>1 DEF HostInv, BodyFits
    <3> QED
      BY <3>1, <3>2 DEF MountsFit, PathOf
  <2>2. CASE RepairUmount(h) \/ UmountOk(h) \/ UmountFail(h)
    <3>0. at'[h] # "rumount"
      BY <2>2 DEF RepairUmount, UmountOk, UmountFail, Scanned, HostInv, ListFits, Move, TypeOK
    <3>1. CASE mnts' = mnts
      BY <3>0, <3>1, MountsStay
    <3>2. CASE UnmountPath(h)
      <4>1. PICK m \in mnts[h] : m.path = PathOf(req[h]) /\ mnts'[h] = mnts[h] \ {m}
        BY <3>2 DEF UnmountPath, TypeOK
      <4>2. Counted(h)' = Counted(h)
        BY DEF Counted
      <4>3. \A g \in Counted(h) : PathOf(g) # PathOf(req[h])
        <5>1. CASE RepairUmount(h)
          BY <5>1 DEF RepairUmount, MountsFit
        <5>2. CASE UmountOk(h) \/ UmountFail(h)
          BY <5>2 DEF UmountOk, UmountFail, L!UmountDone, LockFacts, Counted, PathOf
        <5> QED
          BY <2>2, <5>1, <5>2
      <4> QED
        BY <3>0, <4>1, <4>2, <4>3 DEF MountsFit, PathOf
    <3> QED
      BY <2>2, <3>1, <3>2 DEF RepairUmount, UmountOk, UmountFail, UnmountPathFails
  <2>3. CASE Check(h) \/ Recheck(h) \/ MkDir(h) \/ MountFail(h) \/ Map(h)
    <3>1. mnts[h] \subseteq mnts'[h] /\ UNCHANGED req /\ at'[h] # "rumount"
      BY <2>3
         DEF Check, Recheck, MkDir, MountFail, Map, Move, MountPath, MountPathFails, TypeOK,
             lockVars
    <3> QED
      BY <3>1, MountsStay
  <2>4. CASE MountReuse(h) \/ MapFail(h)
    <3>1. UNCHANGED <<mnts, at>> /\ at[h] = "out"
      BY <2>4 DEF MountReuse, MapFail, Scanned, HostInv, ListFits
    <3> QED
      BY <3>1, MountsStay
  <2>5. CASE MountOk(h) \/ Drop(h) \/ UnmapLast(h)
    <3>1. mnts[h] \subseteq mnts'[h] /\ at'[h] = "out"
      BY <2>5 DEF MountOk, Drop, UnmapLast, MountPath, Leave, Move, TypeOK
    <3> QED
      BY <3>1, MountsStay
  <2> QED
    BY <2>1, <2>2, <2>3, <2>4, <2>5 DEF MountStep, UnmountStep
<1> QED
  BY <1>0, <1>1, BodyLocks

LEMMA MountsInvStep ==
  ASSUME TypeOK, LockFacts, DevInv, MountsInv, [Next]_vars
  PROVE  MountsInv'
<1> SUFFICES ASSUME NEW i \in Host PROVE MountsFit(i)'
  BY DEF MountsInv
<1>0. MountsFit(i) /\ HostInv(i)
  BY DEF MountsInv, DevInv
<1>1. CASE UNCHANGED vars \/ LeaseStep
  BY <1>0, <1>1, MountsStay
     DEF vars, lockVars, devVars, LeaseStep, L!AbandonedLeaseEnds, L!procVars
<1>2. ASSUME NEW h \in Host, LockStep(h) PROVE MountsFit(i)'
  BY <1>0, <1>2, LocksKeepMounts
<1>3. ASSUME NEW h \in Host, Crash(h) \/ Reboot(h) PROVE MountsFit(i)'
  <2>1. locks' = [locks EXCEPT ![h] = {}] /\ grants' \subseteq grants
    BY <1>3 DEF Crash, Reboot, L!Crash, L!Reboot, L!ProcessGone
  <2>2. CASE i = h
    <3>1. Counted(h)' = {}
      BY <2>1 DEF Counted, TypeOK, L!TypeOK
    <3> QED
      BY <2>2, <3>1 DEF MountsFit
  <2>3. CASE i # h
    BY <1>0, <1>3, <2>1, <2>3, OtherHosts, MountsStay DEF TypeOK, L!TypeOK
  <2> QED
    BY <2>2, <2>3
<1>4. ASSUME NEW h \in Host, i # h,
             MountStep(h) \/ UnmountStep(h) \/ \E p \in Actor : ScanStep(h, p)
      PROVE  MountsFit(i)'
  <2>1. \A g \in grants' : g.host = i /\ g.mp => g \in grants
    BY <1>4, BodyLocks DEF L!MountReply
  <2>2. locks' = locks
    BY <1>4, BodyLocks
  <2>3. mnts'[i] = mnts[i] /\ at'[i] = at[i] /\ req'[i] = req[i]
    BY <1>4, OtherHosts
  <2> QED
    BY <1>0, <2>1, <2>2, <2>3, MountsStay
<1>5. CASE MountStep(i) \/ UnmountStep(i)
  BY <1>0, <1>5, BodyKeepsMounts
<1>6. ASSUME NEW p \in Actor, ScanStep(i, p) PROVE MountsFit(i)'
  <2>1. UNCHANGED <<mnts, at, locks, grants>>
    BY <1>6
       DEF ScanStep, ListMapped, ListMounts, ListFails, Reap, Reply, ScanError, lockVars,
           L!BodyFail, L!UmountDone, L!procVars
  <2>2. at[i] = "rumount" => req' = req
    <3>1. at[i] = "rumount" => scan[i][API].at = "off"
      BY <1>0 DEF HostInv, ListFits, TypeOK, Scan, Actor
    <3>2. at[i] = "rumount" => UNCHANGED lockVars
      BY <1>6, <3>1
         DEF ScanStep, ListMapped, ListMounts, ListFails, Reap, Reply, ScanError, MayScan
    <3> QED
      BY <3>2 DEF lockVars
  <2> QED
    BY <1>0, <2>1, <2>2, MountsStay
<1> QED
  BY <1>1, <1>2, <1>3, <1>4, <1>5, <1>6 DEF Next

(***************************************************************************)
(* As long as no session is lost, the volumes of all containers that a     *)
(* host's table of locks still has stay mounted, whichever commands fail,  *)
(* whatever List and Path unmap meanwhile, whenever processes die and      *)
(* hosts reboot, and also when IDs are used again.  A command that fails   *)
(* may have taken effect.  With rbd-nbd some failures are excepted, a      *)
(* mount's after its effect among them, and List and Path (see Reliable).  *)
(***************************************************************************)
THEOREM MountsInvariant == Reliable /\ LP!SessionsStay => (Spec => []MountsInv)
<1> SUFFICES ASSUME Reliable, LP!SessionsStay PROVE Spec => []MountsInv
  OBVIOUS
<1>1. LP!IDsSound
  BY DEF LP!IDsSound
<1>2. Spec => []LockFacts
  BY <1>1, LocksRefinement, SameSpec, Assumptions, LP!Owners, LP!Calm, LockFactsHold, PTL
     DEF ImplementsLocks
<1>3. Init => MountsInv
  BY DEF Init, L!Init, MountsInv, MountsFit, Counted
<1>4. TypeOK /\ LockFacts /\ DevInv /\ MountsInv /\ [Next]_vars => MountsInv'
  BY MountsInvStep
<1> QED
  BY <1>2, <1>3, <1>4, TypeCorrect, DevicesInvariant, PTL DEF Spec

(***************************************************************************)
(* So nobody's data goes away from under a container whose lock the table  *)
(* (driver.go:97) holds.                                                   *)
(***************************************************************************)
THEOREM LockedMounted == Reliable /\ LP!SessionsStay => (Spec => []LockedStaysMounted)
<1>1. TypeOK /\ DevInv /\ MountsInv => LockedStaysMounted
  <2> SUFFICES ASSUME TypeOK, DevInv, MountsInv, NEW g \in grants, g.mp,
                      NEW e \in locks[g.host], e.key = g.key
               PROVE  \E m \in mnts[g.host], x \in devs[g.host] :
                         m.path = PathOf(g) /\ m.dev = x.dev /\ x.vol = g.vol
    BY DEF LockedStaysMounted
  <2>1. g.host \in Host
    BY DEF TypeOK, L!TypeOK, L!GrantRec
  <2>2. PICK m \in mnts[g.host] : m.path = PathOf(g)
    BY <2>1 DEF MountsInv, MountsFit, Counted
  <2>3. PICK x \in devs[g.host] : x.dev = m.dev /\ <<x.vol, x.mode>> = m.path
    BY <2>1 DEF DevInv, HostInv, DevicesFit
  <2> QED
    BY <2>2, <2>3 DEF PathOf
<1> QED
  BY <1>1, TypeCorrect, DevicesInvariant, MountsInvariant, PTL

(***************************************************************************)
(* When processes stay up too, that is every container with a mountpoint.  *)
(***************************************************************************)
THEOREM GrantedMounted == Reliable /\ LP!ProcessesStay => (Spec => []GrantedStaysMounted)
<1> SUFFICES ASSUME Reliable, LP!ProcessesStay PROVE Spec => []GrantedStaysMounted
  OBVIOUS
<1>1. LP!SessionsStay
  BY DEF LP!ProcessesStay
<1>2. LP!QuietInv /\ LockedStaysMounted => GrantedStaysMounted
  BY DEF LP!QuietInv, LP!GrantsRegistered, LP!EntriesOf, LockedStaysMounted,
         GrantedStaysMounted
<1> QED
  BY <1>1, <1>2, LocksRefinement, SameSpec, Assumptions, LP!Quiet, LockedMounted, PTL
     DEF ImplementsLocks

-----------------------------------------------------------------------------
(***************************************************************************)
(* What MountLocks promises when processes and sessions stay, promised by  *)
(* the full handlers: no lock in etcd is lost track of if no ID is used    *)
(* twice, ...                                                              *)
(***************************************************************************)
THEOREM DriverKeysAccounted ==
  LP!ProcessesStay /\ ReuseIDs = FALSE => (Spec => []KeysAccounted)
<1>1. LP!KeysAccounted => KeysAccounted
  BY DEF KeysAccounted, L!KeysAccounted, L!Accounted, LP!KeysAccounted, LP!Accounted
<1> QED
  BY <1>1, LocksRefinement, SameSpec, Assumptions, LP!LocksAccounted, PTL DEF ImplementsLocks

(***************************************************************************)
(* ... the last container out unmounts and nobody before (driver.go:828),  *)
(***************************************************************************)
THEOREM DriverLastOut == LP!ProcessesStay => (Spec => []LastOutUnmounts)
<1>1. LP!LastOutUnmounts => LastOutUnmounts
  BY DEF LastOutUnmounts, L!LastOutUnmounts, LP!LastOutUnmounts
<1> QED
  BY <1>1, LocksRefinement, SameSpec, Assumptions, LP!LastOut, PTL DEF ImplementsLocks

(***************************************************************************)
(* ... and if no Unlock fails, the table of locks of an idle host is the   *)
(* list of its containers (driver.go:97).                                  *)
(***************************************************************************)
THEOREM DriverTable == LP!UnlocksWork => (Spec => []IdleLocksAreGrants)
<1>1. LP!IdleLocksAreGrants => IdleLocksAreGrants
  BY DEF IdleLocksAreGrants, L!IdleLocksAreGrants, LP!IdleLocksAreGrants, L!Up, LP!Up
<1> QED
  BY <1>1, LocksRefinement, SameSpec, Assumptions, LP!TableIsContainers, PTL
     DEF ImplementsLocks

-----------------------------------------------------------------------------
(***************************************************************************)
(* What an idle host has mounted.                                          *)
(***************************************************************************)
\* What the lock protocol guarantees, in the terms of this module: which
\* containers a handler can meet on its host.
TableFacts(h) ==
    /\ \A e \in locks[h] : e.caller # NoID
    /\ \A e \in locks[h] :
          \/ \E g \in MpGrants(h) : g.vol = e.vol /\ g.caller = e.caller
          \/ /\ pc[h] \in {"body", "undo", "unlock"}
             /\ e.vol = req[h].vol /\ e.caller = req[h].caller
    /\ \A g \in MpGrants(h) : \E e \in locks[h] :
          e.key = g.key /\ e.vol = g.vol /\ e.caller = g.caller
    /\ \A f, g \in grants :
          f.host = h /\ g.host = h /\ f.vol = g.vol /\ f.caller = g.caller => f = g
    /\ \A f, g \in MpGrants(h) : f.vol = g.vol => f.mode = g.mode
    /\ pc[h] # "idle" => session[h] # 0
    /\ pc[h] = "umount" => \A g \in MpGrants(h) : g.vol # req[h].vol

LockInvs == LP!IInv /\ LP!CalmInv /\ LP!QuietInv /\ LP!TableInv /\ LP!IDsUnique

LEMMA TableFactsHold ==
  ASSUME TypeOK, LockInvs, NEW h \in Host
  PROVE  TableFacts(h)
<1> USE DEF LockInvs
<1>1. \A e \in locks[h] :
         /\ e.caller # NoID
         /\ \/ \E g \in MpGrants(h) : g.vol = e.vol /\ g.caller = e.caller
            \/ /\ pc[h] \in {"body", "undo", "unlock"}
               /\ e.vol = req[h].vol /\ e.caller = req[h].caller
  BY DEF LP!TableInv, LP!EntriesUnique, LP!EntriesGranted, MpGrants
<1>2. \A g \in MpGrants(h) : \E e \in locks[h] :
         e.key = g.key /\ e.vol = g.vol /\ e.caller = g.caller
  BY DEF LP!QuietInv, LP!GrantsRegistered, LP!EntriesOf, MpGrants
<1>3. \A f, g \in grants :
         f.host = h /\ g.host = h /\ f.vol = g.vol /\ f.caller = g.caller => f = g
  BY DEF LP!IDsUnique
<1>4. ASSUME NEW f \in MpGrants(h), NEW g \in MpGrants(h), f.vol = g.vol PROVE f.mode = g.mode
  <2>1. f \in grants /\ g \in grants /\ f.mp /\ g.mp
    BY DEF MpGrants
  <2>2. CASE f # g
    BY <1>4, <2>1, <2>2, Assumptions, LP!ModesAgree
  <2> QED
    BY <2>2
<1>5. pc[h] # "idle" => session[h] # 0
  BY DEF LP!QuietInv, LP!HandlersHaveSession
<1>6. pc[h] = "umount" => \A g \in MpGrants(h) : g.vol # req[h].vol
  BY <1>2 DEF LP!CalmInv, LP!UmountAlone
<1> QED
  BY <1>1, <1>2, <1>3, <1>4, <1>5, <1>6 DEF TableFacts

\* A command that fails has done nothing.
LEMMA NoneLate ==
  ASSUME TidyCommands
  PROVE  "map" \notin LateFaults /\ "mount" \notin LateFaults /\ "umount" \notin LateFaults
         /\ "unmap" \notin LateFaults
BY DriverAssumption DEF TidyCommands

\* Nothing happens to what is mounted and who counts on it.
LEMMA PathsStay ==
  ASSUME NEW i \in Host, PathsTidy(i), mnts'[i] = mnts[i], MpGrants(i)' = MpGrants(i),
         \/ /\ pc'[i] = pc[i] /\ req'[i] = req[i] /\ at'[i] = at[i]
            /\ locks'[i] = locks[i]
         \/ ~Leaving(i) /\ ~Leaving(i)'
  PROVE  PathsTidy(i)'
<1>1. CASE ~Leaving(i) /\ ~Leaving(i)'
  BY <1>1 DEF PathsTidy
<1>2. CASE /\ pc'[i] = pc[i] /\ req'[i] = req[i] /\ at'[i] = at[i]
           /\ locks'[i] = locks[i]
  <2>1. Leaving(i)' = Leaving(i)
    BY <1>2 DEF Leaving, L!EntriesOf
  <2>2. PathOf(req[i])' = PathOf(req[i])
    BY <1>2 DEF PathOf
  <2> QED
    BY <1>2, <2>1, <2>2 DEF PathsTidy
<1> QED
  BY <1>1, <1>2

\* Docker stops to count on a volume and calls Unmount.
LEMMA BeginUnmountTidy ==
  ASSUME TypeOK, NEW h \in Host, TableFacts(h), PathsTidy(h), UNCHANGED devVars,
         NEW v \in Volume, NEW m \in L!Mode, NEW c \in Caller, L!BeginUnmount(h, v, m, c)
  PROVE  PathsTidy(h)'
<1>1. /\ pc[h] = "idle" /\ pc'[h] = "unlock" /\ locks'[h] = locks[h]
      /\ grants' = grants \ L!GrantsOf(h, v, c)
      /\ L!GrantsOf(h, v, c) # {} => \E g \in L!GrantsOf(h, v, c) : g.mode = m
      /\ mnts' = mnts /\ at' = at
  BY DEF L!BeginUnmount, L!Goto, L!procVars, devVars, TypeOK, L!TypeOK
<1>2. req'[h].vol = v /\ req'[h].mode = m /\ req'[h].caller = c
  BY DEF L!BeginUnmount, TypeOK, L!TypeOK
<1>3. PathOf(req[h])' = <<v, m>>
  BY <1>2 DEF PathOf
<1>4. at[h] = "out"
  BY <1>1 DEF TypeOK
<1>5. ~Leaving(h)
  BY <1>1, <1>4 DEF Leaving
<1>6. Leaving(h)' <=> \E e \in locks[h] : e.vol = v /\ e.caller = c
  BY <1>1, <1>2, <1>4 DEF Leaving, L!EntriesOf
<1>7. CASE \E g \in MpGrants(h) : g.vol = v /\ g.caller = c
  <2>1. PICK g \in MpGrants(h) : g.vol = v /\ g.caller = c
    BY <1>7
  <2>2. L!GrantsOf(h, v, c) = {g}
    BY <2>1 DEF L!GrantsOf, MpGrants, TableFacts
  <2>3. MpGrants(h)' = MpGrants(h) \ {g} /\ g.mode = m
    BY <1>1, <2>2 DEF MpGrants
  <2>4. PathOf(g) = <<v, m>>
    BY <2>1, <2>3 DEF PathOf
  <2>5. Leaving(h)'
    BY <1>6, <2>1 DEF TableFacts
  <2>6. \A f \in MpGrants(h) : f.vol = v => f.mode = m
    BY <2>1, <2>3 DEF TableFacts
  <2>7. {PathOf(f) : f \in MpGrants(h)} = {PathOf(f) : f \in MpGrants(h) \ {g}} \union {PathOf(g)}
    BY <2>1
  <2> QED
    BY <1>1, <1>2, <1>3, <1>5, <2>3, <2>4, <2>5, <2>6, <2>7 DEF PathsTidy
<1>8. CASE ~\E g \in MpGrants(h) : g.vol = v /\ g.caller = c
  <2>1. ~Leaving(h)'
    BY <1>1, <1>6, <1>8 DEF TableFacts
  <2>2. MpGrants(h)' = MpGrants(h)
    BY <1>1, <1>8 DEF MpGrants, L!GrantsOf
  <2> QED
    BY <1>1, <1>5, <2>1, <2>2, PathsStay
<1> QED
  BY <1>7, <1>8

\* The lock steps of the host's own handler.
LEMMA OwnLocksTidy ==
  ASSUME LP!UnlocksWork, TypeOK, NEW h \in Host, TableFacts(h), PathsTidy(h),
         L!LockStep(h), UNCHANGED devVars
  PROVE  PathsTidy(h)'
<1> USE DEF L!Goto, L!Return
<1>t. /\ pc \in [Host -> L!Location] /\ req \in [Host -> L!Request \union {NoReq}]
      /\ locks \in [Host -> SUBSET L!Entry]
      /\ at[h] # "out" => pc[h] \in {"body", "umount"}
      /\ mnts' = mnts /\ at' = at
  BY DEF TypeOK, L!TypeOK, devVars
<1>1. CASE L!LockSkip(h) \/ L!LockNoCaller(h) \/ L!LockCheck(h) \/ L!NewMutex(h)
           \/ L!Acquire(h) \/ L!AcquireFail(h) \/ L!Register(h) \/ L!RegisterFail(h)
           \/ L!UndoOk(h) \/ L!UndoFail(h)
  <2>1. /\ pc[h] \in {"lock", "new", "acquire", "register", "undo"}
        /\ pc'[h] \in {"new", "acquire", "register", "body", "idle"}
    BY <1>1, <1>t
       DEF L!LockSkip, L!LockNoCaller, L!LockCheck, L!NewMutex, L!Acquire, L!AcquireFail,
           L!Register, L!RegisterFail, L!UndoOk, L!UndoFail
  <2>2. UNCHANGED grants \/ L!MountReply(h, FALSE)
    BY <1>1
       DEF L!LockSkip, L!LockNoCaller, L!LockCheck, L!NewMutex, L!Acquire, L!AcquireFail,
           L!Register, L!RegisterFail, L!UndoOk, L!UndoFail
  <2>3. MpGrants(h)' = MpGrants(h)
    BY <2>2 DEF MpGrants, L!MountReply
  <2> QED
    BY <1>t, <2>1, <2>3, PathsStay DEF Leaving
<1>2. CASE L!Unlock(h)
  <2>1. /\ pc[h] = "unlock" /\ pc'[h] = "count" /\ UNCHANGED <<req, grants>>
        /\ L!EntriesOf(h, req[h].vol, req[h].caller) # {}
    BY <1>2, <1>t DEF L!Unlock, L!UnlockOk, TableFacts
  <2>2. Leaving(h) /\ Leaving(h)' /\ MpGrants(h)' = MpGrants(h)
    BY <2>1 DEF Leaving, MpGrants
  <2> QED
    BY <1>t, <2>1, <2>2 DEF PathsTidy, PathOf
<1>3. CASE L!UnlockError(h)
  <2>1. /\ pc[h] = "unlock" /\ pc'[h] = "idle" /\ UNCHANGED grants
    BY <1>3, <1>t DEF L!UnlockError
  <2>2. L!EntriesOf(h, req[h].vol, req[h].caller) = {}
    BY <1>3 DEF L!UnlockError, L!UnlockNotFound, L!UnlockFail, LP!UnlocksWork, TableFacts,
                L!EntriesOf
  <2>3. ~Leaving(h) /\ ~Leaving(h)' /\ MpGrants(h)' = MpGrants(h)
    BY <1>t, <2>1, <2>2 DEF Leaving, MpGrants
  <2> QED
    BY <1>t, <2>3, PathsStay
<1>4. CASE L!CountStay(h)
  <2>1. /\ pc[h] = "count" /\ pc'[h] = "idle" /\ UNCHANGED grants
        /\ \E e \in locks[h] : e.vol = req[h].vol
    BY <1>4, <1>t DEF L!CountStay, L!Locked
  <2>2. Leaving(h) /\ ~Leaving(h)' /\ MpGrants(h)' = MpGrants(h)
    BY <1>t, <2>1 DEF Leaving, MpGrants
  <2>3. PICK g \in MpGrants(h) : g.vol = req[h].vol
    BY <2>1 DEF TableFacts
  <2>4. PathOf(g) = PathOf(req[h])
    BY <2>1, <2>2, <2>3 DEF PathsTidy, PathOf
  <2> QED
    BY <1>t, <2>1, <2>2, <2>4 DEF PathsTidy
<1>5. CASE L!CountLast(h)
  <2>1. /\ pc[h] = "count" /\ pc'[h] = "umount" /\ UNCHANGED <<req, grants>>
        /\ at[h] = "out"
    BY <1>5, <1>t DEF L!CountLast
  <2>2. Leaving(h) /\ Leaving(h)' /\ MpGrants(h)' = MpGrants(h)
    BY <1>t, <2>1 DEF Leaving, MpGrants
  <2> QED
    BY <1>t, <2>1, <2>2 DEF PathsTidy, PathOf
<1> QED
  BY <1>1, <1>2, <1>3, <1>4, <1>5 DEF L!LockStep

LEMMA LocksTidy ==
  ASSUME LP!UnlocksWork, TypeOK, NEW h \in Host, LockStep(h),
         NEW i \in Host, TableFacts(i), PathsTidy(i)
  PROVE  PathsTidy(i)'
<1> USE DEF L!Goto, L!Return
<1>t. /\ pc \in [Host -> L!Location] /\ req \in [Host -> L!Request \union {NoReq}]
      /\ locks \in [Host -> SUBSET L!Entry]
      /\ at[i] # "out" => pc[i] \in {"body", "umount"}
      /\ UNCHANGED devVars /\ mnts' = mnts /\ at' = at
  BY DEF TypeOK, L!TypeOK, LockStep, devVars
<1>1. CASE L!LockStep(h) /\ i # h
  <2>1. pc'[i] = pc[i] /\ req'[i] = req[i] /\ locks'[i] = locks[i]
    BY <1>1, <1>t
       DEF L!LockStep, L!LockSkip, L!LockNoCaller, L!LockCheck, L!NewMutex, L!Acquire,
           L!AcquireFail, L!Register, L!RegisterFail, L!UndoOk, L!UndoFail, L!Unlock,
           L!UnlockError, L!CountStay, L!CountLast, L!UnlockOk, L!UnlockNotFound, L!UnlockFail,
           L!procVars
  <2>2. UNCHANGED grants \/ L!MountReply(h, FALSE)
    BY <1>1
       DEF L!LockStep, L!LockSkip, L!LockNoCaller, L!LockCheck, L!NewMutex, L!Acquire,
           L!AcquireFail, L!Register, L!RegisterFail, L!UndoOk, L!UndoFail, L!Unlock,
           L!UnlockError, L!CountStay, L!CountLast
  <2>3. MpGrants(i)' = MpGrants(i)
    BY <2>2 DEF MpGrants, L!MountReply
  <2> QED
    BY <1>t, <2>1, <2>3, PathsStay
<1>2. CASE L!SessionStep(h) \/ L!Start(h) \/ L!StartFail(h)
  <2>1. UNCHANGED <<pc, req, grants, locks>>
    BY <1>2
       DEF L!SessionStep, L!LeaseLost, L!SessionDone, L!Recreate, L!RecreateFail, L!Start,
           L!StartFail, L!procVars, LP!UnlocksWork, LP!ProcessesStay, LP!SessionsStay
  <2>2. MpGrants(i)' = MpGrants(i)
    BY <2>1 DEF MpGrants
  <2> QED
    BY <1>t, <2>1, <2>2, PathsStay
<1>3. ASSUME NEW v \in Volume, NEW m \in L!Mode, NEW c \in Caller, L!BeginMount(h, v, m, c)
      PROVE  PathsTidy(i)'
  <2>1. /\ UNCHANGED <<grants, locks>>
        /\ i # h => pc'[i] = pc[i] /\ req'[i] = req[i]
        /\ pc[h] = "idle" /\ pc'[h] = "lock"
    BY <1>3, <1>t DEF L!BeginMount, L!procVars
  <2>2. MpGrants(i)' = MpGrants(i)
    BY <2>1 DEF MpGrants
  <2> QED
    BY <1>t, <2>1, <2>2, PathsStay DEF Leaving
<1>4. ASSUME NEW v \in Volume, NEW m \in L!Mode, NEW c \in Caller,
             L!BeginUnmount(h, v, m, c), i # h
      PROVE  PathsTidy(i)'
  <2>1. /\ locks' = locks /\ grants' = grants \ L!GrantsOf(h, v, c)
        /\ pc'[i] = pc[i] /\ req'[i] = req[i]
    BY <1>4, <1>t DEF L!BeginUnmount, L!procVars
  <2>2. MpGrants(i)' = MpGrants(i)
    BY <1>4, <2>1 DEF MpGrants, L!GrantsOf
  <2> QED
    BY <1>t, <2>1, <2>2, PathsStay
<1> QED
  BY <1>1, <1>2, <1>3, <1>4, <1>t, BeginUnmountTidy, OwnLocksTidy DEF LockStep

\* A Mount or Unmount that goes through its body.
LEMMA BodyTidy ==
  ASSUME TidyCommands, TypeOK, NEW h \in Host, HostInv(h), MountsFit(h), TableFacts(h),
         PathsTidy(h), MountStep(h) \/ UnmountStep(h)
  PROVE  PathsTidy(h)'
<1> USE DEF HostInv, Move, Leave, L!Goto, L!Return
<1>t. /\ pc \in [Host -> L!Location] /\ req \in [Host -> L!Request \union {NoReq}]
      /\ mnts \in [Host -> SUBSET Mount]
      /\ at \in [Host -> {"out", "check", "rmount", "rumount", "recheck",
                          "mkdir", "mount", "drop", "unmap"}]
      /\ at[h] # "out" => pc[h] \in {"body", "umount"}
  BY DEF TypeOK, L!TypeOK
<1>s. Scanned(h, API) => at[h] = "out"
  BY DEF Scanned, ListFits
<1>r. \A x : PathOf(x)' = PathOf(x)
  BY DEF PathOf
<1>g. grants' = grants => MpGrants(h)' = MpGrants(h)
  BY DEF MpGrants
<1>1. ASSUME L!MountReply(h, TRUE), {m.path : m \in mnts'[h]} =
                                      {m.path : m \in mnts[h]} \union {PathOf(req[h])},
             ~Leaving(h), ~Leaving(h)'
      PROVE  PathsTidy(h)'
  <2> DEFINE new == [host |-> h, vol |-> req[h].vol, mode |-> req[h].mode,
                     caller |-> req[h].caller, key |-> mine[h], mp |-> TRUE]
  <2>1. MpGrants(h)' = MpGrants(h) \union {new} /\ PathOf(new) = PathOf(req[h])
    BY <1>1 DEF L!MountReply, MpGrants, PathOf
  <2> HIDE DEF new
  <2>2. {PathOf(g) : g \in MpGrants(h)'} = {PathOf(g) : g \in MpGrants(h)} \union {PathOf(req[h])}
    BY <2>1
  <2> QED
    BY <1>1, <1>r, <2>2 DEF PathsTidy
<1>2. CASE MountReuse(h)
  <2>1. PICK f \in scan[h][API].found : f.path = PathOf(req[h])
    BY <1>2 DEF MountReuse, FoundHere
  <2>2. [dev |-> f.dev, path |-> f.path] \in mnts[h] /\ at[h] = "out"
    BY <1>2, <1>s DEF MountReuse, Scanned, ListFits
  <2>3. PathOf(req[h]) \in {m.path : m \in mnts[h]}
    <3> DEFINE m == [dev |-> f.dev, path |-> f.path]
    <3>1. m \in mnts[h] /\ m.path = PathOf(req[h])
      BY <2>1, <2>2
    <3> HIDE DEF m
    <3> QED
      BY <3>1
  <2>4. /\ pc[h] = "body" /\ pc'[h] = "idle" /\ mnts' = mnts /\ at' = at
        /\ L!MountReply(h, TRUE)
    BY <1>2, <1>t DEF MountReuse, L!BodyOk
  <2>5. ~Leaving(h) /\ ~Leaving(h)'
    BY <2>2, <2>4 DEF Leaving
  <2> QED
    BY <1>1, <2>3, <2>4, <2>5
<1>3. CASE MountOk(h) \/ (RepairMount(h) /\ MountPath(h))
  <2> DEFINE m == [dev |-> dev[h], path |-> PathOf(req[h])]
  <2>1. mnts'[h] = mnts[h] \union {m} /\ m.path = PathOf(req[h])
    BY <1>3, <1>t DEF MountOk, MountPath
  <2> HIDE DEF m
  <2>2. {n.path : n \in mnts'[h]} = {n.path : n \in mnts[h]} \union {PathOf(req[h])}
    BY <2>1
  <2>3. at[h] \in {"rmount", "mount"} /\ pc[h] = "body"
    BY <1>3, <1>t DEF MountOk, RepairMount, BodyFits
  <2>4. ~Leaving(h)
    BY <2>3 DEF Leaving
  <2>5. CASE MountOk(h)
    <3>1. pc'[h] = "idle" /\ at'[h] = "out" /\ L!MountReply(h, TRUE)
      BY <2>5, <1>t DEF MountOk, L!BodyOk
    <3> QED
      BY <1>1, <2>2, <2>4, <3>1 DEF Leaving
  <2>6. CASE RepairMount(h) /\ MountPath(h)
    <3>1. UNCHANGED <<req, pc, grants>> /\ at'[h] \in {"rumount", "drop"}
      BY <2>6, <1>t DEF RepairMount, lockVars
    <3>2. at'[h] = "rumount"
      <4>1. \A n \in mnts[h] : n.path # PathOf(req[h])
        BY <2>6 DEF RepairMount, BodyFits
      <4>2. mnts'[h] # mnts[h]
        BY <2>1, <4>1
      <4> QED
        BY <2>6, <4>2, <1>t, NoneLate DEF RepairMount, MountPathFails
    <3>3. Leaving(h)'
      BY <3>2 DEF Leaving
    <3> QED
      BY <1>g, <1>r, <2>2, <2>3, <2>4, <3>1, <3>3 DEF PathsTidy
  <2> QED
    BY <1>3, <2>5, <2>6
<1>4. ASSUME UnmountPath(h), Leaving(h), ~Leaving(h)', UNCHANGED grants,
             \A g \in MpGrants(h) : PathOf(g) # PathOf(req[h])
      PROVE  PathsTidy(h)'
  <2>1. PICK m \in mnts[h] : m.path = PathOf(req[h]) /\ mnts'[h] = mnts[h] \ {m}
    BY <1>4, <1>t DEF UnmountPath
  <2>2. {n.path : n \in mnts'[h]} = {n.path : n \in mnts[h]} \ {PathOf(req[h])}
    BY <2>1 DEF DevicesFit
  <2> QED
    BY <1>4, <1>g, <1>r, <2>2 DEF PathsTidy
<1>5. CASE UmountOk(h)
  <2>1. /\ pc[h] = "umount" /\ pc' = pc /\ at[h] = "out" /\ at'[h] = "unmap"
        /\ UNCHANGED grants /\ UnmountPath(h)
    BY <1>5, <1>t, <1>s DEF UmountOk, lockVars
  <2>2. Leaving(h) /\ ~Leaving(h)'
    BY <2>1 DEF Leaving
  <2>3. \A g \in MpGrants(h) : PathOf(g) # PathOf(req[h])
    BY <2>1 DEF TableFacts, PathOf
  <2> QED
    BY <1>4, <2>1, <2>2, <2>3
<1>6. CASE RepairUmount(h)
  <2>1. ~UnmountPathFails(h)
    <3> DEFINE m == [dev |-> dev[h], path |-> PathOf(req[h])]
    <3>1. m \in mnts[h] /\ m.path = PathOf(req[h])
      BY <1>6 DEF RepairUmount, BodyFits
    <3> HIDE DEF m
    <3> QED
      BY <3>1, NoneLate DEF UnmountPathFails, TidyCommands
  <2>2. /\ at[h] = "rumount" /\ at'[h] = "recheck" /\ pc[h] = "body"
        /\ UNCHANGED <<grants, pc>> /\ UnmountPath(h)
    BY <1>6, <1>t, <2>1 DEF RepairUmount, BodyFits, lockVars
  <2>3. Leaving(h) /\ ~Leaving(h)'
    BY <2>2 DEF Leaving
  <2>4. \A g \in MpGrants(h) : g \in Counted(h)
    BY DEF TableFacts, Counted, MpGrants
  <2>5. \A g \in MpGrants(h) : PathOf(g) # PathOf(req[h])
    BY <2>2, <2>4 DEF MountsFit
  <2> QED
    BY <1>4, <2>2, <2>3, <2>5
<1>7. ~UmountFail(h)
  <2> SUFFICES ASSUME UmountFail(h) PROVE FALSE
    OBVIOUS
  <2>1. pc[h] = "umount" /\ at[h] = "out" /\ Scanned(h, API)
    BY <1>s DEF UmountFail, L!UmountDone
  <2>2. PICK m \in mnts[h] : m.path = PathOf(req[h])
    BY <2>1 DEF PathsTidy, Leaving
  <2>3. FoundHere(h) # {}
    BY <2>1, <2>2 DEF Scanned, ListFits, FoundHere
  <2> QED
    BY <2>2, <2>3, NoneLate DEF UmountFail, UnmountPathFails, TidyCommands
<1>8. CASE Map(h) \/ MapFail(h) \/ Check(h) \/ (RepairMount(h) /\ UNCHANGED mnts)
           \/ Recheck(h) \/ MkDir(h) \/ MountFail(h) \/ Drop(h) \/ UnmapLast(h)
  <2>1. CASE RepairMount(h) /\ UNCHANGED mnts
    <3>1. at'[h] # "rumount" \/ MountPath(h)
      BY <2>1, <1>t DEF RepairMount
    <3>2. CASE MountPath(h)
      BY <1>3, <2>1, <3>2
    <3>3. CASE at'[h] # "rumount"
      <4>1. at[h] = "rmount" /\ pc[h] = "body" /\ UNCHANGED <<pc, grants>>
        BY <2>1, <1>t DEF RepairMount, BodyFits, lockVars
      <4> QED
        BY <1>g, <2>1, <3>3, <4>1, PathsStay DEF Leaving
    <3> QED
      BY <3>1, <3>2, <3>3
  <2>2. CASE Map(h) \/ Check(h) \/ Recheck(h) \/ MkDir(h) \/ MountFail(h)
    <3>1. /\ pc[h] = "body" /\ at[h] # "rumount" /\ at'[h] # "rumount"
          /\ UNCHANGED <<pc, grants, mnts>>
      BY <2>2, <1>t, <1>s, NoneLate
         DEF Map, Check, Recheck, MkDir, MountFail, MountPathFails, BodyFits, lockVars
    <3> QED
      BY <1>g, <3>1, PathsStay DEF Leaving
  <2>3. CASE MapFail(h) \/ Drop(h)
    <3>1. /\ pc[h] = "body" /\ pc'[h] = "undo" /\ at[h] # "rumount" /\ at'[h] = "out"
          /\ UNCHANGED <<grants, mnts>>
      BY <2>3, <1>t, <1>s DEF MapFail, Drop, L!BodyFail
    <3> QED
      BY <1>g, <3>1, PathsStay DEF Leaving
  <2>4. CASE UnmapLast(h)
    <3>1. /\ pc[h] = "umount" /\ pc'[h] = "idle" /\ at[h] = "unmap" /\ at'[h] = "out"
          /\ UNCHANGED <<grants, mnts>>
      BY <2>4, <1>t DEF UnmapLast, L!UmountDone
    <3> QED
      BY <1>g, <3>1, PathsStay DEF Leaving
  <2> QED
    BY <1>8, <2>1, <2>2, <2>3, <2>4
<1> QED
  BY <1>2, <1>3, <1>5, <1>6, <1>7, <1>8 DEF MountStep, UnmountStep, RepairMount, MountPathFails

-----------------------------------------------------------------------------
\* Devices may only disappear.
LEMMA DevicesStay ==
  ASSUME NEW i \in Host, DevicesTidy(i), devs'[i] \subseteq devs[i], mnts'[i] = mnts[i],
         at'[i] = at[i], dev'[i] = dev[i], scan'[i][API] = scan[i][API]
  PROVE  DevicesTidy(i)'
BY DEF DevicesTidy, MountedDev

\* A handler's call of currentVolumes finds nothing to unmap, and no error.
LEMMA OnlyLists ==
  ASSUME TidyCommands, NEW h \in Host, DevicesTidy(h), ScanStep(h, API)
  PROVE  ListMapped(h, API) \/ ListMounts(h, API)
BY DriverAssumption DEF ScanStep, ListFails, Reap, Reply, TidyCommands, DevicesTidy

LEMMA ListTidy ==
  ASSUME TidyCommands, TypeOK, NEW h \in Host, HostInv(h), DevicesTidy(h), ScanStep(h, API)
  PROVE  /\ DevicesTidy(h)'
         /\ UNCHANGED <<lockVars, mnts, at>>
<1> USE DEF DevicesTidy, MountedDev
<1>0. API \in Actor /\ scan[h][API] \in Scan
  BY DEF Actor, TypeOK
<1>1. CASE ListMapped(h, API)
  <2> DEFINE M == {[dev |-> x.dev, vol |-> x.vol] : x \in devs[h]}
  <2>1. /\ scan' = [scan EXCEPT ![h][API] = [at |-> "mounts", mapped |-> M, found |-> {}]]
        /\ UNCHANGED <<lockVars, devs, mnts, at, dev>>
        /\ at[h] = "out"
    BY <1>1 DEF ListMapped, SetScan, MayScan, TidyCommands
  <2>2. \A y \in M : \E m \in mnts[h] : m.dev = y.dev
    BY <2>1
  <2> HIDE DEF M
  <2>3. scan'[h][API] = [at |-> "mounts", mapped |-> M, found |-> {}]
    BY <1>0, <2>1 DEF TypeOK
  <2> QED
    BY <2>1, <2>2, <2>3
<1>2. CASE ListMounts(h, API)
  <2>1. /\ UNCHANGED <<lockVars, devs, mnts, at, dev>>
        /\ scan[h][API].at = "mounts"
    BY <1>2 DEF ListMounts
  <2>2. PICK found : scan' = [scan EXCEPT ![h][API] =
                 [at |-> "reap",
                  mapped |-> scan[h][API].mapped \ {x \in scan[h][API].mapped : MountedDev(h, x.dev)},
                  found |-> found]]
    BY <1>2 DEF ListMounts, SetScan
  <2>3. scan[h][API].mapped \ {x \in scan[h][API].mapped : MountedDev(h, x.dev)} = {}
    BY <2>1
  <2>4. scan'[h][API] = [at |-> "reap", mapped |-> {}, found |-> found]
    BY <1>0, <2>2, <2>3 DEF TypeOK
  <2> QED
    BY <2>1, <2>4
<1> QED
  BY <1>1, <1>2, OnlyLists

\* The handler leaves no device behind that is not mounted.
LEMMA DevicesBody ==
  ASSUME TidyCommands, TypeOK, NEW h \in Host, HostInv(h), DevicesTidy(h),
         MountStep(h) \/ UnmountStep(h)
  PROVE  DevicesTidy(h)'
<1> USE DEF HostInv, Move, Leave, SetScan, DevicesTidy
<1>t. /\ API \in Actor /\ NoScan.at = "off"
      /\ mnts \in [Host -> SUBSET Mount] /\ devs \in [Host -> SUBSET Mapping]
      /\ at \in [Host -> {"out", "check", "rmount", "rumount", "recheck",
                          "mkdir", "mount", "drop", "unmap"}]
      /\ dev \in [Host -> Device \union {NoDev}]
      /\ scan \in [Host -> [Actor -> Scan]]
  BY DEF TypeOK, Actor, NoScan
<1>s. /\ Scanned(h, API) => at[h] = "out"
      /\ at[h] # "out" => scan[h][API].at = "off"
  BY <1>t DEF Scanned, ListFits, Scan
<1>1. CASE MountReuse(h) \/ MapFail(h) \/ UmountFail(h)
  <2>1. UNCHANGED <<devs, mnts, at, dev>> /\ scan'[h][API].at = "off"
    BY <1>1, <1>t, NoneLate
       DEF MountReuse, MapFail, MapFails, UmountFail, UnmountPathFails
  <2> QED
    BY <2>1 DEF MountedDev
<1>2. CASE Map(h)
  <2>1. PICK d \in Device :
          /\ devs' = [devs EXCEPT ![h] = devs[h] \union
                 {[dev |-> d, vol |-> req[h].vol, mode |-> req[h].mode]}]
          /\ dev' = [dev EXCEPT ![h] = d]
    BY <1>2 DEF Map, MapTo
  <2> DEFINE new == [dev |-> d, vol |-> req[h].vol, mode |-> req[h].mode]
  <2>2. devs'[h] = devs[h] \union {new} /\ new.dev = dev'[h]
    BY <2>1, <1>t
  <2> HIDE DEF new
  <2>3. mnts' = mnts /\ at[h] = "out" /\ at'[h] = "check" /\ scan'[h][API].at = "off"
    BY <1>2, <1>t, <1>s DEF Map
  <2> QED
    BY <2>2, <2>3 DEF MountedDev
<1>3. CASE Check(h) \/ Recheck(h) \/ MkDir(h) \/ MountFail(h) \/ RepairMount(h)
  <2>1. /\ UNCHANGED <<devs, dev, scan>> /\ mnts[h] \subseteq mnts'[h]
        /\ at[h] # "out" /\ at'[h] # "out"
    BY <1>3, <1>t
       DEF Check, Recheck, MkDir, MountFail, RepairMount, MountPath, MountPathFails
  <2> QED
    BY <1>s, <2>1 DEF MountedDev
<1>4. ASSUME UnmountPath(h), UNCHANGED devs, at'[h] # "out", scan'[h][API].at = "off",
             NEW x \in devs[h], x.dev # dev'[h],
             NEW m \in mnts[h], m.path = PathOf(req[h]), m.dev = dev'[h],
             MountedDev(h, x.dev)
      PROVE  MountedDev(h, x.dev)'
  <2>1. mnts'[h] = mnts[h] \ {m}
    BY <1>4, <1>t DEF UnmountPath, DevicesFit
  <2> QED
    BY <1>4, <2>1 DEF MountedDev
<1>5. CASE RepairUmount(h)
  <2>1. /\ at[h] = "rumount" /\ at'[h] \in {"recheck", "drop"} /\ UNCHANGED <<devs, dev, scan>>
        /\ UnmountPath(h) \/ mnts' = mnts
    BY <1>5, <1>t DEF RepairUmount, UnmountPathFails
  <2>2. \A x \in devs[h] : x.dev # dev[h] => MountedDev(h, x.dev)
    BY <2>1
  <2>3. CASE mnts' = mnts
    BY <1>s, <2>1, <2>3 DEF MountedDev
  <2>4. CASE UnmountPath(h)
    <3> DEFINE m == [dev |-> dev[h], path |-> PathOf(req[h])]
    <3>1. m \in mnts[h] /\ m.path = PathOf(req[h]) /\ m.dev = dev'[h]
      BY <2>1 DEF BodyFits
    <3> HIDE DEF m
    <3>2. \A x \in devs[h] : x.dev # dev'[h] => MountedDev(h, x.dev)'
      BY <1>4, <1>s, <2>1, <2>2, <2>4, <3>1
    <3> QED
      BY <1>s, <2>1, <3>2
  <2> QED
    BY <2>1, <2>3, <2>4
<1>6. CASE UmountOk(h)
  <2>1. PICK f \in scan[h][API].found : f.path = PathOf(req[h]) /\ dev'[h] = f.dev
    BY <1>6, <1>t DEF UmountOk, FoundHere
  <2> DEFINE m == [dev |-> f.dev, path |-> f.path]
  <2>2. m \in mnts[h] /\ m.path = PathOf(req[h]) /\ m.dev = dev'[h]
    BY <1>6, <2>1 DEF UmountOk, Scanned, ListFits
  <2> HIDE DEF m
  <2>3. /\ at[h] = "out" /\ at'[h] = "unmap" /\ UNCHANGED devs /\ UnmountPath(h)
        /\ scan'[h][API].at = "off"
    BY <1>6, <1>t, <1>s DEF UmountOk
  <2>4. \A x \in devs[h] : x.dev # dev'[h] => MountedDev(h, x.dev)'
    BY <1>4, <2>2, <2>3
  <2> QED
    BY <2>3, <2>4
<1>7. CASE MountOk(h)
  <2> DEFINE m == [dev |-> dev[h], path |-> PathOf(req[h])]
  <2>1. mnts'[h] = mnts[h] \union {m} /\ m.dev = dev[h]
    BY <1>7, <1>t DEF MountOk, MountPath
  <2> HIDE DEF m
  <2>2. UNCHANGED <<devs, scan>> /\ at[h] = "mount"
    BY <1>7 DEF MountOk
  <2> QED
    BY <1>s, <2>1, <2>2 DEF MountedDev
<1>8. CASE Drop(h) \/ UnmapLast(h)
  <2>1. /\ UNCHANGED <<mnts, scan>> /\ at[h] # "out"
        /\ Unmap(h, dev[h]) \/ UnmapFails(h, dev[h])
    BY <1>8 DEF Drop, UnmapLast
  <2>2. CASE Unmap(h, dev[h])
    <3>1. devs'[h] = {x \in devs[h] : x.dev # dev[h]}
      BY <2>2, <1>t DEF Unmap
    <3> QED
      BY <1>s, <2>1, <3>1 DEF MountedDev
  <2>3. CASE UnmapFails(h, dev[h])
    <3>1. devs' = devs /\ (~Mapped(h, dev[h]) \/ MountedDev(h, dev[h]))
      BY <2>3, NoneLate DEF UnmapFails, TidyCommands
    <3> QED
      BY <1>s, <2>1, <3>1 DEF MountedDev, Mapped
  <2> QED
    BY <2>1, <2>2, <2>3
<1> QED
  BY <1>1, <1>2, <1>3, <1>5, <1>6, <1>7, <1>8 DEF MountStep, UnmountStep

\* List and Path.
LEMMA ReadersTidy ==
  ASSUME TypeOK, NEW h \in Host, NEW p \in Reader, ScanStep(h, p), DevicesTidy(h)
  PROVE  DevicesTidy(h)' /\ UNCHANGED <<lockVars, mnts, at>>
<1>1. p # API /\ p \in Actor
  BY DriverAssumption DEF Actor
<1>2. /\ UNCHANGED <<lockVars, mnts, at, dev>>
      /\ UNCHANGED devs \/ \E d : Unmap(h, d)
      /\ \E s : scan' = [scan EXCEPT ![h][p] = s]
  BY <1>1
     DEF ScanStep, ListMapped, ListMounts, ListFails, Reap, Reply, ScanError, SetScan, UnmapFails
<1>3. devs'[h] \subseteq devs[h] /\ scan'[h][API] = scan[h][API]
  BY <1>1, <1>2 DEF Unmap, TypeOK
<1> QED
  BY <1>2, <1>3, DevicesStay

LEMMA TidyInit == Init => TidyInv
<1> SUFFICES ASSUME Init, NEW h \in Host PROVE PathsTidy(h) /\ DevicesTidy(h)
  BY DEF TidyInv
<1>1. /\ at[h] = "out" /\ pc[h] = "idle" /\ devs[h] = {} /\ mnts[h] = {}
      /\ MpGrants(h) = {} /\ scan[h][API].at = "off"
  BY DEF Init, L!Init, MpGrants, Actor, NoScan
<1> QED
  BY <1>1 DEF PathsTidy, DevicesTidy, Leaving

LEMMA TidyStep ==
  ASSUME TidyCommands, LP!UnlocksWork, TypeOK, LockInvs, DevInv, MountsInv, TidyInv,
         [Next]_vars
  PROVE  TidyInv'
<1> SUFFICES ASSUME NEW i \in Host PROVE PathsTidy(i)' /\ DevicesTidy(i)'
  BY DEF TidyInv
<1>0. TableFacts(i) /\ HostInv(i) /\ MountsFit(i) /\ PathsTidy(i) /\ DevicesTidy(i)
  BY TableFactsHold DEF DevInv, MountsInv, TidyInv
<1>t. "crash" \notin Faults
  BY DEF LP!UnlocksWork, LP!ProcessesStay
<1>1. CASE UNCHANGED vars \/ LeaseStep
  <2>1. UNCHANGED <<devVars, pc, req, locks, grants>>
    BY <1>1 DEF vars, lockVars, LeaseStep, L!AbandonedLeaseEnds, L!procVars
  <2>2. MpGrants(i)' = MpGrants(i)
    BY <2>1 DEF MpGrants
  <2> QED
    BY <1>0, <2>1, <2>2, PathsStay, DevicesStay DEF devVars
<1>2. ASSUME NEW h \in Host, LockStep(h) PROVE PathsTidy(i)' /\ DevicesTidy(i)'
  <2>1. PathsTidy(i)'
    BY <1>0, <1>2, LocksTidy
  <2>2. DevicesTidy(i)'
    BY <1>0, <1>2, DevicesStay DEF LockStep, devVars
  <2> QED
    BY <2>1, <2>2
<1>3. ASSUME NEW h \in Host, Crash(h) \/ Reboot(h) PROVE FALSE
  BY <1>3, <1>t DEF Crash, Reboot, L!Crash, L!Reboot, L!ProcessGone
<1>4. ASSUME NEW h \in Host, i # h,
             MountStep(h) \/ UnmountStep(h) \/ \E p \in Actor : ScanStep(h, p)
      PROVE  PathsTidy(i)' /\ DevicesTidy(i)'
  <2>1. MpGrants(i)' = MpGrants(i) /\ locks' = locks
    BY <1>4, BodyLocks DEF L!MountReply, MpGrants
  <2>2. /\ devs'[i] = devs[i] /\ mnts'[i] = mnts[i] /\ at'[i] = at[i] /\ dev'[i] = dev[i]
        /\ scan'[i] = scan[i] /\ pc'[i] = pc[i] /\ req'[i] = req[i]
    BY <1>4, OtherHosts
  <2> QED
    BY <1>0, <2>1, <2>2, PathsStay, DevicesStay
<1>5. CASE MountStep(i) \/ UnmountStep(i)
  BY <1>0, <1>5, BodyTidy, DevicesBody
<1>6. ASSUME NEW p \in Actor, ScanStep(i, p) PROVE PathsTidy(i)' /\ DevicesTidy(i)'
  <2>1. DevicesTidy(i)' /\ UNCHANGED <<lockVars, mnts, at>>
    BY <1>0, <1>6, ListTidy, ReadersTidy DEF Actor
  <2>2. MpGrants(i)' = MpGrants(i)
    BY <2>1 DEF MpGrants, lockVars
  <2> QED
    BY <1>0, <2>1, <2>2, PathsStay DEF lockVars
<1> QED
  BY <1>1, <1>2, <1>3, <1>4, <1>5, <1>6 DEF Next

(***************************************************************************)
(* When nothing that takes something away fails, and a map or a mount that *)
(* fails has done nothing, what a host has mounted is what its containers  *)
(* count on and what its handler is about to unmount, and what it has      *)
(* mapped is mounted or the handler's own: the deferred calls (driver.go:  *)
(* 440, 485 and 507) and the repair (1498) undo what Mount has done.       *)
(***************************************************************************)
THEOREM TidyInvariant == TidyCommands /\ LP!UnlocksWork => (Spec => []TidyInv)
<1> SUFFICES ASSUME TidyCommands, LP!UnlocksWork PROVE Spec => []TidyInv
  OBVIOUS
<1>1. Reliable /\ ReuseIDs = FALSE
  BY DEF TidyCommands
<1>2. LP!IDsSound /\ LP!SessionsStay /\ LP!ProcessesStay
  BY <1>1 DEF LP!IDsSound, LP!UnlocksWork, LP!ProcessesStay
<1>3. Spec => []LockInvs
  BY <1>1, <1>2, LocksRefinement, SameSpec, Assumptions, LP!Owners, LP!Calm, LP!Quiet,
     LP!TableInvariant, LP!RepliesUnique, PTL
     DEF ImplementsLocks, LockInvs
<1>4. TypeOK /\ LockInvs /\ DevInv /\ MountsInv /\ TidyInv /\ [Next]_vars => TidyInv'
  BY TidyStep
<1> QED
  BY <1>1, <1>2, <1>3, <1>4, TidyInit, TypeCorrect, DevicesInvariant, MountsInvariant, PTL
     DEF Spec

(***************************************************************************)
(* So an idle host has mounted what its containers count on, and nothing   *)
(* is mapped that is not mounted.  A map or a mount that was stopped when  *)
(* it had taken effect would leave its device or its mount (driver.go:462  *)
(* and 507): TidyCommands excepts it.                                      *)
(***************************************************************************)
THEOREM IdleTidy == TidyCommands /\ LP!UnlocksWork => (Spec => []IdleMountsAreGrants)
<1>1. TypeOK /\ TidyInv => IdleMountsAreGrants
  <2> SUFFICES ASSUME TypeOK, TidyInv, NEW h \in Host, pc[h] = "idle"
               PROVE  /\ {m.path : m \in mnts[h]} =
                           {PathOf(g) : g \in {f \in grants : f.host = h /\ f.mp}}
                      /\ \A x \in devs[h] : MountedDev(h, x.dev)
    BY DEF IdleMountsAreGrants
  <2>1. at[h] = "out" /\ ~Leaving(h)
    BY DEF TypeOK, Leaving
  <2> QED
    BY <2>1 DEF TidyInv, PathsTidy, DevicesTidy, MpGrants
<1> QED
  BY <1>1, TidyInvariant, TypeCorrect, PTL
=============================================================================
