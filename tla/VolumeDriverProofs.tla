------------------------- MODULE VolumeDriverProofs -------------------------
(***************************************************************************)
(* Theorems about the full handlers of Mount and Unmount: they follow the  *)
(* lock protocol, so that what is proved of it holds of them, and what     *)
(* they know about devices and mounts is true, always with the kernel      *)
(* module and under the conditions of Reliable with rbd-nbd.               *)
(***************************************************************************)
EXTENDS VolumeDriverInv, TLAPS

\* The lock protocol with its theorems.
LP == INSTANCE MountLocksCalmProofs

LEMMA Assumptions ==
  LP!ConstantsAssumption /\ LP!NullsAssumption /\ LP!NoReqAssumption
BY LocksAssumption
   DEF LP!ConstantsAssumption, LP!NullsAssumption, LP!NoReqAssumption,
       L!FaultKind, LP!FaultKind, L!Key, L!E!Key, L!E!Mode, LP!E!Key, LP!E!Mode,
       L!Session, LP!Session, L!Request, LP!Request, L!Mode, LP!Mode

\* Its steps are those that VolumeDriver uses.
LEMMA SameInit == L!Init => LP!Init
BY DEF L!Init, LP!Init, L!E!Init, LP!E!Init

LEMMA SameNext == L!Next => LP!Next
BY DEF
   L!Next, LP!Next, L!HandlerStep, LP!HandlerStep, L!LockStep, LP!LockStep, L!SessionStep,
   LP!SessionStep, L!Environment, LP!Environment, L!Session, LP!Session, L!Mode, LP!Mode,
   L!Up, LP!Up, L!NewSession, LP!NewSession, L!Start, LP!Start, L!StartFail, LP!StartFail,
   L!LeaseLost, LP!LeaseLost, L!SessionDone, LP!SessionDone, L!Recreate, LP!Recreate,
   L!RecreateFail, LP!RecreateFail, L!AbandonedLeaseEnds, LP!AbandonedLeaseEnds,
   L!ProcessGone, LP!ProcessGone, L!Crash, LP!Crash, L!Reboot, LP!Reboot, L!Goto, LP!Goto,
   L!Return, LP!Return, L!MountReply, LP!MountReply, L!EntriesOf, LP!EntriesOf, L!Locked,
   LP!Locked, L!InUse, LP!InUse, L!FreshMutex, LP!FreshMutex, L!Unseen, LP!Unseen,
   L!BeginMount, LP!BeginMount, L!LockSkip, LP!LockSkip, L!LockNoCaller, LP!LockNoCaller,
   L!LockCheck, LP!LockCheck, L!NewMutex, LP!NewMutex, L!Acquire, LP!Acquire, L!AcquireFail,
   LP!AcquireFail, L!Register, LP!Register, L!RegisterFail, LP!RegisterFail, L!BodyOk,
   LP!BodyOk, L!BodyFail, LP!BodyFail, L!UnlockOk, LP!UnlockOk, L!UnlockNotFound,
   LP!UnlockNotFound, L!UnlockFail, LP!UnlockFail, L!UndoOk, LP!UndoOk, L!UndoFail,
   LP!UndoFail, L!GrantsOf, LP!GrantsOf, L!BeginUnmount, LP!BeginUnmount, L!Unlock,
   LP!Unlock, L!UnlockError, LP!UnlockError, L!CountStay, LP!CountStay, L!CountLast,
   LP!CountLast, L!UmountDone, LP!UmountDone, L!procVars, LP!procVars, L!E!Mode, LP!E!Mode,
   L!E!MayShare, LP!E!MayShare, L!E!Acquire, LP!E!Acquire, L!E!Release, LP!E!Release,
   L!E!Expire, LP!E!Expire, L!E!Grant, LP!E!Grant

LEMMA SameType == LP!TypeOK => L!TypeOK
BY DEF L!TypeOK, LP!TypeOK, L!Session, LP!Session, L!Key, LP!Key, L!E!Key, LP!E!Key,
       L!E!Mode, LP!E!Mode, L!Mode, LP!Mode, L!Location, LP!Location, L!Request, LP!Request,
       L!Entry, LP!Entry, L!GrantRec, LP!GrantRec

LEMMA SameSpec == L!Spec => LP!Spec
<1>1. [L!Next]_L!vars => [LP!Next]_LP!vars
  BY SameNext DEF L!vars, LP!vars
<1> QED
  BY <1>1, SameInit, PTL DEF L!Spec, LP!Spec

-----------------------------------------------------------------------------
(***************************************************************************)
(* The refinement of MountLocks.                                           *)
(***************************************************************************)
LEMMA LocksMap == [Next]_vars => [L!Next]_lockVars
<1> SUFFICES ASSUME Next PROVE L!Next \/ UNCHANGED lockVars
  BY DEF vars
<1>1. ASSUME NEW h \in Host, LockStep(h) PROVE L!Next
  BY <1>1 DEF LockStep, L!Next, L!HandlerStep, L!Environment
<1>2. ASSUME NEW h \in Host, MountStep(h) PROVE L!Next \/ UNCHANGED lockVars
  BY <1>2
     DEF MountStep, MountReuse, Map, MapFail, Check, RepairMount, RepairUmount, Recheck,
         MkDir, MountOk, MountFail, Drop, L!Next, L!HandlerStep
<1>3. ASSUME NEW h \in Host, UnmountStep(h) PROVE L!Next \/ UNCHANGED lockVars
  BY <1>3 DEF UnmountStep, UmountOk, UmountFail, UnmapLast, L!Next, L!HandlerStep
<1>4. ASSUME NEW h \in Host, Crash(h) \/ Reboot(h) PROVE L!Next
  BY <1>4 DEF Crash, Reboot, L!Next, L!Environment
<1>5. ASSUME NEW h \in Host, NEW p \in Actor, ScanStep(h, p) PROVE L!Next \/ UNCHANGED lockVars
  BY <1>5
     DEF ScanStep, ListMapped, ListMounts, ListFails, Reap, Reply, ScanError,
         L!Next, L!HandlerStep
<1>6. LeaseStep => L!Next
  BY DEF LeaseStep, L!Next
<1> QED
  BY <1>1, <1>2, <1>3, <1>4, <1>5, <1>6 DEF Next

(***************************************************************************)
(* Whatever commands fail and whatever List does meanwhile, Mount and      *)
(* Unmount take, register and give back locks as MountLocks says.          *)
(***************************************************************************)
THEOREM LocksRefinement == Spec => ImplementsLocks
<1>1. Init => L!Init
  BY DEF Init
<1>2. [Next]_vars => [L!Next]_L!vars
  BY LocksMap DEF lockVars, L!vars
<1> QED
  BY <1>1, <1>2, PTL DEF Spec, ImplementsLocks, L!Spec

(***************************************************************************)
(* So containers with live locks on one volume both only read, also with   *)
(* all the commands of the handlers in their place.                        *)
(***************************************************************************)
THEOREM DriverLockSafety == LP!IDsSound => (Spec => []LP!LiveGrantsExclude)
BY LocksRefinement, SameSpec, Assumptions, LP!LockSafety, PTL DEF ImplementsLocks

(***************************************************************************)
(* And seen through the containers whose locks are alive, the handlers in  *)
(* full behave like one readers-writer lock per volume.                    *)
(***************************************************************************)
THEOREM DriverAccess == LP!IDsSound => (Spec => LP!ImplementsAccess)
BY LocksRefinement, SameSpec, Assumptions, LP!AccessRefinement, PTL DEF ImplementsLocks

-----------------------------------------------------------------------------
(***************************************************************************)
(* The shape of the state.                                                 *)
(***************************************************************************)
BodyOrUmount == {"body", "umount"}

\* Steps that concern locks and sessions leave a handler in a body there.
LEMMA LockStepStays ==
  ASSUME L!TypeOK, NEW h \in Host, LockStep(h), NEW g \in Host
  PROVE  \/ pc'[g] = pc[g] /\ req'[g] = req[g]
         \/ pc[g] \notin BodyOrUmount
<1> USE DEF L!TypeOK, BodyOrUmount
<1>1. CASE L!LockStep(h)
  BY <1>1
     DEF L!LockStep, L!LockSkip, L!LockNoCaller, L!LockCheck, L!NewMutex, L!Acquire,
         L!AcquireFail, L!Register, L!RegisterFail, L!UndoOk, L!UndoFail, L!Unlock,
         L!UnlockError, L!CountStay, L!CountLast, L!Goto, L!Return
<1>2. CASE L!SessionStep(h) \/ L!Start(h) \/ L!StartFail(h)
  BY <1>2
     DEF L!SessionStep, L!LeaseLost, L!SessionDone, L!Recreate, L!RecreateFail,
         L!Start, L!StartFail
<1>3. ASSUME NEW v \in Volume, NEW m \in L!Mode, NEW c \in Caller,
             L!BeginMount(h, v, m, c) \/ L!BeginUnmount(h, v, m, c)
      PROVE  \/ pc'[g] = pc[g] /\ req'[g] = req[g]
             \/ pc[g] \notin BodyOrUmount
  BY <1>3 DEF L!BeginMount, L!BeginUnmount, L!Goto
<1> QED
  BY <1>1, <1>2, <1>3 DEF LockStep

\* What TypeOK says beside L!TypeOK.
DevType ==
    /\ devs \in [Host -> SUBSET Mapping]
    /\ mnts \in [Host -> SUBSET Mount]
    /\ dirs \in [Host -> SUBSET Path]
    /\ at \in [Host -> {"out", "check", "rmount", "rumount", "recheck",
                        "mkdir", "mount", "drop", "unmap"}]
    /\ dev \in [Host -> Device \union {NoDev}]
    /\ scan \in [Host -> [Actor -> Scan]]
    /\ \A h \in Host : at[h] # "out" => dev[h] # NoDev /\ pc[h] \in BodyOrUmount

LEMMA NoScanType == NoScan \in Scan
BY DEF NoScan, Scan

LEMMA ScanErrorType ==
  ASSUME L!TypeOK, DevType, NEW h \in Host, NEW p \in Actor, ScanError(h, p),
         p = API => at[h] = "out"
  PROVE  /\ UNCHANGED <<mnts, dirs, at, dev>>
         /\ scan' = [scan EXCEPT ![h][p] = NoScan]
         /\ scan' \in [Host -> [Actor -> Scan]]
         /\ \A g \in Host : at'[g] # "out" => dev'[g] # NoDev /\ pc'[g] \in BodyOrUmount
<1>1. UNCHANGED <<mnts, dirs, at, dev>> /\ scan' = [scan EXCEPT ![h][p] = NoScan]
  BY DEF ScanError, SetScan
<1>2. \A g \in Host : g # h \/ p # API => pc'[g] = pc[g]
  BY DEF ScanError, L!BodyFail, L!UmountDone, L!Goto, L!Return, L!TypeOK, lockVars
<1> QED
  BY <1>1, <1>2, NoScanType DEF DevType

\* The handler calls currentVolumes before it does anything else.
APIScansFirst == \A h \in Host : scan[h][API].at # "off" => at[h] = "out"

LEMMA DevTypeScan ==
  ASSUME L!TypeOK, DevType, APIScansFirst, NEW h \in Host, NEW p \in Actor, ScanStep(h, p)
  PROVE  DevType'
<1> USE DEF DevType
<1>0. p = API /\ scan[h][p].at # "off" => at[h] = "out"
  BY DEF APIScansFirst
<1>1. CASE ListMapped(h, p)
  <2>1. PICK M : /\ M \subseteq {[dev |-> x.dev, vol |-> x.vol] : x \in devs[h]}
                 /\ scan' = [scan EXCEPT ![h][p] = [at |-> "mounts", mapped |-> M, found |-> {}]]
    BY <1>1 DEF ListMapped, SetScan
  <2>2. [at |-> "mounts", mapped |-> M, found |-> {}] \in Scan
    BY <2>1 DEF Scan, Mapping
  <2> QED
    BY <1>1, <2>1, <2>2 DEF ListMapped, lockVars
<1>2. CASE ListMounts(h, p)
  <2> DEFINE mounted == {x \in scan[h][p].mapped : MountedDev(h, x.dev)}
  <2>1. PICK mount \in [mounted -> mnts[h]] :
           SetScan(h, p,
                    [at |-> "reap",
                     mapped |-> scan[h][p].mapped \ mounted,
                     found |-> {[path |-> mount[x].path, vol |-> x.vol, dev |-> x.dev] :
                                  x \in mounted}])
    BY <1>2 DEF ListMounts
  <2>2. /\ scan[h][p] \in Scan
        /\ \A x \in mounted : x \in [dev: Device, vol: Volume] /\ mount[x] \in Mount
    BY DEF Scan
  <2>3. [at |-> "reap",
         mapped |-> scan[h][p].mapped \ mounted,
         found |-> {[path |-> mount[x].path, vol |-> x.vol, dev |-> x.dev] : x \in mounted}]
        \in Scan
    BY <2>2 DEF Scan, Mount, Found
  <2> QED
    BY <1>2, <2>1, <2>3 DEF ListMounts, SetScan, lockVars
<1>3. CASE ListFails(h, p)
  <2>1. p = API => at[h] = "out"
    BY <1>0, <1>3 DEF ListFails, MayScan
  <2> QED
    BY <1>3, <2>1, ScanErrorType DEF ListFails
<1>4. CASE Reap(h, p)
  <2>1. p = API => at[h] = "out"
    BY <1>0, <1>4 DEF Reap
  <2>2. PICK x \in scan[h][p].mapped :
          \/ /\ Unmap(h, x.dev)
             /\ SetScan(h, p, [scan[h][p] EXCEPT !.mapped = @ \ {x}])
             /\ UNCHANGED <<lockVars, mnts, dirs, at, dev>>
          \/ UnmapFails(h, x.dev) /\ ScanError(h, p)
    BY <1>4 DEF Reap
  <2>3. CASE UnmapFails(h, x.dev) /\ ScanError(h, p)
    <3>1. devs' \in [Host -> SUBSET Mapping]
      BY <2>3 DEF UnmapFails, Unmap
    <3> QED
      BY <2>1, <2>3, <3>1, ScanErrorType
  <2>4. CASE /\ Unmap(h, x.dev)
             /\ SetScan(h, p, [scan[h][p] EXCEPT !.mapped = @ \ {x}])
             /\ UNCHANGED <<lockVars, mnts, dirs, at, dev>>
    <3> DEFINE s == [scan[h][p] EXCEPT !.mapped = @ \ {x}]
    <3>1. scan[h][p] \in Scan
      OBVIOUS
    <3>2. s \in Scan
      BY <3>1 DEF Scan
    <3>3. scan' = [scan EXCEPT ![h][p] = s]
      BY <2>4 DEF SetScan
    <3>4. devs' \in [Host -> SUBSET Mapping]
      BY <2>4 DEF Unmap
    <3> HIDE DEF s
    <3>5. scan' \in [Host -> [Actor -> Scan]]
      BY <3>2, <3>3
    <3> QED
      BY <2>4, <3>4, <3>5 DEF lockVars
  <2> QED
    BY <2>2, <2>3, <2>4
<1>5. CASE Reply(h, p)
  BY <1>5, NoScanType DEF Reply, SetScan, lockVars
<1> QED
  BY <1>1, <1>2, <1>3, <1>4, <1>5 DEF ScanStep

LEMMA MoveTypes ==
  ASSUME L!TypeOK, DevType, APIScansFirst, NEW h \in Host, MountStep(h) \/ UnmountStep(h)
  PROVE  DevType'
<1> USE DEF DevType
<1> USE DEF Move, Leave, SetScan
<1>0. /\ req[h] # NoReq => PathOf(req[h]) \in Path
      /\ Scanned(h, API) => at[h] = "out"
      /\ NoScan \in Scan /\ API \in Actor
      /\ pc[h] # "idle" => req[h].vol \in Volume /\ req[h].mode \in L!Mode
  BY NoScanType
     DEF L!TypeOK, L!Request, Path, PathOf, APIScansFirst, Scanned, Actor
<1>m. ASSUME NEW d \in Device, MapTo(h, d), pc[h] # "idle"
      PROVE  devs' \in [Host -> SUBSET Mapping]
  <2>1. [dev |-> d, vol |-> req[h].vol, mode |-> req[h].mode] \in Mapping
    BY <1>0, <1>m DEF Mapping
  <2> QED
    BY <1>m, <2>1 DEF MapTo
<1>1. CASE MountReuse(h) \/ MapFail(h) \/ UmountFail(h)
  <2>1. /\ UNCHANGED <<dirs, at, dev>> /\ at[h] = "out"
        /\ scan' = [scan EXCEPT ![h][API] = NoScan]
        /\ \A g \in Host : g # h => pc'[g] = pc[g]
    BY <1>0, <1>1
       DEF MountReuse, MapFail, UmountFail, L!BodyOk, L!BodyFail, L!UmountDone, L!Goto,
           L!Return, L!TypeOK
  <2>2. devs' \in [Host -> SUBSET Mapping]
    BY <1>1, <1>m DEF MountReuse, MapFail, MapFails, UmountFail, L!BodyFail
  <2>3. mnts' \in [Host -> SUBSET Mount]
    BY <1>1 DEF MountReuse, MapFail, UmountFail, UnmountPathFails, UnmountPath
  <2> QED
    BY <1>0, <2>1, <2>2, <2>3
<1>2. CASE Map(h)
  <2>1. PICK d \in Device : MapTo(h, d) /\ dev' = [dev EXCEPT ![h] = d]
    BY <1>2 DEF Map
  <2>2. devs' \in [Host -> SUBSET Mapping]
    BY <1>2, <1>m, <2>1 DEF Map
  <2> QED
    BY <1>0, <1>2, <2>1, <2>2, DriverAssumption DEF Map, lockVars, BodyOrUmount
<1>3. CASE Check(h) \/ Recheck(h)
  BY <1>3 DEF Check, Recheck, lockVars
<1>4. CASE RepairMount(h) \/ MountFail(h) \/ RepairUmount(h)
  <2>1. mnts' \in [Host -> SUBSET Mount]
    <3>1. CASE MountPath(h) /\ at[h] # "out"
      <4>1. dev[h] \in Device /\ PathOf(req[h]) \in Path
        BY <3>1 DEF MountPath, Path
      <4>2. [dev |-> dev[h], path |-> PathOf(req[h])] \in Mount
        BY <4>1 DEF Mount
      <4> QED
        BY <3>1, <4>2 DEF MountPath
    <3>2. CASE UnmountPath(h)
      BY <3>2 DEF UnmountPath
    <3> QED
      BY <1>4, <3>1, <3>2 DEF RepairMount, RepairUmount, MountFail, MountPathFails, UnmountPathFails
  <2> QED
    BY <1>4, <2>1 DEF RepairMount, RepairUmount, MountFail, lockVars
<1>p. at[h] # "out" => PathOf(req[h]) \in Path
  BY <1>0 DEF BodyOrUmount, Path, PathOf
<1>5. CASE MkDir(h)
  <2>1. dirs' \in [Host -> SUBSET Path]
    BY <1>5, <1>p DEF MkDir
  <2> QED
    BY <1>5, <2>1 DEF MkDir, lockVars
<1>6. CASE MountOk(h)
  <2>1. dev[h] \in Device /\ PathOf(req[h]) \in Path
    BY <1>6 DEF MountOk, MountPath, Path
  <2>2. [dev |-> dev[h], path |-> PathOf(req[h])] \in Mount
    BY <2>1 DEF Mount
  <2>3. \A g \in Host : g # h => pc'[g] = pc[g]
    BY <1>6 DEF MountOk, L!BodyOk, L!Return, L!Goto, L!TypeOK
  <2> QED
    BY <1>6, <2>2, <2>3 DEF MountOk, MountPath
<1>7. CASE Drop(h) \/ UnmapLast(h)
  <2>1. devs' \in [Host -> SUBSET Mapping]
    BY <1>7 DEF Drop, UnmapLast, Unmap, UnmapFails
  <2>2. \A g \in Host : g # h => pc'[g] = pc[g]
    BY <1>7 DEF Drop, UnmapLast, L!BodyFail, L!UmountDone, L!Return, L!Goto, L!TypeOK
  <2> QED
    BY <1>7, <2>1, <2>2 DEF Drop, UnmapLast
<1>8. CASE UmountOk(h)
  <2>1. PICK f \in FoundHere(h) : dev' = [dev EXCEPT ![h] = f.dev]
    BY <1>8 DEF UmountOk
  <2>2. f.dev \in Device
    <3>1. scan[h][API] \in Scan
      BY <1>0
    <3>2. f \in Found
      BY <3>1 DEF FoundHere, Scan
    <3> QED
      BY <3>2 DEF Found
  <2>3. mnts' \in [Host -> SUBSET Mount]
    BY <1>8 DEF UmountOk, UnmountPath
  <2> QED
    BY <1>0, <1>8, <2>1, <2>2, <2>3, DriverAssumption DEF UmountOk, lockVars, BodyOrUmount
<1> QED
  BY <1>1, <1>2, <1>3, <1>4, <1>5, <1>6, <1>7, <1>8 DEF MountStep, UnmountStep

LEMMA DevTypeStep ==
  ASSUME L!TypeOK, DevType, APIScansFirst, [Next]_vars
  PROVE  DevType'
<1>1. CASE UNCHANGED vars
  BY <1>1 DEF vars, lockVars, devVars, DevType
<1>2. ASSUME NEW h \in Host, LockStep(h) PROVE DevType'
  BY <1>2, LockStepStays DEF LockStep, devVars, DevType
<1>3. ASSUME NEW h \in Host, Crash(h) \/ Reboot(h) PROVE DevType'
  <2>1. scan' = [scan EXCEPT ![h] = [p \in Actor |-> NoScan]]
    BY <1>3 DEF Crash, Reboot, ProcessGone
  <2>2. [p \in Actor |-> NoScan] \in [Actor -> Scan]
    BY NoScanType
  <2>3. scan' \in [Host -> [Actor -> Scan]]
    BY <2>1, <2>2 DEF DevType
  <2>4. \A g \in Host : g # h => pc'[g] = pc[g]
    BY <1>3 DEF Crash, Reboot, L!Crash, L!Reboot, L!ProcessGone, L!TypeOK
  <2> QED
    BY <1>3, <2>3, <2>4 DEF Crash, Reboot, ProcessGone, Leave, Move, DevType
<1>4. LeaseStep => DevType'
  BY DEF LeaseStep, L!AbandonedLeaseEnds, devVars, DevType
<1> QED
  BY <1>1, <1>2, <1>3, <1>4, MoveTypes, DevTypeScan DEF Next

LEMMA APIScansFirstStep ==
  ASSUME DevType, APIScansFirst, [Next]_vars
  PROVE  APIScansFirst'
<1> USE DEF DevType, APIScansFirst
<1>0. API \in Actor /\ NoScan.at = "off"
  BY DEF Actor, NoScan
<1>1. CASE UNCHANGED vars
  BY <1>1 DEF vars, devVars
<1>2. ASSUME NEW h \in Host, LockStep(h) \/ LeaseStep PROVE APIScansFirst'
  BY <1>2 DEF LockStep, LeaseStep, devVars
<1>3. ASSUME NEW h \in Host, Crash(h) \/ Reboot(h) PROVE APIScansFirst'
  BY <1>0, <1>3 DEF Crash, Reboot, ProcessGone, Leave, Move
<1>4. ASSUME NEW h \in Host, MountStep(h) \/ UnmountStep(h) PROVE APIScansFirst'
  <2>1. CASE MountReuse(h) \/ Map(h) \/ MapFail(h) \/ UmountOk(h) \/ UmountFail(h)
    <3>1. /\ scan' = [scan EXCEPT ![h][API] = NoScan]
          /\ UNCHANGED at \/ \E place : at' = [at EXCEPT ![h] = place]
      BY <2>1 DEF MountReuse, Map, MapFail, UmountOk, UmountFail, SetScan, Move
    <3> QED
      BY <1>0, <3>1
  <2>2. CASE Check(h) \/ RepairMount(h) \/ RepairUmount(h) \/ Recheck(h)
             \/ MkDir(h) \/ MountFail(h)
    BY <2>2
       DEF Check, RepairMount, RepairUmount, Recheck, MkDir, MountFail, Move
  <2>3. CASE MountOk(h) \/ Drop(h) \/ UnmapLast(h)
    BY <2>3 DEF MountOk, Drop, UnmapLast, Leave, Move
  <2> QED
    BY <1>4, <2>1, <2>2, <2>3 DEF MountStep, UnmountStep
<1>5. ASSUME NEW h \in Host, NEW p \in Actor, ScanStep(h, p) PROVE APIScansFirst'
  <2>1. PICK s : scan' = [scan EXCEPT ![h][p] = s]
    BY <1>5 DEF ScanStep, ListMapped, ListMounts, ListFails, Reap, Reply, ScanError, SetScan
  <2>2. UNCHANGED at
    BY <1>5 DEF ScanStep, ListMapped, ListMounts, ListFails, Reap, Reply, ScanError
  <2>3. \/ p = API /\ at[h] = "out"
        \/ p # API
        \/ s.at = "off"
    BY <1>0, <1>5, <2>1
       DEF ScanStep, ListMapped, ListMounts, ListFails, Reap, Reply, ScanError, SetScan, MayScan
  <2> QED
    BY <2>1, <2>2, <2>3
<1> QED
  BY <1>1, <1>2, <1>3, <1>4, <1>5 DEF Next

(***************************************************************************)
(* Devices, mounts and handlers keep their shape; a handler with a device  *)
(* of its own is in a body, and has one.                                   *)
(***************************************************************************)
THEOREM TypeCorrect == Spec => []TypeOK
<1>1. Spec => []L!TypeOK
  BY LocksRefinement, SameSpec, SameType, Assumptions, LP!TypeCorrect, PTL DEF ImplementsLocks
<1>2. Init => DevType /\ APIScansFirst
  <2>1. Init => DevType
    BY NoScanType DEF Init, DevType
  <2>2. Init => APIScansFirst
    BY DEF Init, APIScansFirst, NoScan, Actor
  <2> QED
    BY <2>1, <2>2
<1>3. L!TypeOK /\ DevType /\ APIScansFirst /\ [Next]_vars => (DevType /\ APIScansFirst)'
  BY DevTypeStep, APIScansFirstStep
<1>4. L!TypeOK /\ DevType => TypeOK
  BY DEF DevType, TypeOK, BodyOrUmount
<1> QED
  BY <1>1, <1>2, <1>3, <1>4, PTL DEF Spec

-----------------------------------------------------------------------------
(***************************************************************************)
(* Devices and mounts.                                                     *)
(***************************************************************************)
\* A host to which nothing happens but steps of the lock protocol.
LEMMA HostStays ==
  ASSUME TypeOK, NEW g \in Host, HostInv(g),
         devs'[g] = devs[g], mnts'[g] = mnts[g], at'[g] = at[g], dev'[g] = dev[g],
         scan'[g][API] = scan[g][API],
         (pc'[g] = pc[g] /\ req'[g] = req[g]) \/ pc[g] \notin BodyOrUmount
  PROVE  HostInv(g)'
<1> USE DEF HostInv
<1>1. DevicesFit(g)'
  BY DEF DevicesFit
<1>2. pc[g] \notin BodyOrUmount => at[g] = "out" /\ scan[g][API].at = "off"
  BY DEF TypeOK, BodyOrUmount, ListFits
<1>3. ListFits(g)'
  BY <1>2 DEF ListFits, MountedDev, BodyOrUmount
<1>4. BodyFits(g)'
  BY <1>2 DEF BodyFits, MountedDev, PathOf
<1>5. BodyKeepsDevice(g)'
  BY DEF BodyKeepsDevice, MountedDev, Mapped
<1> QED
  BY <1>1, <1>3, <1>4, <1>5

LEMMA OtherHosts ==
  ASSUME TypeOK, NEW h \in Host, NEW g \in Host, g # h,
         \/ MountStep(h) \/ UnmountStep(h) \/ Crash(h) \/ Reboot(h)
         \/ \E p \in Actor : ScanStep(h, p)
  PROVE  /\ devs'[g] = devs[g] /\ mnts'[g] = mnts[g] /\ at'[g] = at[g] /\ dev'[g] = dev[g]
         /\ scan'[g] = scan[g] /\ pc'[g] = pc[g] /\ req'[g] = req[g]
<1> USE DEF TypeOK, L!TypeOK, Move, Leave, SetScan, L!Goto, L!Return
<1>1. CASE Crash(h) \/ Reboot(h)
  BY <1>1 DEF Crash, Reboot, ProcessGone, L!Crash, L!Reboot, L!ProcessGone
<1>2. CASE MountReuse(h) \/ Map(h) \/ MapFail(h) \/ UmountFail(h) \/ UmountOk(h)
  BY <1>2
     DEF MountReuse, Map, MapTo, MapFails, MapFail, UmountFail, UmountOk, UnmountPath,
         UnmountPathFails, L!BodyOk, L!BodyFail, L!UmountDone, lockVars
<1>3. CASE Check(h) \/ RepairMount(h) \/ RepairUmount(h) \/ Recheck(h) \/ MkDir(h)
           \/ MountFail(h)
  BY <1>3
     DEF Check, RepairMount, RepairUmount, Recheck, MkDir, MountFail, MountPath,
         MountPathFails, UnmountPath, UnmountPathFails, lockVars
<1>4. CASE MountOk(h) \/ Drop(h) \/ UnmapLast(h)
  BY <1>4
     DEF MountOk, Drop, UnmapLast, MountPath, Unmap, UnmapFails, L!BodyOk, L!BodyFail,
         L!UmountDone
<1>5. ASSUME NEW p \in Actor, ScanStep(h, p)
      PROVE  /\ devs'[g] = devs[g] /\ mnts'[g] = mnts[g] /\ at'[g] = at[g] /\ dev'[g] = dev[g]
             /\ scan'[g] = scan[g] /\ pc'[g] = pc[g] /\ req'[g] = req[g]
  <2>1. \E s : scan' = [scan EXCEPT ![h][p] = s]
    BY <1>5 DEF ScanStep, ListMapped, ListMounts, ListFails, Reap, Reply, ScanError
  <2>2. devs'[g] = devs[g] /\ UNCHANGED <<mnts, at, dev>>
    BY <1>5
       DEF ScanStep, ListMapped, ListMounts, ListFails, Reap, Reply, ScanError, Unmap, UnmapFails
  <2>3. UNCHANGED lockVars \/ L!BodyFail(h) \/ L!UmountDone(h)
    BY <1>5 DEF ScanStep, ListMapped, ListMounts, ListFails, Reap, Reply, ScanError
  <2>4. pc'[g] = pc[g] /\ req'[g] = req[g]
    BY <2>3 DEF L!BodyFail, L!UmountDone, lockVars
  <2> QED
    BY <2>1, <2>2, <2>4
<1> QED
  BY <1>1, <1>2, <1>3, <1>4, <1>5 DEF MountStep, UnmountStep

\* What unmapping an unmounted device leaves true.
Reaped(h, d) == ~MountedDev(h, d) /\ devs' = [devs EXCEPT ![h] = {x \in devs[h] : x.dev # d}]

LEMMA UnmapReaps ==
  ASSUME NEW h \in Host, NEW d, Kernel \/ ~MountedDev(h, d), Unmap(h, d) \/ UnmapFails(h, d)
  PROVE  UNCHANGED devs \/ Reaped(h, d)
BY DEF Unmap, UnmapFails, Reaped

\* List and Path unmap devices at any moment.
LEMMA ReaderStep ==
  ASSUME TypeOK, Reliable, NEW h \in Host, HostInv(h), NEW p \in Reader, ScanStep(h, p)
  PROVE  HostInv(h)'
<1> USE DEF HostInv
<1>1. p # API /\ p \in Actor /\ API \in Actor /\ Kernel
  BY DriverAssumption DEF Actor, Reliable
<1>2. /\ UNCHANGED <<lockVars, mnts, at, dev>>
      /\ UNCHANGED devs \/ \E d : Reaped(h, d)
      /\ \E s : scan' = [scan EXCEPT ![h][p] = s]
  BY <1>1, UnmapReaps
     DEF ScanStep, ListMapped, ListMounts, ListFails, Reap, Reply, ScanError, SetScan
<1>3. scan'[h][API] = scan[h][API] /\ pc' = pc /\ req' = req
  BY <1>1, <1>2 DEF TypeOK, lockVars
<1>4. CASE UNCHANGED devs
  BY <1>2, <1>3, <1>4, HostStays
<1>5. ASSUME NEW d, Reaped(h, d) PROVE HostInv(h)'
  <2>1. /\ devs'[h] \subseteq devs[h]
        /\ \A x \in devs[h] : x \in devs'[h] \/ ~MountedDev(h, x.dev)
        /\ \A e : MountedDev(h, e)' <=> MountedDev(h, e)
    BY <1>2, <1>5 DEF Reaped, TypeOK, MountedDev
  <2>2. DevicesFit(h)'
    BY <1>2, <2>1 DEF DevicesFit, MountedDev
  <2>3. ListFits(h)'
    BY <1>2, <1>3, <2>1 DEF ListFits, MountedDev
  <2>4. BodyFits(h)'
    BY <1>2, <1>3, <2>1 DEF BodyFits, MountedDev, PathOf
  <2> QED
    BY <1>1, <2>2, <2>3, <2>4 DEF BodyKeepsDevice
<1> QED
  BY <1>2, <1>4, <1>5

\* A handler that ends its call of currentVolumes with no device of its own.
LEMMA ScanEnds ==
  ASSUME TypeOK, NEW h \in Host, HostInv(h), at[h] = "out", DevicesFit(h)',
         UNCHANGED <<at, dev>>, scan' = [scan EXCEPT ![h][API] = NoScan],
         pc'[h] \notin BodyOrUmount
  PROVE  HostInv(h)'
<1>1. scan'[h][API].at = "off" /\ at'[h] = "out"
  BY DEF TypeOK, NoScan, Actor
<1> QED
  BY <1>1 DEF HostInv, ListFits, BodyFits, BodyKeepsDevice, BodyOrUmount

\* Devices are unmapped and paths unmounted one by one.
LEMMA FewerFit ==
  ASSUME TypeOK, NEW h \in Host, DevicesFit(h),
         \/ UNCHANGED devs /\ mnts'[h] \subseteq mnts[h]
         \/ UNCHANGED mnts /\ \E d : Reaped(h, d)
  PROVE  DevicesFit(h)'
<1>1. CASE UNCHANGED devs /\ mnts'[h] \subseteq mnts[h]
  BY <1>1 DEF DevicesFit
<1>2. ASSUME NEW d, UNCHANGED mnts, Reaped(h, d) PROVE DevicesFit(h)'
  BY <1>2 DEF DevicesFit, Reaped, MountedDev, TypeOK
<1> QED
  BY <1>1, <1>2

\* And mapped one by one.
LEMMA MapFits ==
  ASSUME TypeOK, NEW h \in Host, DevicesFit(h), NEW d \in Device, MapTo(h, d), UNCHANGED mnts
  PROVE  DevicesFit(h)'
<1> DEFINE new == [dev |-> d, vol |-> req[h].vol, mode |-> req[h].mode]
<1>1. devs'[h] = devs[h] \union {new} /\ new.dev = d
  BY DEF MapTo, TypeOK
<1>2. \A x \in devs[h] : x.dev # d
  BY DEF MapTo, Mapped
<1> HIDE DEF new
<1> QED
  BY <1>1, <1>2 DEF DevicesFit

\* The handler's own call of currentVolumes.
LEMMA APIStep ==
  ASSUME TypeOK, Reliable, NEW h \in Host, HostInv(h), ScanStep(h, API)
  PROVE  HostInv(h)'
<1> USE DEF HostInv
<1>0. API \in Actor /\ API \notin Reader /\ scan[h][API] \in Scan
  BY DriverAssumption DEF Actor, TypeOK
<1>1. CASE ListMapped(h, API)
  <2> DEFINE M == {Line(x) : x \in devs[h]}
  <2>1. /\ scan' = [scan EXCEPT ![h][API] = [at |-> "mounts", mapped |-> M, found |-> {}]]
        /\ UNCHANGED <<lockVars, devs, mnts, at, dev>>
        /\ pc[h] \in {"body", "umount"} /\ at[h] = "out"
    BY <1>1 DEF ListMapped, SetScan, MayScan, Line, Reliable
  <2>2. scan'[h][API] = [at |-> "mounts", mapped |-> M, found |-> {}]
    BY <1>0, <2>1 DEF TypeOK
  <2>3. \A y \in M, x \in devs[h] : y.dev = x.dev => y = Line(x)
    BY DEF DevicesFit, Line
  <2> HIDE DEF M
  <2>4. DevicesFit(h)' /\ BodyFits(h)' /\ BodyKeepsDevice(h)'
    BY <2>1 DEF DevicesFit, BodyFits, BodyKeepsDevice, lockVars, MountedDev, Mapped
  <2>5. \A x \in devs[h] : Line(x) \in M
    BY DEF M
  <2>6. ListFits(h)'
    BY <2>1, <2>2, <2>3, <2>5 DEF ListFits, lockVars, Line
  <2> QED
    BY <2>4, <2>6
<1>2. CASE ListMounts(h, API)
  <2> DEFINE mapped == scan[h][API].mapped
             mounted == {x \in mapped : MountedDev(h, x.dev)}
  <2>1. PICK mount \in [mounted -> mnts[h]] :
              /\ \A x \in mounted : mount[x].dev = x.dev
              /\ SetScan(h, API,
                    [at |-> "reap",
                     mapped |-> mapped \ mounted,
                     found |-> {[path |-> mount[x].path, vol |-> x.vol, dev |-> x.dev] :
                                  x \in mounted}])
    BY <1>2 DEF ListMounts
  <2> DEFINE found == {[path |-> mount[x].path, vol |-> x.vol, dev |-> x.dev] : x \in mounted}
  <2>2. scan'[h][API] = [at |-> "reap", mapped |-> mapped \ mounted, found |-> found]
    BY <1>0, <2>1 DEF SetScan, TypeOK
  <2>3. UNCHANGED <<lockVars, devs, mnts, at, dev>> /\ scan[h][API].at = "mounts"
    BY <1>2 DEF ListMounts
  <2>4. /\ \A x \in devs[h] : Line(x) \in mapped
        /\ \A y \in mapped, x \in devs[h] : y.dev = x.dev => y = Line(x)
    BY <2>3 DEF ListFits
  <2>5. \A x \in devs[h] : Line(x) \in mapped \ mounted \/ MountedDev(h, x.dev)
    BY <2>4 DEF Line
  <2>6. \A m \in mnts[h] : \E f \in found : f.path = m.path
    <3> TAKE m \in mnts[h]
    <3>1. PICK x \in devs[h] : x.dev = m.dev
      BY DEF DevicesFit
    <3>2. Line(x) \in mounted
      BY <2>4, <3>1 DEF Line, MountedDev
    <3>3. mount[Line(x)] = m
      BY <2>1, <3>1, <3>2 DEF Line, DevicesFit
    <3> DEFINE y == Line(x)
               f == [path |-> mount[y].path, vol |-> y.vol, dev |-> y.dev]
    <3>4. f \in found
      BY <3>2
    <3>5. f.path = m.path
      BY <3>3
    <3> HIDE DEF f
    <3> QED
      BY <3>4, <3>5
  <2>7. ASSUME NEW y \in mounted
        PROVE  /\ [dev |-> y.dev, path |-> mount[y].path] \in mnts[h]
               /\ mount[y].path[1] = y.vol
               /\ \E x \in devs[h] : x.dev = y.dev /\ x.vol = y.vol
    <3>1. mount[y] \in mnts[h] /\ mount[y].dev = y.dev /\ mount[y] \in Mount
      BY <2>1, <2>7 DEF TypeOK
    <3>2. mount[y] = [dev |-> y.dev, path |-> mount[y].path]
      BY <3>1 DEF Mount
    <3>3. PICK x \in devs[h] : x.dev = y.dev /\ x.vol = mount[y].path[1]
      <4>1. PICK x \in devs[h] : x.dev = y.dev /\ <<x.vol, x.mode>> = mount[y].path
        BY <3>1 DEF DevicesFit
      <4> QED
        BY <4>1
    <3>4. y.vol = x.vol
      BY <2>4, <2>7, <3>3 DEF Line
    <3> QED
      BY <3>1, <3>2, <3>3, <3>4
  <2>8. \A f \in found :
           /\ [dev |-> f.dev, path |-> f.path] \in mnts[h]
           /\ f.path[1] = f.vol
           /\ \E x \in devs[h] : x.dev = f.dev /\ x.vol = f.vol
    BY <2>7
  <2>9. pc[h] \in {"body", "umount"} /\ at[h] = "out"
    BY <2>3 DEF ListFits
  <2>10. \A y \in mapped \ mounted : ~MountedDev(h, y.dev)
    OBVIOUS
  <2> HIDE DEF found, mapped, mounted
  <2>11. DevicesFit(h)' /\ BodyFits(h)' /\ BodyKeepsDevice(h)'
    BY <2>3 DEF DevicesFit, BodyFits, BodyKeepsDevice, lockVars, MountedDev, Mapped
  <2>12. ListFits(h)'
    BY <2>2, <2>3, <2>5, <2>6, <2>8, <2>9, <2>10 DEF ListFits, lockVars, MountedDev, Line
  <2> QED
    BY <2>11, <2>12
<1>3. ASSUME ScanError(h, API), UNCHANGED devs \/ \E d : Reaped(h, d),
             MayScan(h, API) \/ scan[h][API].at # "off"
      PROVE  HostInv(h)'
  <2>1. /\ at[h] = "out" /\ UNCHANGED <<mnts, at, dev>>
        /\ scan' = [scan EXCEPT ![h][API] = NoScan]
        /\ pc'[h] \in {"undo", "idle"}
    BY <1>3
       DEF ScanError, SetScan, MayScan, ListFits, L!BodyFail, L!UmountDone, L!Goto, L!Return,
           TypeOK, L!TypeOK
  <2>2. DevicesFit(h)'
    BY <1>3, <2>1, FewerFit
  <2> QED
    BY <2>1, <2>2, ScanEnds DEF BodyOrUmount
<1>4. CASE Reap(h, API)
  <2>1. PICK x \in scan[h][API].mapped :
          \/ /\ Unmap(h, x.dev)
             /\ SetScan(h, API, [scan[h][API] EXCEPT !.mapped = @ \ {x}])
             /\ UNCHANGED <<lockVars, mnts, dirs, at, dev>>
          \/ UnmapFails(h, x.dev) /\ ScanError(h, API)
    BY <1>4 DEF Reap
  <2>2. CASE UnmapFails(h, x.dev) /\ ScanError(h, API)
    <3>1. ~MountedDev(h, x.dev)
      BY <1>4 DEF Reap, ListFits
    <3>2. UNCHANGED devs \/ Reaped(h, x.dev)
      BY <2>2, <3>1, UnmapReaps
    <3> QED
      BY <1>3, <1>4, <2>2, <3>2 DEF Reap
  <2>3. CASE /\ Unmap(h, x.dev)
             /\ SetScan(h, API, [scan[h][API] EXCEPT !.mapped = @ \ {x}])
             /\ UNCHANGED <<lockVars, mnts, dirs, at, dev>>
    <3>0. ~MountedDev(h, x.dev)
      BY <1>4 DEF Reap, ListFits
    <3>1. /\ devs'[h] = {y \in devs[h] : y.dev # x.dev} /\ ~MountedDev(h, x.dev)
          /\ pc' = pc /\ req' = req
      BY <2>3, <3>0 DEF Unmap, TypeOK, lockVars
    <3>2. /\ scan'[h][API].at = scan[h][API].at
          /\ scan'[h][API].found = scan[h][API].found
          /\ scan'[h][API].mapped = scan[h][API].mapped \ {x}
      BY <1>0, <2>3 DEF SetScan, TypeOK, Scan
    <3>3. scan[h][API].at = "reap"
      BY <1>4 DEF Reap
    <3>4. DevicesFit(h)'
      BY <2>3, <3>1 DEF DevicesFit, MountedDev
    <3>5. ListFits(h)'
      BY <2>3, <3>1, <3>2, <3>3 DEF ListFits, MountedDev, Line
    <3>6. BodyFits(h)'
      BY <2>3, <3>1, <3>3 DEF BodyFits, ListFits, MountedDev, PathOf
    <3>7. BodyKeepsDevice(h)'
      BY <2>3, <3>3 DEF BodyKeepsDevice, ListFits
    <3> QED
      BY <3>4, <3>5, <3>6, <3>7
  <2> QED
    BY <2>1, <2>2, <2>3
<1>5. CASE ListFails(h, API)
  BY <1>3, <1>5 DEF ListFails
<1> QED
  BY <1>0, <1>1, <1>2, <1>4, <1>5 DEF ScanStep, Reply

\* mountDeviceToPath, where nothing is mounted yet.
LEMMA MountFits ==
  ASSUME TypeOK, NEW h \in Host, HostInv(h), at[h] \in {"rmount", "mount"}, MountPath(h),
         UNCHANGED devs
  PROVE  DevicesFit(h)'
<1> DEFINE m == [dev |-> dev[h], path |-> PathOf(req[h])]
<1>1. mnts'[h] = mnts[h] \union {m}
  BY DEF MountPath, TypeOK
<1>2. \A n \in mnts[h] : n.dev # dev[h] /\ n.path # PathOf(req[h])
  BY DEF HostInv, BodyFits, MountedDev
<1>3. PICK x \in devs[h] : x.dev = dev[h]
  BY DEF MountPath, Mapped
<1>4. <<x.vol, x.mode>> = PathOf(req[h])
  BY <1>3 DEF HostInv, BodyFits, TypeOK, PathOf
<1> QED
  BY <1>1, <1>2, <1>3, <1>4 DEF HostInv, DevicesFit

LEMMA BodyStep ==
  ASSUME TypeOK, Reliable, NEW h \in Host, HostInv(h), MountStep(h) \/ UnmountStep(h)
  PROVE  HostInv(h)'
<1> USE DEF HostInv, Move, Leave, SetScan
<1>0. API \in Actor
  BY DEF Actor
<1>1. Scanned(h, API) =>
        /\ pc[h] \in {"body", "umount"} /\ at[h] = "out"
        /\ \A x \in devs[h] : MountedDev(h, x.dev)
        /\ \A m \in mnts[h] : \E f \in scan[h][API].found : f.path = m.path
        /\ \A f \in scan[h][API].found : [dev |-> f.dev, path |-> f.path] \in mnts[h]
  BY DEF Scanned, ListFits
<1>2. at[h] # "out" => /\ pc[h] \in {"body", "umount"}
                       /\ at[h] # "unmap" => pc[h] = "body"
                       /\ scan[h][API].at = "off"
  BY <1>0 DEF TypeOK, BodyFits, ListFits, Scan
<1>3. CASE MountReuse(h) \/ MapFail(h) \/ UmountFail(h)
  <2>1. /\ at[h] = "out" /\ UNCHANGED <<at, dev>>
        /\ scan' = [scan EXCEPT ![h][API] = NoScan]
        /\ pc'[h] \in {"idle", "undo"}
    BY <1>1, <1>3
       DEF MountReuse, MapFail, UmountFail, L!BodyOk, L!BodyFail, L!UmountDone, L!Goto,
           L!Return, TypeOK, L!TypeOK
  <2>2. \/ UNCHANGED devs /\ mnts'[h] \subseteq mnts[h]
        \/ UNCHANGED mnts /\ \E d \in Device : MapTo(h, d)
    BY <1>3
       DEF MountReuse, MapFail, MapFails, UmountFail, UnmountPathFails, UnmountPath, TypeOK
  <2>3. DevicesFit(h)'
    BY <2>2, FewerFit, MapFits
  <2> QED
    BY <2>1, <2>3, ScanEnds DEF BodyOrUmount
<1>4. CASE Map(h)
  <2>1. PICK d \in Device : MapTo(h, d) /\ dev' = [dev EXCEPT ![h] = d]
    BY <1>4 DEF Map
  <2> DEFINE new == [dev |-> d, vol |-> req[h].vol, mode |-> req[h].mode]
  <2>2. /\ devs'[h] = devs[h] \union {new} /\ dev'[h] = d /\ at'[h] = "check"
        /\ mnts' = mnts /\ pc' = pc /\ req' = req /\ pc[h] = "body"
        /\ scan'[h][API].at = "off"
    BY <1>0, <1>4, <2>1 DEF Map, MapTo, TypeOK, lockVars, NoScan
  <2>3. \A x \in devs[h] : x.dev # d
    BY <2>1 DEF MapTo, Mapped
  <2>4. \A m \in mnts[h] : m.dev # d
    BY <2>3 DEF DevicesFit
  <2>5. \A m \in mnts[h] : m.path # PathOf(req[h])
    BY <1>1, <1>4 DEF Map, FoundHere
  <2>6. DevicesFit(h)'
    BY <2>1, <2>2, MapFits
  <2>7. ListFits(h)'
    BY <2>2 DEF ListFits
  <2>8. BodyFits(h)'
    <3>1. \A x \in devs[h] : MountedDev(h, x.dev)
      BY <1>1, <1>4 DEF Map
    <3> QED
      BY <2>2, <2>3, <2>4, <2>5, <3>1 DEF BodyFits, MountedDev, PathOf
  <2>9. BodyKeepsDevice(h)'
    <3>1. new \in devs'[h] /\ new.dev = dev'[h]
      BY <2>2
    <3> HIDE DEF new
    <3> QED
      BY <2>2, <3>1 DEF BodyKeepsDevice, Mapped
  <2> QED
    BY <2>6, <2>7, <2>8, <2>9
<1>5. CASE Check(h) \/ Recheck(h) \/ MkDir(h)
           \/ (MountFail(h) /\ UNCHANGED mnts)
           \/ (RepairMount(h) /\ UNCHANGED mnts) \/ (RepairUmount(h) /\ UNCHANGED mnts)
  <2>1. /\ UNCHANGED <<devs, mnts, dev, scan>> /\ pc' = pc /\ req' = req
        /\ \/ at[h] \in {"check", "recheck", "mkdir", "rmount", "mount"}
              /\ at'[h] \in {"mkdir", "rmount", "mount", "drop"}
           \/ at[h] = "rumount" /\ at'[h] = "drop"
           \/ at[h] = "rmount" /\ MountPath(h)
           \/ at[h] = "rumount" /\ UnmountPath(h)
    BY <1>5
       DEF Check, Recheck, MkDir, MountFail, RepairMount, RepairUmount, MountPathFails,
           lockVars, TypeOK
  <2>2. ~(at[h] = "rmount" /\ MountPath(h)) /\ ~(at[h] = "rumount" /\ UnmountPath(h))
    <3>1. at[h] = "rmount" => [dev |-> dev[h], path |-> PathOf(req[h])] \notin mnts[h]
      BY DEF BodyFits
    <3> QED
      BY <2>1, <3>1 DEF MountPath, UnmountPath, TypeOK
  <2>3. at'[h] # "out" /\ at'[h] # "unmap" /\ at'[h] # "rumount" /\ at[h] # "out"
    BY <2>1, <2>2
  <2>4. DevicesFit(h)' /\ ListFits(h)'
    BY <1>2, <2>1, <2>3 DEF DevicesFit, ListFits, MountedDev
  <2>5. BodyFits(h)'
    BY <1>2, <2>1, <2>2, <2>3 DEF BodyFits, MountedDev, PathOf
  <2>6. ~Kernel => at[h] # "rumount"
    <3>1. ~Kernel /\ at[h] = "rumount" => "umount" \notin CmdFaults
      BY DEF BodyKeepsDevice, Reliable
    <3>2. ~Kernel /\ at[h] = "rumount" => ~UnmountPathFails(h)
      <4> DEFINE m == [dev |-> dev[h], path |-> PathOf(req[h])]
      <4>1. at[h] = "rumount" => m \in mnts[h] /\ m.path = PathOf(req[h])
        BY DEF BodyFits
      <4> HIDE DEF m
      <4> QED
        BY <3>1, <4>1, DriverAssumption DEF UnmountPathFails
    <3> QED
      BY <1>5, <2>2, <3>2 DEF Check, Recheck, MkDir, MountFail, RepairMount, RepairUmount
  <2>7. ~Kernel /\ at'[h] = "rmount" => "check" \in CmdFaults
    BY <1>5, <2>6
       DEF Check, Recheck, MkDir, MountFail, RepairMount, RepairUmount, BodyKeepsDevice, TypeOK
  <2>8. BodyKeepsDevice(h)'
    <3>1. ~Kernel => ~MountedDev(h, dev[h])
      BY <2>1, <2>2, <2>6 DEF BodyFits
    <3>2. at'[h] \in {"mkdir", "rmount", "mount", "drop"}
      BY <2>1, <2>2
    <3> QED
      BY <2>1, <2>7, <3>1, <3>2 DEF BodyKeepsDevice, MountedDev
  <2> QED
    BY <2>4, <2>5, <2>8
<1>6. CASE RepairMount(h) /\ MountPath(h)
  <2>1. /\ mnts'[h] = mnts[h] \union {[dev |-> dev[h], path |-> PathOf(req[h])]}
        /\ at[h] = "rmount" /\ at'[h] \in {"rumount", "drop"}
        /\ UNCHANGED <<devs, dev, scan>> /\ pc' = pc /\ req' = req
    BY <1>6 DEF RepairMount, MountPath, TypeOK, lockVars
  <2>2. DevicesFit(h)'
    BY <1>6, <2>1, MountFits
  <2>3. ListFits(h)'
    BY <1>2, <2>1 DEF ListFits
  <2>4. BodyFits(h)'
    BY <1>2, <2>1 DEF BodyFits, MountedDev, PathOf
  <2>5. BodyKeepsDevice(h)'
    <3>1. mnts' # mnts
      <4> DEFINE m == [dev |-> dev[h], path |-> PathOf(req[h])]
      <4>0. mnts'[h] = mnts[h] \union {m} /\ m.path = PathOf(req[h])
        BY <2>1
      <4> HIDE DEF m
      <4> QED
        BY <2>1, <4>0 DEF BodyFits
    <3>2. ~Kernel => at'[h] = "rumount"
      BY <1>6, <2>1, <3>1 DEF RepairMount, MountPathFails, Reliable, TypeOK
    <3> QED
      BY <2>1, <3>2 DEF BodyKeepsDevice
  <2> QED
    BY <2>2, <2>3, <2>4, <2>5
<1>7. CASE RepairUmount(h) /\ UnmountPath(h)
  <2>1. PICK m \in mnts[h] : m.path = PathOf(req[h]) /\ mnts'[h] = mnts[h] \ {m}
    BY <1>7 DEF UnmountPath, TypeOK
  <2>2. /\ at[h] = "rumount" /\ at'[h] \in {"recheck", "drop"}
        /\ UNCHANGED <<devs, dev, scan>> /\ pc' = pc /\ req' = req
    BY <1>7 DEF RepairUmount, TypeOK, lockVars
  <2>3. m.dev = dev[h]
    <3> DEFINE own == [dev |-> dev[h], path |-> PathOf(req[h])]
    <3>1. own \in mnts[h] /\ own.path = PathOf(req[h]) /\ own.dev = dev[h]
      BY <2>2 DEF BodyFits
    <3> HIDE DEF own
    <3> QED
      BY <2>1, <3>1 DEF DevicesFit
  <2>4. \A n \in mnts[h] : n.dev = dev[h] \/ n.path = PathOf(req[h]) => n = m
    BY <2>1, <2>3 DEF DevicesFit
  <2>5. DevicesFit(h)' /\ ListFits(h)'
    BY <1>2, <2>1, <2>2 DEF DevicesFit, ListFits
  <2>6. BodyFits(h)'
    BY <1>2, <2>1, <2>2, <2>3, <2>4 DEF BodyFits, MountedDev, PathOf
  <2>7. BodyKeepsDevice(h)'
    <3>1. ~MountedDev(h, dev[h])'
      BY <2>1, <2>2, <2>4 DEF MountedDev
    <3> QED
      BY <2>2, <3>1 DEF BodyKeepsDevice
  <2> QED
    BY <2>5, <2>6, <2>7
\* A mount that is reported to have failed and has not: with the kernel module.
<1>m. CASE MountFail(h) /\ ~UNCHANGED mnts
  <2>1. MountPath(h) /\ Kernel /\ UNCHANGED devs /\ at[h] = "mount"
    BY <1>m DEF MountFail, MountPathFails, Reliable
  <2>2. /\ at'[h] = "drop" /\ UNCHANGED <<dev, scan>> /\ pc' = pc /\ req' = req
        /\ mnts'[h] = mnts[h] \union {[dev |-> dev[h], path |-> PathOf(req[h])]}
    BY <1>m, <2>1 DEF MountFail, MountPath, TypeOK, lockVars
  <2>3. DevicesFit(h)'
    BY <2>1, MountFits
  <2>4. ListFits(h)'
    BY <1>2, <2>1, <2>2 DEF ListFits
  <2>5. BodyFits(h)'
    BY <1>2, <2>1, <2>2 DEF BodyFits, MountedDev, PathOf
  <2> QED
    BY <2>1, <2>3, <2>4, <2>5 DEF BodyKeepsDevice
\* The last steps of a body, after which the handler has no device.
<1>8. ASSUME at'[h] = "out", at[h] # "out", UNCHANGED scan,
             pc'[h] \notin BodyOrUmount, DevicesFit(h)'
      PROVE  HostInv(h)'
  BY <1>2, <1>8 DEF ListFits, BodyFits, BodyKeepsDevice, BodyOrUmount
<1>9. CASE MountOk(h)
  <2>1. DevicesFit(h)'
    BY <1>9, MountFits DEF MountOk
  <2> QED
    BY <1>8, <1>9, <2>1
       DEF MountOk, L!BodyOk, L!Return, L!Goto, BodyOrUmount, TypeOK, L!TypeOK
<1>10. CASE Drop(h) \/ UnmapLast(h)
  <2>1. UNCHANGED mnts /\ (UNCHANGED devs \/ Reaped(h, dev[h]))
    BY <1>10, UnmapReaps DEF Drop, UnmapLast, BodyFits, BodyKeepsDevice
  <2>2. DevicesFit(h)'
    BY <2>1, FewerFit
  <2> QED
    BY <1>8, <1>10, <2>2
       DEF Drop, UnmapLast, L!BodyFail, L!UmountDone, L!Return, L!Goto, BodyOrUmount,
           TypeOK, L!TypeOK
<1>11. CASE UmountOk(h)
  <2>1. PICK m \in mnts[h] : m.path = PathOf(req[h]) /\ mnts'[h] = mnts[h] \ {m}
    BY <1>11 DEF UmountOk, UnmountPath, TypeOK
  <2>2. /\ at'[h] = "unmap" /\ pc[h] = "umount" /\ pc' = pc /\ UNCHANGED devs
        /\ scan'[h][API].at = "off"
    BY <1>0, <1>11 DEF UmountOk, TypeOK, lockVars, NoScan
  <2>3. dev'[h] = m.dev
    <3>1. PICK f \in scan[h][API].found : f.path = PathOf(req[h]) /\ dev'[h] = f.dev
      BY <1>11 DEF UmountOk, FoundHere, TypeOK
    <3>2. [dev |-> f.dev, path |-> f.path] \in mnts[h]
      BY <1>1, <1>11, <3>1 DEF UmountOk
    <3> QED
      BY <2>1, <3>1, <3>2 DEF DevicesFit
  <2>4. \A n \in mnts'[h] : n.dev # m.dev
    BY <2>1 DEF DevicesFit
  <2> QED
    BY <2>1, <2>2, <2>3, <2>4 DEF DevicesFit, ListFits, BodyFits, BodyKeepsDevice, MountedDev
<1> QED
  BY <1>3, <1>4, <1>5, <1>6, <1>7, <1>m, <1>9, <1>10, <1>11
     DEF MountStep, UnmountStep, RepairMount, RepairUmount, MountPathFails, UnmountPathFails

LEMMA DevInvInit == Init => DevInv
<1> SUFFICES ASSUME Init, NEW h \in Host PROVE HostInv(h)
  BY DEF DevInv
<1>1. API \in Actor /\ NoScan.at = "off"
  BY DEF Actor, NoScan
<1>2. at[h] = "out" /\ pc[h] = "idle" /\ devs[h] = {} /\ mnts[h] = {}
  BY DEF Init, L!Init
<1>3. scan[h][API].at = "off"
  BY <1>1 DEF Init
<1> QED
  BY <1>2, <1>3 DEF HostInv, DevicesFit, ListFits, BodyFits, BodyKeepsDevice

\* The end of a process, or of the host with its devices and mounts.
LEMMA CrashStep ==
  ASSUME TypeOK, NEW h \in Host, HostInv(h), Crash(h) \/ Reboot(h)
  PROVE  HostInv(h)'
<1>0. API \in Actor /\ NoScan.at = "off"
  BY DEF Actor, NoScan
<1>1. /\ at'[h] = "out" /\ scan'[h] = [p \in Actor |-> NoScan]
      /\ pc'[h] \notin BodyOrUmount
  BY DEF Crash, Reboot, ProcessGone, Leave, Move, L!Crash, L!Reboot, L!ProcessGone,
         BodyOrUmount, TypeOK, L!TypeOK
<1>2. \/ UNCHANGED <<devs, mnts>>
      \/ devs'[h] = {} /\ mnts'[h] = {}
  BY DEF Crash, Reboot, TypeOK
<1>3. DevicesFit(h)'
  BY <1>2 DEF HostInv, DevicesFit
<1> QED
  BY <1>0, <1>1, <1>3 DEF HostInv, ListFits, BodyFits, BodyKeepsDevice, BodyOrUmount

LEMMA DevInvStep ==
  ASSUME TypeOK, Reliable, DevInv, [Next]_vars
  PROVE  DevInv'
<1> SUFFICES ASSUME NEW g \in Host PROVE HostInv(g)'
  BY DEF DevInv
<1>0. HostInv(g)
  BY DEF DevInv
<1>1. CASE UNCHANGED vars
  BY <1>0, <1>1, HostStays DEF vars, lockVars, devVars
<1>2. ASSUME NEW h \in Host, LockStep(h) PROVE HostInv(g)'
  <2>1. (pc'[g] = pc[g] /\ req'[g] = req[g]) \/ pc[g] \notin BodyOrUmount
    BY <1>2, LockStepStays DEF TypeOK
  <2> QED
    BY <1>0, <1>2, <2>1, HostStays DEF LockStep, devVars
<1>3. CASE LeaseStep
  BY <1>0, <1>3, HostStays DEF LeaseStep, L!AbandonedLeaseEnds, devVars
<1>4. ASSUME NEW h \in Host, g # h,
             \/ MountStep(h) \/ UnmountStep(h) \/ Crash(h) \/ Reboot(h)
             \/ \E p \in Actor : ScanStep(h, p)
      PROVE  HostInv(g)'
  BY <1>0, <1>4, OtherHosts, HostStays
<1>5. CASE MountStep(g) \/ UnmountStep(g)
  BY <1>0, <1>5, BodyStep
<1>6. CASE Crash(g) \/ Reboot(g)
  BY <1>0, <1>6, CrashStep
<1>7. ASSUME NEW p \in Actor, ScanStep(g, p) PROVE HostInv(g)'
  BY <1>0, <1>7, APIStep, ReaderStep DEF Actor
<1> QED
  BY <1>1, <1>2, <1>3, <1>4, <1>5, <1>6, <1>7 DEF Next

(***************************************************************************)
(* A host's devices and mounts fit each other, its handler's list of       *)
(* devices fits them, and a Mount is alone with the one device that is not *)
(* mounted yet.  With the kernel module any command may fail, before or    *)
(* after it has taken effect; with rbd-nbd a mount only before (Reliable). *)
(***************************************************************************)
THEOREM DevicesInvariant == Reliable => (Spec => []DevInv)
<1> SUFFICES ASSUME Reliable PROVE Spec => []DevInv
  OBVIOUS
<1>1. TypeOK /\ DevInv /\ [Next]_vars => DevInv'
  BY DevInvStep
<1> QED
  BY <1>1, DevInvInit, TypeCorrect, PTL DEF Spec

(***************************************************************************)
(* List and Path never make wrong what a handler has read of devices and   *)
(* mounts (driver.go:645 and 759 take no d.m).                             *)
(***************************************************************************)
THEOREM ScanStaysTrue == Reliable => (Spec => []HandlerScanTrue)
<1>1. DevInv => HandlerScanTrue
  BY DEF DevInv, HostInv, ListFits, HandlerScanTrue
<1> QED
  BY <1>1, DevicesInvariant, PTL

(***************************************************************************)
(* No directory is ever mounted upon twice (driver.go:452), also if a      *)
(* mount was stopped by its time limit when it had taken effect and the    *)
(* request comes again; but see Reliable for rbd-nbd.                      *)
(***************************************************************************)
THEOREM OneMountPerPath == Reliable => (Spec => []PathMountedOnce)
<1>1. DevInv => PathMountedOnce
  BY DEF DevInv, HostInv, DevicesFit, PathMountedOnce
<1> QED
  BY <1>1, DevicesInvariant, PTL

(***************************************************************************)
(* The only device that is mapped and not mounted while a Mount works is   *)
(* the one that it works on, whatever failed before (driver.go:1598): also *)
(* what a failed map has left behind is unmapped.                          *)
(***************************************************************************)
THEOREM NoDeviceLeft == Reliable => (Spec => []OnlyOwnDeviceUnmounted)
<1>1. DevInv => OnlyOwnDeviceUnmounted
  BY DEF DevInv, HostInv, BodyFits, OnlyOwnDeviceUnmounted
<1> QED
  BY <1>1, DevicesInvariant, PTL

-----------------------------------------------------------------------------
(***************************************************************************)
(* Writing from one host at a time, with rbd-nbd --exclusive.              *)
(***************************************************************************)
LEMMA WriterMappedInit == Init => WriterMappedOnce
BY DEF Init, WriterMappedOnce

\* Only mapping adds a device.
LEMMA DevicesOnlyMapped ==
  ASSUME TypeOK, Next, ~\E h \in Host, d \in Device : MapTo(h, d)
  PROVE  \A i \in Host : devs'[i] \subseteq devs[i]
<1>t. devs \in [Host -> SUBSET Mapping]
  BY DEF TypeOK
<1>1. ASSUME NEW h \in Host, NEW d, Unmap(h, d)
      PROVE  \A i \in Host : devs'[i] \subseteq devs[i]
  BY <1>t, <1>1 DEF Unmap
<1>2. ASSUME NEW h \in Host, NEW p \in Actor, ScanStep(h, p)
      PROVE  UNCHANGED devs \/ \E d : Unmap(h, d)
  BY <1>2 DEF ScanStep, ListMapped, ListMounts, ListFails, Reap, Reply, UnmapFails
<1>3. ASSUME NEW h \in Host, MountStep(h) \/ UnmountStep(h)
      PROVE  UNCHANGED devs \/ \E d : Unmap(h, d)
  BY <1>3
     DEF MountStep, MountReuse, Map, MapFail, MapFails, Check, RepairMount, RepairUmount,
         Recheck, MkDir, MountOk, MountFail, Drop, UnmountStep, UmountOk, UmountFail,
         UnmapLast, UnmapFails
<1>4. ASSUME NEW h \in Host, LockStep(h) \/ LeaseStep \/ Crash(h)
      PROVE  UNCHANGED devs
  BY <1>4 DEF LockStep, LeaseStep, Crash, devVars
<1>5. ASSUME NEW h \in Host, Reboot(h)
      PROVE  \A i \in Host : devs'[i] \subseteq devs[i]
  BY <1>t, <1>5 DEF Reboot
<1> QED
  BY <1>1, <1>2, <1>3, <1>4, <1>5 DEF Next, LeaseStep, devVars

LEMMA WriterMappedStep ==
  ASSUME TypeOK, WriterMappedOnce, [Next]_vars
  PROVE  WriterMappedOnce'
<1>1. CASE UNCHANGED vars
  BY <1>1 DEF vars, devVars, WriterMappedOnce
<1>2. CASE Next /\ ~\E h \in Host, d \in Device : MapTo(h, d)
  BY <1>2, DevicesOnlyMapped DEF WriterMappedOnce
<1>3. ASSUME NEW h \in Host, NEW d \in Device, MapTo(h, d) PROVE WriterMappedOnce'
  <2>1. devs' = [devs EXCEPT ![h] = devs[h] \union
                 {[dev |-> d, vol |-> req[h].vol, mode |-> req[h].mode]}]
    BY <1>3 DEF MapTo
  <2> DEFINE new == [dev |-> d, vol |-> req[h].vol, mode |-> req[h].mode]
  <2>2. \A i \in Host : devs'[i] = IF i = h THEN devs[h] \union {new} ELSE devs[i]
    BY <2>1 DEF TypeOK
  <2>3. ~Kernel /\ new.mode = "rw" =>
           \A i \in Host : \A x \in devs[i] : x.vol = new.vol => x.mode = "ro"
    BY <1>3 DEF MapTo, MayMap
  <2> HIDE DEF new
  <2> QED
    BY <2>2, <2>3 DEF WriterMappedOnce
<1> QED
  BY <1>1, <1>2, <1>3

(***************************************************************************)
(* With rbd-nbd an image is mounted for writing on one host at a time, as  *)
(* README.md:14 says, whatever sessions are lost, processes end and IDs    *)
(* are used again; provided that List and Path, errors of list-mapped,     *)
(* repairs, and mounts that fail after they have taken effect do not make  *)
(* rbd-nbd unmap a device that is mounted (Reliable).                      *)
(***************************************************************************)
THEOREM WritesFromOneHost == ~Kernel /\ Reliable => (Spec => []OneWriterMounted)
<1> SUFFICES ASSUME ~Kernel, Reliable PROVE Spec => []OneWriterMounted
  OBVIOUS
<1>1. TypeOK /\ WriterMappedOnce /\ [Next]_vars => WriterMappedOnce'
  BY WriterMappedStep
<1>2. TypeOK /\ DevInv /\ WriterMappedOnce => OneWriterMounted
  <2> SUFFICES ASSUME TypeOK, DevInv, WriterMappedOnce,
                      NEW h \in Host, NEW i \in Host, NEW m \in mnts[h], NEW n \in mnts[i],
                      h # i, m.path = n.path
               PROVE  m.path[2] = "ro"
    BY DEF OneWriterMounted
  <2>1. PICK x \in devs[h] : <<x.vol, x.mode>> = m.path
    BY DEF DevInv, HostInv, DevicesFit
  <2>2. PICK y \in devs[i] : <<y.vol, y.mode>> = n.path
    BY DEF DevInv, HostInv, DevicesFit
  <2>3. x.vol = y.vol /\ x.mode = y.mode /\ x.mode = m.path[2]
    BY <2>1, <2>2
  <2>4. x.mode # "rw"
    BY <2>3 DEF WriterMappedOnce
  <2>5. x.mode \in {"ro", "rw"}
    BY DEF TypeOK, Mapping, L!Mode, L!E!Mode
  <2> QED
    BY <2>3, <2>4, <2>5
<1> QED
  BY <1>1, <1>2, WriterMappedInit, TypeCorrect, DevicesInvariant, PTL DEF Spec
=============================================================================
