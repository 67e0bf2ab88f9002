-------------------------- MODULE ProvisionProofs ---------------------------
(***************************************************************************)
(* Theorems about creating and removing volumes, for any number of hosts,  *)
(* volumes, images and sessions, and whatever commands fail.               *)
(***************************************************************************)
EXTENDS ProvisionInv, SequenceTheorems, TLAPS

\* The commands of Create, between its locking and its unlocking.
WorkStep(h) ==
    \/ Refuse(h) \/ PoolExists(h) \/ MakePool(h) \/ InitPool(h)
    \/ ImageExists(h) \/ ImageMissing(h) \/ NoMkfs(h)
    \/ CreateImage(h) \/ CreateImageFail(h) \/ Map(h) \/ MapFail(h)
    \/ Mkfs(h) \/ MkfsFail(h) \/ Drop(h) \/ Unmap(h)

\* They touch neither locks nor sessions.
LEMMA WorkMoves ==
  ASSUME TypeOK, NEW h \in Host, WorkStep(h)
  PROVE  /\ UNCHANGED <<lockVars, req, mine>>
         /\ pc[h] \in Working
         /\ \E loc \in Working : pc' = [pc EXCEPT ![h] = loc]
<1> USE DEF Goto, S!Goto, Working
<1>1. CASE Refuse(h) \/ PoolExists(h) \/ MakePool(h) \/ InitPool(h)
  BY <1>1 DEF Refuse, PoolExists, MakePool, InitPool
<1>2. CASE ImageExists(h) \/ ImageMissing(h) \/ NoMkfs(h)
  BY <1>2 DEF ImageExists, ImageMissing, NoMkfs
<1>3. CASE CreateImage(h) \/ CreateImageFail(h)
  BY <1>3 DEF CreateImage, CreateImageFail
<1>4. CASE Map(h) \/ MapFail(h)
  BY <1>4 DEF Map, MapFail
<1>5. CASE Mkfs(h) \/ MkfsFail(h) \/ Drop(h) \/ Unmap(h)
  BY <1>5 DEF Mkfs, MkfsFail, Drop, Unmap
<1> QED
  BY <1>1, <1>2, <1>3, <1>4, <1>5 DEF WorkStep

\* Nor does a Remove, from its first command to its reply.
LEMMA RemoveMoves ==
  ASSUME TypeOK, NEW h \in Host, RemoveStep(h)
  PROVE  /\ UNCHANGED lockVars
         /\ pc[h] \in Removing
         /\ \/ S!Return(h)
            \/ /\ UNCHANGED <<req, mine>>
               /\ \E loc \in Removing : pc' = [pc EXCEPT ![h] = loc]
BY DEF RemoveStep, RemoveMissing, RemoveFound, Delete, ListPool, ListPoolFail, Rename,
       Goto, S!Goto, Removing

LEMMA NewSessionType ==
  ASSUME TypeOK, NEW h \in Host, S!NewSession(h)
  PROVE  /\ lastSession' = lastSession + 1
         /\ lastSession' \in 0 .. MaxSession
         /\ session' \in [Host -> 0 .. lastSession']
         /\ session' = [session EXCEPT ![h] = lastSession']
         /\ leases' \subseteq S!Session
         /\ keys' = keys
<1>1. /\ lastSession \in Nat
      /\ lastSession' = lastSession + 1
      /\ lastSession' \in S!Session
      /\ lastSession' \in 0 .. MaxSession
      /\ 0 .. lastSession \subseteq 0 .. lastSession'
      /\ lastSession' \in 0 .. lastSession'
  BY ProvisionAssumption DEF TypeOK, S!NewSession, S!Session
<1>2. session' \in [Host -> 0 .. lastSession']
  BY <1>1 DEF TypeOK, S!NewSession
<1> QED
  BY <1>1, <1>2 DEF TypeOK, S!NewSession, S!E!Grant

\* A request is about names.
LEMMA RequestFields ==
  \A r \in Request :
     /\ r.name \in ToCreate \union ToRemove /\ r.target \in ToCreate \union ToRemove
     /\ r.name \in I!FullName /\ r.target \in I!FullName
     /\ r.op = "create" => r.name \in ToCreate /\ r.target \in ToCreate
     /\ r.op = "remove" => r.name \in ToRemove /\ r.target = r.name
BY ProvisionAssumption DEF Request

\* Backups have names, told apart by the number and by the name they are of.
LEMMA TrashNames ==
  /\ \A k \in I!Number, n \in I!FullName : I!Trash(k, n) \in I!FullName
  /\ \A j, k \in I!Number : \A m, n \in I!FullName :
        I!Trash(j, m) = I!Trash(k, n) => j = k /\ m = n
<1> SUFFICES ASSUME NEW j \in I!Number, NEW k \in I!Number,
                    NEW m \in I!FullName, NEW n \in I!FullName
             PROVE  /\ I!Trash(j, m) \in I!FullName
                    /\ I!Trash(j, m) = I!Trash(k, n) => j = k /\ m = n
  OBVIOUS
<1>1. /\ m[1] \in Name /\ m[2] \in Seq(I!Number) /\ m = <<m[1], m[2]>>
      /\ n[2] \in Seq(I!Number) /\ n = <<n[1], n[2]>>
  BY DEF I!FullName
<1>2. Append(m[2], j) \in Seq(I!Number)
  BY <1>1, AppendProperties
<1>3. Append(m[2], j) = Append(n[2], k) => m[2] = n[2] /\ j = k
  BY <1>1, AppendInjective
<1> QED
  BY <1>1, <1>2, <1>3 DEF I!Trash, I!FullName

LEMMA TypeInit == Init => TypeOK
BY ProvisionAssumption
   DEF Init, S!Init, S!E!Init, I!Init, TypeOK, I!TypeOK, I!Number, Location

\* No step spoils the shape of the state.
LEMMA TypeStep == TypeOK /\ [Next]_vars => TypeOK'
<1> SUFFICES ASSUME TypeOK, [Next]_vars PROVE TypeOK'
  OBVIOUS
<1> USE DEF TypeOK
<1>1. CASE UNCHANGED vars
  BY <1>1 DEF vars, procVars, lockVars, cephVars, I!TypeOK
<1> SUFFICES ASSUME Next PROVE TypeOK'
  BY <1>1
<1>g. guarded' \in BOOLEAN
  BY DEF Next
<1>2. ASSUME NEW h \in Host, UnlockFail(h) PROVE TypeOK'
  BY <1>2, <1>g DEF UnlockFail, S!Return, S!Goto, lockVars, cephVars, Location, I!TypeOK
<1> SUFFICES ASSUME left' = left \intersect keys', keys' \subseteq S!Key => left' \subseteq keys',
                    \/ \E h \in Host : CreateStep(h) \/ RemoveStep(h) \/ Environment(h)
                    \/ \E s \in S!Session : LeaseEnds(s)
             PROVE  TypeOK'
  BY <1>2 DEF Next
<1>3. ASSUME NEW s \in S!Session, LeaseEnds(s) PROVE TypeOK'
  BY <1>3, <1>g DEF LeaseEnds, S!AbandonedLeaseEnds, S!E!Expire, S!procVars, cephVars, I!TypeOK
<1>4. ASSUME NEW h \in Host, SessionStep(h) PROVE TypeOK'
  <2> USE <1>4, <1>g DEF SessionStep, cephVars, I!TypeOK
  <2>1. CASE S!Start(h)
    BY <2>1, NewSessionType DEF S!Start
  <2>2. CASE S!StartFail(h)
    BY <2>2 DEF S!StartFail
  <2>3. CASE S!LeaseLost(h)
    BY <2>3 DEF S!LeaseLost, S!E!Expire, S!procVars
  <2>4. CASE S!SessionDone(h)
    BY <2>4 DEF S!SessionDone
  <2>5. CASE S!Recreate(h)
    BY <2>5, NewSessionType DEF S!Recreate
  <2>6. CASE S!RecreateFail(h)
    BY <2>6 DEF S!RecreateFail
  <2> QED
    BY <2>1, <2>2, <2>3, <2>4, <2>5, <2>6 DEF S!SessionStep
<1>5. ASSUME NEW h \in Host, Crash(h) \/ Reboot(h) PROVE TypeOK'
  BY <1>5, <1>g, ProvisionAssumption
     DEF Crash, Reboot, S!Crash, S!Reboot, S!ProcessGone, Forget, Location, cephVars,
         I!TypeOK, I!Number
<1>6. ASSUME NEW h \in Host, Reap(h) PROVE TypeOK'
  BY <1>6, <1>g DEF Reap, procVars, lockVars, I!TypeOK
<1>7. ASSUME NEW h \in Host,
             \/ \E n, t \in ToCreate : BeginCreate(h, n, t)
             \/ \E n \in ToRemove : BeginRemove(h, n)
      PROVE  TypeOK'
  BY <1>7, <1>g
     DEF BeginCreate, BeginRemove, S!Goto, Request, Location, lockVars, cephVars, I!TypeOK
<1>8. ASSUME NEW h \in Host, CreateStep(h) PROVE TypeOK'
  <2> USE <1>8, <1>g DEF Goto, S!Goto, S!Return, Location, Working, lockVars
  <2>1. CASE LockCreate(h) \/ AcquireFail(h)
    BY <2>1 DEF LockCreate, AcquireFail, cephVars, I!TypeOK
  <2>2. CASE NewMutex(h)
    <3>1. session[h] # 0 => \A m \in Mutex : MutexOf(h, m, "rw") \in S!Key
      BY <2>2, RequestFields, ProvisionAssumption
         DEF NewMutex, MutexOf, S!Key, S!E!Key, S!E!Mode, S!Session
    <3> QED
      BY <2>2, <3>1 DEF NewMutex, cephVars, I!TypeOK
  <2>3. CASE Acquire(h)
    BY <2>3 DEF Acquire, S!E!Acquire, cephVars, I!TypeOK
  <2>4. CASE Refuse(h) \/ PoolExists(h) \/ MakePool(h) \/ InitPool(h)
    BY <2>4 DEF Refuse, PoolExists, MakePool, PoolMade, InitPool, cephVars, I!TypeOK
  <2>5. CASE ImageExists(h) \/ ImageMissing(h) \/ NoMkfs(h)
    BY <2>5 DEF ImageExists, ImageMissing, NoMkfs, cephVars, I!TypeOK
  <2>6. CASE CreateImage(h) \/ CreateImageFail(h)
    BY <2>6, RequestFields DEF CreateImage, CreateImageFail, ImageMade, I!TypeOK
  <2>7. CASE Map(h) \/ MapFail(h)
    BY <2>7 DEF Map, MapFail, Named, I!Called, I!TypeOK
  <2>8. CASE Mkfs(h) \/ MkfsFail(h)
    BY <2>8 DEF Mkfs, MkfsFail, Formatted, I!TypeOK
  <2>9. CASE Drop(h) \/ Unmap(h)
    BY <2>9 DEF Drop, Unmap, Unmapped, I!TypeOK
  <2>10. CASE Unlock(h)
    BY <2>10 DEF Unlock, S!E!Release, cephVars, I!TypeOK
  <2> QED
    BY <2>1, <2>2, <2>3, <2>4, <2>5, <2>6, <2>7, <2>8, <2>9, <2>10 DEF CreateStep
<1>9. ASSUME NEW h \in Host, RemoveStep(h) PROVE TypeOK'
  <2> USE <1>9, <1>g DEF Goto, S!Goto, S!Return, Location, lockVars
  <2>1. CASE RemoveMissing(h) \/ RemoveFound(h) \/ ListPoolFail(h)
    BY <2>1 DEF RemoveMissing, RemoveFound, ListPoolFail, cephVars, I!TypeOK
  <2>2. CASE Delete(h)
    BY <2>2 DEF Delete, ImageDeleted, I!TypeOK
  <2>3. CASE ListPool(h)
    BY <2>3 DEF ListPool, cephVars, I!TypeOK
  <2>4. CASE Rename(h)
    BY <2>4, RequestFields, TrashNames, ProvisionAssumption
       DEF Rename, ImageRenamed, I!Number, I!TypeOK
  <2> QED
    BY <2>1, <2>2, <2>3, <2>4 DEF RemoveStep
<1> QED
  BY <1>3, <1>4, <1>5, <1>6, <1>7, <1>8, <1>9 DEF Environment

(***************************************************************************)
(* The state of the handlers, of etcd and of the pool has always the shape *)
(* TypeOK gives.                                                           *)
(***************************************************************************)
THEOREM TypeCorrect == Spec => []TypeOK
BY TypeInit, TypeStep, PTL DEF Spec

-----------------------------------------------------------------------------
(***************************************************************************)
(* Locks and sessions.                                                     *)
(***************************************************************************)
LocksInv == TargetFits /\ SessionsOwned /\ MutexesFit /\ LocksExclude

LEMMA KeyFields ==
  \A k \in S!Key : k.id \in Mutex /\ k.sess \in Nat /\ k.sess # 0 /\ k.vol \in I!FullName
BY DEF S!Key, S!E!Key, S!Session

\* Steps of one host that end with its handler's mutex forgotten.
LEMMA ReturnLocks ==
  ASSUME TypeOK, LocksInv, NEW h \in Host, S!Return(h), keys' \subseteq keys,
         UNCHANGED <<lastSession, session>>, guarded' => \A g \in Host : HasLock(g)'
  PROVE  LocksInv'
<1> USE KeyFields DEF LocksInv, TypeOK, S!Return, S!Goto
<1>1. TargetFits'
  BY DEF TargetFits, Removing
<1>2. SessionsOwned'
  BY DEF SessionsOwned
<1>3. MutexesFit'
  BY DEF MutexesFit
<1>4. LocksExclude'
  BY DEF LocksExclude, S!E!RWExclusion, S!E!MayShare
<1> QED
  BY <1>1, <1>2, <1>3, <1>4

\* Steps of the session and of etcd.
LEMMA SessionLocks ==
  ASSUME TypeOK, LocksInv, UNCHANGED <<pc, req, mine>>,
         guarded' => \A g \in Host : HasLock(g)',
         \/ /\ keys' \subseteq keys
            /\ UNCHANGED lastSession
            /\ \/ UNCHANGED session
               \/ \E h \in Host : session' = [session EXCEPT ![h] = 0]
         \/ \E h \in Host : S!NewSession(h)
  PROVE  LocksInv'
<1> USE KeyFields DEF LocksInv
<1>1. TargetFits'
  BY DEF TargetFits
<1>2. CASE /\ keys' \subseteq keys
           /\ UNCHANGED lastSession
           /\ \/ UNCHANGED session
              \/ \E h \in Host : session' = [session EXCEPT ![h] = 0]
  <2>1. SessionsOwned'
    BY <1>2 DEF SessionsOwned, TypeOK
  <2>2. MutexesFit'
    BY <1>2 DEF MutexesFit, TypeOK
  <2>3. LocksExclude'
    BY <1>2 DEF LocksExclude, S!E!RWExclusion, S!E!MayShare
  <2> QED
    BY <1>1, <2>1, <2>2, <2>3
<1>3. ASSUME NEW h \in Host, S!NewSession(h) PROVE LocksInv'
  <2>1. /\ lastSession \in Nat
        /\ lastSession' = lastSession + 1
        /\ session' = [session EXCEPT ![h] = lastSession']
        /\ keys' = keys
    BY <1>3, NewSessionType DEF TypeOK
  <2>2. /\ \A g \in Host : session[g] \in Nat /\ session[g] <= lastSession
        /\ \A g \in Host : mine[g] # NoKey => mine[g].sess \in Nat
    BY DEF TypeOK
  <2>3. SessionsOwned'
    BY <2>1, <2>2 DEF SessionsOwned, TypeOK
  <2>4. MutexesFit'
    BY <2>1 DEF MutexesFit
  <2>5. LocksExclude'
    BY <2>1 DEF LocksExclude, S!E!RWExclusion, S!E!MayShare
  <2> QED
    BY <1>1, <2>3, <2>4, <2>5
<1> QED
  BY <1>2, <1>3

\* Every step keeps each mutex with its handler and its session.
LEMMA LocksStep ==
  ASSUME TypeOK, LocksInv, [Next]_vars
  PROVE  LocksInv'
<1> USE KeyFields DEF LocksInv
<1>1. CASE UNCHANGED vars
  BY <1>1 DEF vars, procVars, lockVars, TargetFits, SessionsOwned, MutexesFit, LocksExclude,
              S!E!RWExclusion, S!E!MayShare, HasLock
<1> SUFFICES ASSUME Next PROVE LocksInv'
  BY <1>1
<1>g. guarded' => \A g \in Host : HasLock(g)'
  BY DEF Next
<1>2. ASSUME NEW h \in Host, UnlockFail(h) PROVE LocksInv'
  BY <1>2, <1>g, ReturnLocks DEF UnlockFail, lockVars
<1>3. ASSUME NEW s \in S!Session, LeaseEnds(s) PROVE LocksInv'
  BY <1>3, <1>g, SessionLocks DEF LeaseEnds, S!AbandonedLeaseEnds, S!E!Expire, S!procVars
<1>4. ASSUME NEW h \in Host, SessionStep(h) PROVE LocksInv'
  BY <1>4, <1>g, SessionLocks
     DEF SessionStep, S!Start, S!StartFail, S!SessionStep, S!LeaseLost, S!SessionDone,
         S!Recreate, S!RecreateFail, S!E!Expire, S!procVars
<1>5. ASSUME NEW h \in Host, Crash(h) \/ Reboot(h) PROVE LocksInv'
  <2> USE <1>5 DEF Crash, Reboot, S!Crash, S!Reboot, S!ProcessGone, TypeOK
  <2>1. TargetFits'
    BY DEF TargetFits, Removing
  <2>2. SessionsOwned'
    BY DEF SessionsOwned
  <2>3. MutexesFit'
    BY DEF MutexesFit
  <2>4. LocksExclude'
    BY <1>g DEF LocksExclude, S!E!RWExclusion, S!E!MayShare
  <2> QED
    BY <2>1, <2>2, <2>3, <2>4
<1>6. ASSUME NEW h \in Host, Reap(h) PROVE LocksInv'
  BY <1>6, <1>g, SessionLocks DEF Reap, procVars, lockVars
<1>7. ASSUME NEW h \in Host,
             \/ \E n, t \in ToCreate : BeginCreate(h, n, t)
             \/ \E n \in ToRemove : BeginRemove(h, n)
      PROVE  LocksInv'
  <2> USE <1>7 DEF BeginCreate, BeginRemove, S!Goto, lockVars, TypeOK
  <2>1. TargetFits'
    BY ProvisionAssumption DEF TargetFits, Removing
  <2>2. SessionsOwned'
    BY DEF SessionsOwned
  <2>3. MutexesFit'
    BY DEF MutexesFit, Working
  <2>4. LocksExclude'
    BY <1>g DEF LocksExclude, S!E!RWExclusion, S!E!MayShare
  <2> QED
    BY <2>1, <2>2, <2>3, <2>4
<1>8. ASSUME NEW h \in Host, CreateStep(h) PROVE LocksInv'
  <2>1. CASE LockCreate(h)
    <3> USE <2>1 DEF LockCreate, Goto, S!Goto, lockVars, TypeOK
    <3>1. TargetFits'
      BY DEF TargetFits, Removing
    <3>2. SessionsOwned'
      BY DEF SessionsOwned
    <3>3. MutexesFit'
      BY DEF MutexesFit, Working
    <3>4. LocksExclude'
      BY <1>g DEF LocksExclude, S!E!RWExclusion, S!E!MayShare
    <3> QED
      BY <3>1, <3>2, <3>3, <3>4
  <2>2. CASE NewMutex(h) /\ session[h] = 0
    BY <2>2, <1>g, ReturnLocks DEF NewMutex, lockVars
  <2>3. CASE NewMutex(h) /\ session[h] # 0
    <3>0. PICK m \in Mutex \ S!InUse : mine' = [mine EXCEPT ![h] = MutexOf(h, m, "rw")]
      BY <2>3 DEF NewMutex
    <3> DEFINE k == MutexOf(h, m, "rw")
    <3>1. /\ pc[h] = "new" /\ pc' = [pc EXCEPT ![h] = "acquire"]
          /\ mine' = [mine EXCEPT ![h] = k]
          /\ UNCHANGED <<req, leases, keys, lastSession, session>>
      BY <2>3, <3>0 DEF NewMutex, S!Goto, lockVars
    <3>2. /\ k.id \notin S!InUse /\ k.sess = session[h]
          /\ k.vol = req[h].name /\ k.mode = "rw"
      BY <3>0 DEF MutexOf
    <3>3. k # NoKey
      <4>1. k \in S!Key
        BY <2>3, <3>0, <3>1, RequestFields, ProvisionAssumption
           DEF MutexOf, S!Key, S!E!Key, S!E!Mode, S!Session, TypeOK
      <4> QED
        BY <4>1, NullNamesAssumption
    <3>4. \A j \in keys : j.id # k.id
      BY <3>2 DEF S!InUse
    <3>5. \A g \in Host : mine[g] # NoKey => mine[g].id # k.id
      BY <3>2 DEF S!InUse
    <3>6. session[h] \in Nat /\ session[h] <= lastSession /\ lastSession \in Nat
      BY DEF TypeOK
    <3> HIDE DEF k
    <3>7. TargetFits'
      BY <3>1 DEF TargetFits, Removing, TypeOK
    <3>8. SessionsOwned'
      BY <2>3, <3>1, <3>2, <3>6 DEF SessionsOwned, TypeOK
    <3>9. MutexesFit'
      BY <3>1, <3>2, <3>3, <3>4, <3>5 DEF MutexesFit, TypeOK
    <3>10. LocksExclude'
      BY <3>1, <1>g DEF LocksExclude, S!E!RWExclusion, S!E!MayShare
    <3> QED
      BY <3>7, <3>8, <3>9, <3>10
  <2>4. CASE Acquire(h)
    <3> USE <2>4 DEF Acquire, S!E!Acquire, Goto, S!Goto
    <3>1. TargetFits'
      BY DEF TargetFits, Removing, TypeOK
    <3>2. SessionsOwned'
      BY NullNamesAssumption DEF SessionsOwned, TypeOK
    <3>3. MutexesFit'
      BY NullNamesAssumption DEF MutexesFit, TypeOK, Working
    <3>4. LocksExclude'
      BY <1>g DEF LocksExclude, S!E!RWExclusion, S!E!MayShare
    <3> QED
      BY <3>1, <3>2, <3>3, <3>4
  <2>5. CASE AcquireFail(h) \/ Unlock(h)
    BY <2>5, <1>g, ReturnLocks DEF AcquireFail, Unlock, S!E!Release, lockVars
  <2>6. CASE WorkStep(h)
    <3> USE <2>6, WorkMoves DEF lockVars, TypeOK
    <3>1. TargetFits'
      BY DEF TargetFits, Removing, Working
    <3>2. SessionsOwned'
      BY DEF SessionsOwned
    <3>3. MutexesFit'
      BY DEF MutexesFit, Working
    <3>4. LocksExclude'
      BY <1>g DEF LocksExclude, S!E!RWExclusion, S!E!MayShare
    <3> QED
      BY <3>1, <3>2, <3>3, <3>4
  <2> QED
    BY <1>8, <2>1, <2>2, <2>3, <2>4, <2>5, <2>6 DEF CreateStep, WorkStep
<1>9. ASSUME NEW h \in Host, RemoveStep(h) PROVE LocksInv'
  <2>1. CASE S!Return(h)
    BY <1>9, <2>1, <1>g, RemoveMoves, ReturnLocks DEF lockVars
  <2>2. CASE UNCHANGED <<req, mine>> /\ \E loc \in Removing : pc' = [pc EXCEPT ![h] = loc]
    <3> USE <1>9, <2>2, RemoveMoves DEF lockVars, TypeOK
    <3>1. TargetFits'
      BY DEF TargetFits, Removing
    <3>2. SessionsOwned'
      BY DEF SessionsOwned
    <3>3. MutexesFit'
      BY DEF MutexesFit, Working, Removing
    <3>4. LocksExclude'
      BY <1>g DEF LocksExclude, S!E!RWExclusion, S!E!MayShare
    <3> QED
      BY <3>1, <3>2, <3>3, <3>4
  <2> QED
    BY <1>9, <2>1, <2>2, RemoveMoves
<1> QED
  BY <1>2, <1>3, <1>4, <1>5, <1>6, <1>7, <1>8, <1>9 DEF Next, Environment

-----------------------------------------------------------------------------
(***************************************************************************)
(* Names, filesystems and devices.                                         *)
(***************************************************************************)
ImagesInv == DevicesNamed /\ Unformatted

\* A step that touches no image, and takes no handler to a place that the
\* invariants speak of.
Quiet ==
    /\ UNCHANGED <<names, fs>>
    /\ \A g \in Host :
          /\ dev'[g] \in {dev[g], NoImage}
          /\ \/ pc'[g] \notin {"map", "mkfs", "rls", "rename", "rm"}
             \/ /\ pc'[g] = pc[g] /\ req'[g] = req[g]
                /\ dev'[g] = dev[g] /\ number'[g] = number[g]

\* The steps of Create that are about an image.
ImageStep(h) ==
    CreateImage(h) \/ CreateImageFail(h) \/ Map(h) \/ Mkfs(h) \/ MkfsFail(h)

LEMMA QuietSteps ==
  ASSUME TypeOK, Next
  PROVE  \/ \E h \in Host : ImageStep(h) \/ RemoveStep(h)
         \/ Quiet
<1> USE DEF TypeOK
<1>1. ASSUME NEW h \in Host, UnlockFail(h) PROVE Quiet
  BY <1>1 DEF UnlockFail, S!Return, S!Goto, cephVars, Quiet
<1>2. ASSUME NEW s \in S!Session, LeaseEnds(s) PROVE Quiet
  BY <1>2 DEF LeaseEnds, S!AbandonedLeaseEnds, S!procVars, cephVars, Quiet
<1>3. ASSUME NEW h \in Host, SessionStep(h) PROVE Quiet
  BY <1>3
     DEF SessionStep, S!Start, S!StartFail, S!SessionStep, S!LeaseLost, S!SessionDone,
         S!Recreate, S!RecreateFail, S!procVars, cephVars, Quiet
<1>4. ASSUME NEW h \in Host, Crash(h) \/ Reboot(h) PROVE Quiet
  BY <1>4 DEF Crash, Reboot, S!Crash, S!Reboot, S!ProcessGone, Forget, cephVars, Quiet
<1>5. ASSUME NEW h \in Host, Reap(h) PROVE Quiet
  BY <1>5 DEF Reap, procVars, Quiet
<1>6. ASSUME NEW h \in Host,
             \/ \E n, t \in ToCreate : BeginCreate(h, n, t)
             \/ \E n \in ToRemove : BeginRemove(h, n)
      PROVE  Quiet
  BY <1>6 DEF BeginCreate, BeginRemove, S!Goto, cephVars, Quiet
<1>7. ASSUME NEW h \in Host, CreateStep(h), ~ImageStep(h) PROVE Quiet
  <2> USE DEF Goto, S!Goto, S!Return, cephVars, Quiet
  <2>1. CASE LockCreate(h) \/ NewMutex(h) \/ Acquire(h) \/ AcquireFail(h) \/ Unlock(h)
    BY <2>1 DEF LockCreate, NewMutex, Acquire, AcquireFail, Unlock
  <2>2. CASE Refuse(h) \/ PoolExists(h) \/ MakePool(h) \/ InitPool(h)
    BY <2>2 DEF Refuse, PoolExists, MakePool, InitPool
  <2>3. CASE ImageExists(h) \/ ImageMissing(h) \/ NoMkfs(h)
    BY <2>3 DEF ImageExists, ImageMissing, NoMkfs
  <2>4. CASE MapFail(h) \/ Drop(h) \/ Unmap(h)
    BY <2>4 DEF MapFail, Drop, Unmap
  <2> QED
    BY <1>7, <2>1, <2>2, <2>3, <2>4 DEF CreateStep, ImageStep
<1> QED
  BY <1>1, <1>2, <1>3, <1>4, <1>5, <1>6, <1>7 DEF Next, Environment

\* While no Create has gone on without its lock, each works on a name of its
\* own.
LEMMA OneCreator ==
  ASSUME TypeOK, LocksInv, guarded, ~Options, NEW g \in Host, NEW h \in Host, g # h,
         pc[g] \in Working, pc[h] \in Working
  PROVE  req[g].target # req[h].target
<1>1. mine[g] \in keys /\ mine[h] \in keys
  BY DEF LocksInv, LocksExclude, HasLock
<1>2. mine[g] # NoKey /\ mine[h] # NoKey
  BY <1>1, NullNamesAssumption DEF TypeOK
<1>3. mine[g] # mine[h] /\ mine[g].vol # mine[h].vol
  BY <1>1, <1>2 DEF LocksInv, LocksExclude, MutexesFit, S!E!RWExclusion, S!E!MayShare
<1>4. /\ mine[g].vol = req[g].name /\ req[g].name = req[g].target
      /\ mine[h].vol = req[h].name /\ req[h].name = req[h].target
  BY <1>2 DEF LocksInv, MutexesFit, TargetFits, Working, Removing
<1> QED
  BY <1>3, <1>4

\* What a request asks for and what a Remove makes are names, and a Create is
\* not asked for what a Remove makes if BackupsApart.
LEMMA NamesDiffer ==
  /\ \A n \in ToCreate \union ToRemove \union BackupNames :
        n \in I!FullName /\ n \notin {NoName, Gone}
  /\ \A k \in I!Number, n \in ToRemove : I!Trash(k, n) \in BackupNames
  /\ BackupsApart => \A n \in ToCreate : n \notin BackupNames
BY TrashNames, NullNamesAssumption, ProvisionAssumption DEF BackupNames, BackupsApart

LEMMA QuietImages ==
  ASSUME TypeOK, ImagesInv, Quiet, guarded' => guarded
  PROVE  ImagesInv'
<1> USE DEF ImagesInv, Quiet, TypeOK
<1>1. DevicesNamed'
  BY NullNamesAssumption DEF DevicesNamed
<1>2. Unformatted'
  BY DEF Unformatted, Named, I!Called
<1> QED
  BY <1>1, <1>2

\* A new image, a name taken from an image, or nothing new.
NamesMove(h) ==
    \/ UNCHANGED names
    \/ req[h].target \in ToCreate /\ ImageMade(h)
    \/ /\ req[h].target \in ToRemove
       /\ \E i \in Named(h), n \in {Gone} \union BackupNames :
             names' = [names EXCEPT ![i] = n]

\* An image that has a name keeps it, or a Remove takes it.
LEMMA NamesGiven ==
  ASSUME TypeOK, NEW h \in Host, NamesMove(h), NEW i \in Image
  PROVE  /\ names[i] # NoName => names'[i] \in {names[i], Gone} \union BackupNames
         /\ names'[i] = NoName => names[i] = NoName
<1>1. req[h].target \in ToCreate => req[h].target # NoName
  BY NamesDiffer
<1>2. \A n \in {Gone} \union BackupNames : n # NoName
  BY NamesDiffer, NullNamesAssumption
<1> QED
  BY <1>1, <1>2 DEF NamesMove, ImageMade, TypeOK, I!TypeOK, Named, I!Called

\* Steps of one host, in Create or Remove, that only change what images are
\* called.
LEMMA NamesImages ==
  ASSUME TypeOK, LocksInv, ImagesInv, NEW h \in Host, NamesMove(h),
         pc[h] # "idle", guarded' => guarded, UNCHANGED <<fs, dev>>,
         \A g \in Host : g # h => pc'[g] = pc[g] /\ req'[g] = req[g],
         pc'[h] # "mkfs", pc'[h] = "map" => req'[h] = req[h] /\ pc[h] = "create" /\ ImageMade(h)
  PROVE  ImagesInv'
<1>1. DevicesNamed'
  <2>1. \A i \in Image : names'[i] = NoName => fs'[i] = 0 /\ \A g \in Host : dev'[g] # i
    BY NamesGiven DEF ImagesInv, DevicesNamed
  <2>2. ASSUME NEW g \in Host, pc'[g] = "mkfs"
        PROVE  names'[dev'[g]] \in {Gone, req'[g].target} \union BackupNames
    <3>1. /\ g # h /\ pc[g] = "mkfs" /\ req'[g] = req[g] /\ dev'[g] = dev[g]
          /\ dev[g] \in Image
      BY <2>2 DEF TypeOK
    <3>2. /\ names[dev[g]] \in {Gone, req[g].target} \union BackupNames
          /\ names[dev[g]] # NoName
      BY <3>1 DEF ImagesInv, DevicesNamed
    <3> QED
      BY <3>1, <3>2, NamesGiven
  <2> QED
    BY <2>1, <2>2 DEF DevicesNamed
<1>2. Unformatted'
  <2> SUFFICES ASSUME guarded, ~Options, BackupsApart PROVE Unformatted'
    BY DEF Unformatted
  <2>1. ASSUME NEW g \in Host, pc'[g] = "map", NEW i \in Image,
               names'[i] = req'[g].target
        PROVE  fs'[i] = 0
    <3>1. pc[g] \in {"map", "create"} /\ req'[g] = req[g] /\ req[g] \in Request
      BY <2>1 DEF TypeOK
    <3>2. req[g].target \in ToCreate
      BY <3>1, RequestFields DEF LocksInv, TargetFits, Removing
    <3>3. CASE names[i] = NoName
      BY <3>3 DEF ImagesInv, DevicesNamed
    <3>4. CASE names[i] # NoName
      <4>1. names'[i] = names[i]
        BY <2>1, <3>1, <3>2, <3>4, NamesGiven, NamesDiffer
      <4>2. g # h
        BY <2>1, <3>1, <4>1 DEF ImageMade, Named, I!Called
      <4> QED
        BY <2>1, <3>1, <4>1, <4>2 DEF ImagesInv, Unformatted, Named, I!Called
    <3> QED
      BY <3>3, <3>4
  <2>2. \A g \in Host : pc'[g] = "mkfs" => pc[g] = "mkfs"
    OBVIOUS
  <2> QED
    BY <2>1, <2>2 DEF ImagesInv, Unformatted, Named, I!Called
<1> QED
  BY <1>1, <1>2 DEF ImagesInv

\* What a Remove does to names is a NamesMove.
LEMMA RemoveNames ==
  ASSUME TypeOK, LocksInv, NEW h \in Host, RemoveStep(h)
  PROVE  NamesMove(h) /\ UNCHANGED <<fs, dev>>
<1>1. /\ req[h].target = req[h].name /\ req[h].target \in ToRemove
      /\ number[h] \in I!Number
  BY RemoveMoves, RequestFields DEF LocksInv, TargetFits, TypeOK, Removing
<1>2. I!Trash(number[h], req[h].name) \in BackupNames
  BY <1>1, NamesDiffer
<1> QED
  BY <1>1, <1>2
     DEF RemoveStep, RemoveMissing, RemoveFound, Delete, ImageDeleted, ListPool, ListPoolFail,
         Rename, ImageRenamed, NamesMove, cephVars

\* Every step keeps the image between rbd create and mkfs the handler's own.
LEMMA ImagesStep ==
  ASSUME TypeOK, LocksInv, ImagesInv, [Next]_vars
  PROVE  ImagesInv'
<1>1. CASE UNCHANGED vars
  <2>1. Quiet /\ guarded' = guarded
    BY <1>1 DEF vars, procVars, cephVars, Quiet
  <2> QED
    BY <2>1, QuietImages
<1> SUFFICES ASSUME Next PROVE ImagesInv'
  BY <1>1
<1>g. guarded' => guarded
  BY DEF Next
<1>2. CASE Quiet
  BY <1>2, <1>g, QuietImages
<1>3. ASSUME NEW h \in Host, RemoveStep(h) PROVE ImagesInv'
  <2>1. /\ pc[h] # "idle" /\ pc'[h] \notin {"map", "mkfs"}
        /\ \A g \in Host : g # h => pc'[g] = pc[g] /\ req'[g] = req[g]
    BY <1>3, RemoveMoves DEF Removing, S!Return, S!Goto, TypeOK
  <2> QED
    BY <1>3, <1>g, <2>1, RemoveNames, NamesImages
<1>4. ASSUME NEW h \in Host, CreateImage(h) \/ CreateImageFail(h) PROVE ImagesInv'
  <2>1. /\ NamesMove(h) /\ UNCHANGED <<fs, dev, req>>
        /\ pc[h] = "create" /\ pc'[h] # "mkfs" /\ (pc'[h] = "map" => ImageMade(h))
        /\ \A g \in Host : g # h => pc'[g] = pc[g]
    BY <1>4, RequestFields
       DEF CreateImage, CreateImageFail, NamesMove, Goto, S!Goto, TypeOK, LocksInv, TargetFits,
           Removing
  <2> QED
    BY <1>g, <2>1, NamesImages
<1>5. ASSUME NEW h \in Host, Map(h) PROVE ImagesInv'
  <2> USE DEF ImagesInv, TypeOK
  <2>1. PICK i \in Named(h) : dev' = [dev EXCEPT ![h] = i]
    BY <1>5 DEF Map
  <2>2. /\ pc[h] = "map" /\ pc' = [pc EXCEPT ![h] = "mkfs"]
        /\ UNCHANGED <<names, fs, req>>
        /\ i \in Image /\ names[i] = req[h].target /\ req[h].target \in ToCreate
    BY <1>5, <2>1, RequestFields
       DEF Map, Named, I!Called, Goto, S!Goto, LocksInv, TargetFits, Removing
  <2>3. DevicesNamed'
    BY <2>1, <2>2, NamesDiffer DEF DevicesNamed
  <2>4. ASSUME guarded, ~Options, BackupsApart, NEW g \in Host, g # h, pc[g] = "mkfs"
        PROVE  dev[g] # i
    <3>1. req[g].target # req[h].target
      BY <2>2, <2>4, OneCreator DEF Working
    <3>2. names[dev[g]] \in {Gone, req[g].target} \union BackupNames
      BY <2>4 DEF DevicesNamed
    <3> QED
      BY <2>2, <2>4, <3>1, <3>2, NamesDiffer
  <2>5. Unformatted'
    BY <1>g, <2>1, <2>2, <2>4 DEF Unformatted, Named, I!Called
  <2> QED
    BY <2>3, <2>5
<1>6. ASSUME NEW h \in Host, Mkfs(h) \/ MkfsFail(h) PROVE ImagesInv'
  <2> USE DEF ImagesInv, TypeOK
  <2>1. /\ pc[h] = "mkfs" /\ pc'[h] \in {"unmap", "drop"}
        /\ \A g \in Host : g # h => pc'[g] = pc[g]
        /\ UNCHANGED <<names, dev, req>>
        /\ UNCHANGED fs \/ fs' = [fs EXCEPT ![dev[h]] = @ + 1]
        /\ dev[h] \in Image
    BY <1>6 DEF Mkfs, MkfsFail, Formatted, Goto, S!Goto
  <2>2. DevicesNamed'
    BY <2>1 DEF DevicesNamed
  <2>3. Unformatted'
    <3> SUFFICES ASSUME guarded, ~Options, BackupsApart PROVE Unformatted'
      BY <1>g DEF Unformatted
    <3>1. ASSUME NEW g \in Host, g # h, pc[g] = "map", NEW i \in Named(g)
          PROVE  i # dev[h]
      <4>1. req[g].target # req[h].target /\ req[g].target \in ToCreate
        BY <2>1, <3>1, OneCreator, RequestFields
           DEF Working, LocksInv, TargetFits, Removing
      <4>2. names[dev[h]] \in {Gone, req[h].target} \union BackupNames
        BY <2>1 DEF DevicesNamed
      <4> QED
        BY <3>1, <4>1, <4>2, NamesDiffer DEF Named, I!Called
    <3>2. \A g \in Host : pc'[g] = "map" =>
             \A i \in Named(g) : i # dev[h] /\ fs[i] = 0
      BY <2>1, <3>1 DEF Unformatted
    <3>3. Named(h)' = Named(h) /\ \A g \in Host : Named(g)' = Named(g)
      BY <2>1 DEF Named, I!Called
    <3>4. \A g \in Host : pc'[g] = "map" => \A i \in Named(g)' : fs'[i] = 0
      BY <2>1, <3>2, <3>3 DEF Named, I!Called
    <3>5. \A g \in Host : pc'[g] = "mkfs" => fs'[dev'[g]] = 0
      BY <2>1 DEF Unformatted
    <3>6. \A i \in Image : fs'[i] <= 1
      BY <2>1 DEF Unformatted
    <3>7. \A f, g \in Host : f # g /\ pc'[f] = "mkfs" /\ pc'[g] = "mkfs" => dev'[f] # dev'[g]
      BY <2>1 DEF Unformatted
    <3> QED
      BY <3>4, <3>5, <3>6, <3>7 DEF Unformatted
  <2> QED
    BY <2>2, <2>3
<1> QED
  BY <1>2, <1>3, <1>4, <1>5, <1>6, QuietSteps DEF ImageStep

-----------------------------------------------------------------------------
(***************************************************************************)
(* Backup numbers.                                                         *)
(***************************************************************************)
NumbersInv == ActionsFit /\ NumbersUsed

LEMMA QuietNumbers == ASSUME NumbersInv, Quiet PROVE NumbersInv'
BY DEF NumbersInv, Quiet, ActionsFit, NumbersUsed, Used, I!Called

\* A backup name that is taken stays taken, if no request speaks of it.
LEMMA UsedStays ==
  ASSUME TypeOK, NEW h \in Host, NamesMove(h),
         NEW j \in I!Number, NEW n \in ToRemove, I!LeftAlone(n), Used(j, n)
  PROVE  Used(j, n)'
<1>1. PICK i \in Image : names[i] = I!Trash(j, n)
  BY DEF Used, I!Called
<1>2. I!Trash(j, n) # NoName /\ I!Trash(j, n) \notin ToRemove
  BY NamesDiffer DEF I!LeftAlone
<1>3. names'[i] = names[i]
  BY <1>1, <1>2 DEF NamesMove, ImageMade, Named, I!Called, TypeOK, I!TypeOK
<1> QED
  BY <1>1, <1>3 DEF Used, I!Called

\* It is new only if a Remove of that name has just made it.
LEMMA UsedNow ==
  ASSUME TypeOK, LocksInv, NEW h \in Host, ImageStep(h) \/ RemoveStep(h),
         NEW j \in I!Number, NEW n \in ToRemove, I!LeftAlone(n), Used(j, n)', ~Used(j, n)
  PROVE  Rename(h) /\ number[h] = j /\ req[h].name = n
<1>1. PICK i \in Image : names'[i] = I!Trash(j, n) /\ names[i] # I!Trash(j, n)
  BY DEF Used, I!Called
<1>2. I!Trash(j, n) \notin ToCreate /\ I!Trash(j, n) # Gone /\ n \in I!FullName
  BY NamesDiffer DEF I!LeftAlone
<1>3. CASE ImageStep(h)
  <2>1. req[h].target \in ToCreate
    BY <1>3, RequestFields
       DEF ImageStep, CreateImage, CreateImageFail, Map, Mkfs, MkfsFail, LocksInv, TargetFits,
           Removing, TypeOK
  <2> QED
    BY <1>1, <1>2, <1>3, <2>1
       DEF ImageStep, CreateImage, CreateImageFail, Map, Mkfs, MkfsFail, ImageMade, TypeOK,
           I!TypeOK
<1>4. CASE RemoveStep(h) /\ ~Rename(h)
  BY <1>1, <1>2, <1>4
     DEF RemoveStep, RemoveMissing, RemoveFound, Delete, ImageDeleted, ListPool, ListPoolFail,
         cephVars, TypeOK, I!TypeOK
<1>5. CASE Rename(h)
  <2>1. req[h].name \in I!FullName /\ number[h] \in I!Number
    BY <1>5, RequestFields DEF Rename, TypeOK
  <2>2. I!Trash(number[h], req[h].name) = I!Trash(j, n)
    BY <1>1, <1>5 DEF Rename, ImageRenamed, Named, I!Called, TypeOK, I!TypeOK
  <2> QED
    BY <1>2, <1>5, <2>1, <2>2, TrashNames
<1> QED
  BY <1>3, <1>4, <1>5

\* Every step keeps the backup numbers of a volume without a gap, if no
\* request speaks of its backups.
LEMMA NumbersStep ==
  ASSUME TypeOK, LocksInv, NumbersInv, [Next]_vars
  PROVE  NumbersInv'
<1> USE DEF NumbersInv, TypeOK
<1>1. CASE UNCHANGED vars
  BY <1>1, QuietNumbers DEF vars, procVars, cephVars, Quiet
<1> SUFFICES ASSUME Next PROVE NumbersInv'
  BY <1>1
<1>2. CASE Quiet
  BY <1>2, QuietNumbers
<1>3. ASSUME NEW h \in Host, ImageStep(h) \/ RemoveStep(h) PROVE NumbersInv'
  <2>1. NamesMove(h)
    <3>1. CASE ImageStep(h)
      BY <3>1, RequestFields
         DEF ImageStep, CreateImage, CreateImageFail, Map, Mkfs, MkfsFail, NamesMove, LocksInv,
             TargetFits, Removing
    <3> QED
      BY <1>3, <3>1, RemoveNames
  <2>2. \A g \in Host : g # h =>
           pc'[g] = pc[g] /\ req'[g] = req[g] /\ number'[g] = number[g]
    BY <1>3
       DEF ImageStep, CreateImage, CreateImageFail, Map, Mkfs, MkfsFail, RemoveStep,
           RemoveMissing, RemoveFound, Delete, ListPool, ListPoolFail, Rename,
           Goto, S!Goto, S!Return
  <2>3. /\ ListPool(h) \/ pc'[h] # "rename"
        /\ ActionsFit'
    BY <1>3
       DEF ImageStep, CreateImage, CreateImageFail, Map, Mkfs, MkfsFail, RemoveStep,
           RemoveMissing, RemoveFound, Delete, ListPool, ListPoolFail, Rename,
           Goto, S!Goto, S!Return, ActionsFit
  <2>4. ASSUME NEW n \in ToRemove, I!LeftAlone(n), NEW j \in I!Number, NEW k \in I!Number,
               j < k, Used(k, n)'
        PROVE  Used(j, n)'
    <3>1. Used(j, n) => Used(j, n)'
      BY <2>1, <2>4, UsedStays
    <3>2. CASE Used(k, n)
      BY <2>4, <3>1, <3>2 DEF NumbersUsed
    <3>3. CASE ~Used(k, n)
      <4>1. Rename(h) /\ number[h] = k /\ req[h].name = n
        BY <1>3, <2>4, <3>3, UsedNow
      <4> QED
        BY <2>4, <3>1, <4>1 DEF NumbersUsed, Rename
    <3> QED
      BY <3>2, <3>3
  <2>5. ASSUME NEW g \in Host, pc'[g] = "rename", I!LeftAlone(req'[g].name),
               NEW j \in I!Number, j < number'[g]
        PROVE  \E i \in Image : names'[i] = I!Trash(j, req'[g].name)
    <3>1. CASE g # h
      <4>1. pc[g] = "rename" /\ req'[g] = req[g] /\ number'[g] = number[g]
        BY <2>2, <2>5, <3>1
      <4>2. PICK n \in ToRemove : n = req[g].name
        BY <4>1, RequestFields DEF LocksInv, TargetFits, Removing
      <4>3. Used(j, n)
        BY <2>5, <4>1, <4>2 DEF NumbersUsed
      <4>4. Used(j, n)'
        BY <2>1, <2>5, <4>1, <4>2, <4>3, UsedStays
      <4> QED
        BY <4>1, <4>2, <4>4 DEF Used, I!Called
    <3>2. CASE g = h
      <4>1. ListPool(h)
        BY <2>3, <2>5, <3>2
      <4>2. PICK n \in ToRemove : n = req[h].name
        BY <4>1, RequestFields DEF ListPool, LocksInv, TargetFits, Removing
      <4>3. PICK k \in I!Number : BackupNumber(n, k) /\ number' = [number EXCEPT ![h] = k]
        BY <4>1, <4>2 DEF ListPool
      <4>4. UNCHANGED <<names, req>>
        BY <4>1 DEF ListPool, Goto, cephVars
      <4>5. j < k /\ I!LeftAlone(n)
        BY <2>5, <3>2, <4>2, <4>3, <4>4
      <4>6. k - 1 \in I!Number /\ (j = k - 1 \/ j < k - 1) /\ k # 0
        BY <4>5, ProvisionAssumption DEF I!Number
      <4>7. {p[2] : p \in {q \in Alike : q[1] = n}} = {}
        BY <4>5 DEF I!LeftAlone
      <4>8. Backups(n, k - 1) = I!Called(I!Trash(k - 1, n))
        BY <4>7 DEF Backups
      <4>9. Used(k - 1, n)
        BY <4>3, <4>6, <4>8 DEF BackupNumber, Used
      <4>10. Used(j, n)
        BY <4>5, <4>6, <4>9 DEF NumbersUsed
      <4> QED
        BY <3>2, <4>2, <4>4, <4>10 DEF Used, I!Called
    <3> QED
      BY <3>1, <3>2
  <2> QED
    BY <2>3, <2>4, <2>5 DEF NumbersUsed, Used, I!Called
<1> QED
  BY <1>2, <1>3, QuietSteps

-----------------------------------------------------------------------------
(***************************************************************************)
(* The inductive invariant and what follows from it.                       *)
(***************************************************************************)
LEMMA InvInit == Init => IInv
<1> SUFFICES ASSUME Init PROVE IInv
  OBVIOUS
<1> USE DEF Init, S!Init, S!E!Init, I!Init
<1>1. TargetFits /\ ActionsFit /\ SessionsOwned /\ MutexesFit
  BY DEF TargetFits, ActionsFit, SessionsOwned, MutexesFit, Removing
<1>2. LocksExclude
  BY DEF LocksExclude, HasLock, Working, S!E!RWExclusion
<1>3. DevicesNamed /\ Unformatted
  BY NullNamesAssumption DEF DevicesNamed, Unformatted
<1>4. NumbersUsed
  BY NamesDiffer DEF NumbersUsed, Used, I!Called
<1> QED
  BY <1>1, <1>2, <1>3, <1>4 DEF IInv

LEMMA InvStep == TypeOK /\ IInv /\ [Next]_vars => IInv'
BY LocksStep, ImagesStep, NumbersStep DEF IInv, LocksInv, ImagesInv, NumbersInv

(***************************************************************************)
(* Whatever hosts do and whatever fails, locks stay with their sessions,   *)
(* devices with their images, and the backup numbers of a volume have no   *)
(* gap as long as no request speaks of a backup of it.                     *)
(***************************************************************************)
THEOREM Invariant == Spec => []IInv
BY TypeCorrect, InvInit, InvStep, PTL DEF Spec

(***************************************************************************)
(* Where the options cannot carry a name of their own (driver.go:207       *)
(* locks the name of the request), no image ever gets a second filesystem, *)
(* unless a Create has gone on without its lock; and unless a volume is    *)
(* created under a name that a Remove may give to a backup (driver.go:363).*)
(***************************************************************************)
THEOREM FormatsOnce ==
  ASSUME ~Options, BackupsApart
  PROVE  Spec => []NeverReformatted
<1>1. IInv => NeverReformatted
  BY DEF IInv, Unformatted, NeverReformatted
<1> QED
  BY <1>1, Invariant, PTL

\* What CreateKeysAccounted says of each key.
Accounted(k) ==
    \/ k \in left
    \/ \E h \in Host : mine[h] = k /\ pc[h] \in Working
    \/ \A h \in Host : ~(watcher[h] = "watching" /\ session[h] = k.sess)

\* Every step leaves a create lock with someone.
LEMMA AccountedStep ==
  ASSUME TypeOK, LocksInv, [Next]_vars, NEW k \in keys', k \in keys => Accounted(k)
  PROVE  Accounted(k)'
<1> USE KeyFields DEF TypeOK
<1>1. CASE UNCHANGED vars
  BY <1>1 DEF vars, procVars, lockVars, Accounted
<1> SUFFICES ASSUME Next PROVE Accounted(k)'
  BY <1>1
<1>2. ASSUME NEW h \in Host, UnlockFail(h) PROVE Accounted(k)'
  BY <1>2, NullNamesAssumption DEF UnlockFail, S!Return, S!Goto, lockVars, Accounted
<1> SUFFICES ASSUME left' = left \intersect keys',
                    \/ \E h \in Host : CreateStep(h) \/ RemoveStep(h) \/ Environment(h)
                    \/ \E s \in S!Session : LeaseEnds(s)
             PROVE  Accounted(k)'
  BY <1>2 DEF Next
<1>3. ASSUME NEW s \in S!Session, LeaseEnds(s) PROVE Accounted(k)'
  BY <1>3 DEF LeaseEnds, S!AbandonedLeaseEnds, S!E!Expire, S!procVars, Accounted
<1>4. ASSUME NEW h \in Host, S!NewSession(h), UNCHANGED <<pc, mine>>,
             watcher' = [watcher EXCEPT ![h] = "watching"]
      PROVE  Accounted(k)'
  <2>1. /\ session' = [session EXCEPT ![h] = lastSession'] /\ keys' = keys
        /\ lastSession' = lastSession + 1 /\ lastSession \in Nat
    BY <1>4, NewSessionType
  <2>2. k.sess \in Nat /\ k.sess <= lastSession
    BY <2>1 DEF LocksInv, SessionsOwned
  <2> QED
    BY <1>4, <2>1, <2>2 DEF Accounted
<1>5. ASSUME NEW h \in Host, SessionStep(h) PROVE Accounted(k)'
  <2>1. CASE S!Start(h) \/ S!Recreate(h)
    BY <1>4, <2>1 DEF S!Start, S!Recreate, Accounted
  <2>2. CASE S!StartFail(h) \/ S!LeaseLost(h) \/ S!SessionDone(h) \/ S!RecreateFail(h)
    BY <2>2 DEF S!StartFail, S!LeaseLost, S!SessionDone, S!RecreateFail, S!E!Expire,
                S!procVars, Accounted
  <2> QED
    BY <1>5, <2>1, <2>2 DEF SessionStep, S!SessionStep
\* The handler of h forgets its mutex, and the key, if it is that mutex's, is
\* not of a session that somebody else has.
<1>6. ASSUME NEW h \in Host, S!Return(h) \/ S!ProcessGone(h), UNCHANGED keys,
             session'[h] = 0, \A g \in Host : g # h => session'[g] = session[g],
             UNCHANGED watcher \/ watcher' = [watcher EXCEPT ![h] = "down"]
      PROVE  Accounted(k)'
  <2>1. mine[h] = k => \A g \in Host : session'[g] # k.sess
    BY <1>6, NullNamesAssumption DEF LocksInv, SessionsOwned
  <2> QED
    BY <1>6, <2>1 DEF S!Return, S!ProcessGone, S!Goto, Accounted
<1>7. ASSUME NEW h \in Host, Crash(h) \/ Reboot(h) PROVE Accounted(k)'
  BY <1>6, <1>7 DEF Crash, Reboot, S!Crash, S!Reboot, S!ProcessGone
<1>8. ASSUME NEW h \in Host,
             \/ \E n, t \in ToCreate : BeginCreate(h, n, t)
             \/ \E n \in ToRemove : BeginRemove(h, n)
             \/ Reap(h) \/ RemoveStep(h)
             \/ LockCreate(h) \/ NewMutex(h) \/ AcquireFail(h)
      PROVE  Accounted(k)'
  <2>1. UNCHANGED lockVars
    BY <1>8, RemoveMoves
       DEF BeginCreate, BeginRemove, Reap, LockCreate, NewMutex, AcquireFail, procVars
  <2>2. CASE UNCHANGED <<pc, mine>>
    BY <2>1, <2>2 DEF lockVars, Accounted
  <2>3. CASE ~UNCHANGED <<pc, mine>>
    <3>1. /\ pc[h] \notin Working
          /\ \A g \in Host : g # h => pc'[g] = pc[g] /\ mine'[g] = mine[g]
      BY <1>8, <2>3, RemoveMoves
         DEF BeginCreate, BeginRemove, Reap, LockCreate, NewMutex, AcquireFail, procVars,
             Goto, S!Goto, S!Return, Working, Removing
    <3> QED
      BY <2>1, <3>1 DEF lockVars, Accounted
  <2> QED
    BY <2>2, <2>3
<1>9. ASSUME NEW h \in Host, Acquire(h) PROVE Accounted(k)'
  BY <1>9, NullNamesAssumption
     DEF Acquire, S!E!Acquire, Goto, S!Goto, Working, Accounted
<1>10. ASSUME NEW h \in Host, WorkStep(h) PROVE Accounted(k)'
  BY <1>10, WorkMoves DEF lockVars, Accounted
<1>11. ASSUME NEW h \in Host, Unlock(h) PROVE Accounted(k)'
  <2>1. CASE session[h] = 0
    BY <1>6, <1>11, <2>1 DEF Unlock
  <2>2. CASE session[h] # 0
    BY <1>11, <2>2, NullNamesAssumption
       DEF Unlock, S!E!Release, S!Return, S!Goto, Accounted
  <2> QED
    BY <2>1, <2>2
<1>12. ASSUME NEW h \in Host, CreateStep(h) PROVE Accounted(k)'
  BY <1>8, <1>9, <1>10, <1>11, <1>12 DEF CreateStep, WorkStep
<1>13. ASSUME NEW h \in Host, Environment(h) PROVE Accounted(k)'
  BY <1>5, <1>7, <1>8, <1>13 DEF Environment
<1> QED
  BY <1>3, <1>8, <1>12, <1>13

(***************************************************************************)
(* No lock of a Create stays in etcd, refreshed by a plugin whose handler  *)
(* has forgotten it, except where Unlock itself failed.                    *)
(***************************************************************************)
THEOREM CreateKeys == Spec => []CreateKeysAccounted
<1>1. Init => CreateKeysAccounted
  BY DEF Init, S!Init, S!E!Init, CreateKeysAccounted
<1>2. TypeOK /\ IInv /\ CreateKeysAccounted /\ [Next]_vars => CreateKeysAccounted'
  <2> SUFFICES ASSUME TypeOK, IInv, CreateKeysAccounted, [Next]_vars, NEW k \in keys'
               PROVE  Accounted(k)'
    BY DEF CreateKeysAccounted, Accounted
  <2> QED
    BY AccountedStep DEF IInv, LocksInv, CreateKeysAccounted, Accounted
<1> QED
  BY <1>1, <1>2, TypeCorrect, Invariant, PTL DEF Spec

-----------------------------------------------------------------------------
(***************************************************************************)
(* The refinement of ImageNames.                                           *)
(***************************************************************************)
\* The backup number a Remove chose some time ago is still the next one, if
\* nobody has taken it.
LEMMA NumberStillNext ==
  ASSUME TypeOK, NumbersUsed, NEW h \in Host, pc[h] = "rename",
         req[h].name \in ToRemove, I!LeftAlone(req[h].name),
         I!Called(I!Trash(number[h], req[h].name)) = {}
  PROVE  I!NextNumber(req[h].name, number[h])
<1> DEFINE n == req[h].name  k == number[h]
<1>1. n \in ToRemove /\ k \in I!Number /\ ~Used(k, n)
  BY DEF TypeOK, Used
<1>2. \A j \in I!Number : Used(j, n) => j < k
  <2>1. \A j \in I!Number : j < k \/ j = k \/ k < j
    BY <1>1, ProvisionAssumption DEF I!Number
  <2> QED
    BY <1>1, <2>1 DEF NumbersUsed
<1>3. k = 0 \/ (k - 1 \in I!Number /\ k - 1 < k)
  BY <1>1, ProvisionAssumption DEF I!Number
<1>4. k = 0 \/ Used(k - 1, n)
  BY <1>3 DEF NumbersUsed
<1> QED
  BY <1>2, <1>4 DEF I!NextNumber, Used, I!Called

LEMMA NamesRefine ==
  TypeOK /\ IInv /\ [Next]_vars => [I!Next]_names
<1> SUFFICES ASSUME TypeOK, IInv, Next, names' # names PROVE I!Next
  BY DEF vars, cephVars
<1> USE DEF TypeOK, IInv
<1>1. PICK h \in Host : ImageStep(h) \/ RemoveStep(h)
  BY QuietSteps DEF Quiet
<1>2. /\ req[h] \in Request
      /\ ImageStep(h) => req[h].target \in ToCreate
      /\ RemoveStep(h) => req[h].target \in ToRemove /\ req[h].target = req[h].name
  BY <1>1, RemoveMoves, RequestFields
     DEF ImageStep, CreateImage, CreateImageFail, Map, Mkfs, MkfsFail, Removing, TargetFits
<1>3. CASE ImageStep(h)
  <2>1. ImageMade(h)
    BY <1>3 DEF ImageStep, CreateImage, CreateImageFail, Map, Mkfs, MkfsFail
  <2> QED
    BY <1>2, <1>3, <2>1 DEF ImageMade, Named, I!Called, I!Make, I!Next
<1>4. CASE Delete(h)
  <2>1. ImageDeleted(h) /\ "delete" \in RemoveAction
    BY <1>4 DEF Delete, ActionsFit
  <2> QED
    BY <1>2, <1>4, <2>1 DEF RemoveStep, ImageDeleted, Named, I!Called, I!Delete, I!Next
<1>5. CASE Rename(h)
  <2>1. /\ ImageRenamed(h) /\ pc[h] = "rename" /\ "rename" \in RemoveAction
        /\ number[h] \in I!Number
    BY <1>5 DEF Rename, ActionsFit
  <2>2. req[h].target \in ToRemove /\ req[h].target = req[h].name
    BY <1>2, <1>5 DEF RemoveStep
  <2>3. /\ I!Called(I!Trash(number[h], req[h].name)) = {}
        /\ I!LeftAlone(req[h].name) => I!NextNumber(req[h].name, number[h])
    BY <2>1, <2>2, NumberStillNext DEF ImageRenamed
  <2>4. PICK i \in Named(h) : names' = [names EXCEPT ![i] = I!Trash(number[h], req[h].name)]
    BY <2>1 DEF ImageRenamed
  <2>5. I!Keep(i, req[h].name)
    BY <2>1, <2>2, <2>3, <2>4 DEF Named, I!Called, I!Keep
  <2> QED
    BY <2>2, <2>4, <2>5 DEF Named, I!Called, I!Next
<1> QED
  BY <1>1, <1>3, <1>4, <1>5
     DEF RemoveStep, RemoveMissing, RemoveFound, ListPool, ListPoolFail, cephVars

(***************************************************************************)
(* Creating and removing volumes on many hosts, in many commands that may  *)
(* fail, names images as ImageNames does in single steps: no image is ever *)
(* given a name that is taken, and the backups of a volume that no request *)
(* speaks of are numbered one after another.                               *)
(***************************************************************************)
THEOREM Refinement == Spec => ImplementsImages
<1>1. Init => I!Init
  BY DEF Init
<1> QED
  BY <1>1, NamesRefine, TypeCorrect, Invariant, PTL DEF Spec, ImplementsImages, I!Spec

(***************************************************************************)
(* What the refinement is for: a name of a volume, or of a backup, never   *)
(* stands for two images, so Create, Remove and Mount, which know an image *)
(* by its name only (driver.go:1079, 1124, 449), know which one they mean. *)
(***************************************************************************)
THEOREM OneImage == Spec => []I!OneImagePerName
<1>1. I!Init => I!OneImagePerName
  BY NullNamesAssumption DEF I!Init, I!OneImagePerName
<1>2. TypeOK /\ I!OneImagePerName /\ [I!Next]_names => I!OneImagePerName'
  <2> SUFFICES ASSUME I!TypeOK, I!OneImagePerName, I!Next PROVE I!OneImagePerName'
    BY DEF TypeOK, I!OneImagePerName
  <2>1. PICK i \in Image, n \in ToCreate \union ToRemove :
            I!Make(i, n) \/ I!Keep(i, n) \/ I!Delete(i, n)
    BY DEF I!Next
  <2>2. \/ names'[i] = Gone
        \/ \A j \in Image : names[j] # names'[i]
    BY <2>1
       DEF I!Make, I!Keep, I!Delete, I!Called, I!TypeOK
  <2>3. \A j \in Image : j # i => names'[j] = names[j]
    BY <2>1 DEF I!Make, I!Keep, I!Delete, I!TypeOK
  <2> QED
    BY <2>2, <2>3, NullNamesAssumption DEF I!OneImagePerName
<1> QED
  BY <1>1, <1>2, Refinement, TypeCorrect, PTL DEF ImplementsImages, I!Spec
=============================================================================
