----------------------------- MODULE Provision ------------------------------
(***************************************************************************)
(* The Create and Remove handlers of src/cepher/driver.go on every host:   *)
(* the lock in etcd that Create takes, the commands by which it makes a    *)
(* pool, an image and a filesystem, the listing and renaming or deleting   *)
(* by which Remove disposes of an image without any lock, and beside them  *)
(* List and Path, which unmap the device Create is working on.             *)
(*                                                                         *)
(* The process, its etcd session and the goroutine that recreates it are   *)
(* those of MountLocks, with no mounts. An image has an identity of its    *)
(* own, which no program sees, since a name may lead to different images   *)
(* in the course of one request. The name of a backup is a name like any   *)
(* other: Create and Remove take it, and backups are made of backups.      *)
(***************************************************************************)
EXTENDS Integers

CONSTANTS
    Host, Mutex, MaxSession, NoKey, NoReq, UseEtcd, Faults,  \* as in MountLocks
    Name, Image, LastNumber, NoName, Gone,                   \* as in ImageNames
    ToCreate, ToRemove, Alike,                               \* as in ImageNames
    NoImage,        \* no image
    Kernel,         \* --use-rbd-kernel-module?
    RemoveAction,   \* the --remove-action of the hosts, which may differ
    CanCreate,      \* --create?
    CanCreatePools, \* --create-pools?
    Options,        \* may the options of Create carry another image name?
    CmdFaults       \* commands that may fail, a subset of Command

VARIABLES
    leases, keys, lastSession, session, watcher, pc, req, mine,
    pool,       \* the pool of the images: "absent", "made" or "ready"
    names,      \* what each image is called
    fs,         \* how many times a filesystem was made on it
    maps,       \* the images each host has mapped to devices, unmounted
    dev,        \* the image behind the handler's variable device
    number,     \* the number in Remove's backupName
    guarded,    \* history: no Create has ever gone on without its lock
    left        \* history: the keys left in etcd by an Unlock that failed

I == INSTANCE ImageNames

S == INSTANCE MountLocks WITH
         Volume <- I!FullName, Caller <- {}, NoID <- NoReq, ReuseIDs <- FALSE,
         locks <- [h \in Host |-> {}], grants <- {}

lockVars == <<leases, keys, lastSession, session, watcher>>
procVars == <<lockVars, pc, req, mine>>
cephVars == <<pool, names, fs, maps>>
vars == <<procVars, cephVars, dev, number, guarded, left>>

Command == {"info", "pool", "mkpool", "initpool", "create", "map", "mkfs",
            "unmap", "ls", "rm", "rename"}

ASSUME ProvisionAssumption ==
    /\ MaxSession \in Nat
    /\ UseEtcd \in BOOLEAN /\ Kernel \in BOOLEAN /\ Options \in BOOLEAN
    /\ CanCreate \in BOOLEAN /\ CanCreatePools \in BOOLEAN
    /\ RemoveAction \subseteq {"ignore", "delete", "rename"}
    /\ LastNumber \in Nat
    /\ ToCreate \subseteq I!FullName /\ ToRemove \subseteq I!FullName
    /\ Alike \subseteq I!FullName \X I!FullName
    /\ Faults \subseteq S!FaultKind
    /\ CmdFaults \subseteq Command

Request ==
    [op: {"create"}, name: ToCreate, target: ToCreate]
        \union {[op |-> "remove", name |-> n, target |-> n] : n \in ToRemove}

ASSUME NullNamesAssumption ==
    /\ NoKey \notin S!Key
    /\ NoReq \notin Request
    /\ NoImage \notin Image
    /\ NoName # Gone /\ {NoName, Gone} \cap I!FullName = {}

\* Where a Create is that has its lock or believes to need none.
Working == {"pool", "mkpool", "initpool", "image", "create", "map", "mkfs",
            "unmap", "drop", "created", "failed"}
Location == Working \union {"idle", "lock", "new", "acquire", "rinfo", "rls",
                            "rename", "rm"}

TypeOK ==
    /\ leases \subseteq S!Session
    /\ keys \subseteq S!Key
    /\ lastSession \in 0 .. MaxSession
    /\ session \in [Host -> 0 .. lastSession]
    /\ watcher \in [Host -> {"down", "off", "watching", "retry"}]
    /\ pc \in [Host -> Location]
    /\ req \in [Host -> Request \union {NoReq}]
    /\ mine \in [Host -> S!Key \union {NoKey}]
    /\ pool \in {"absent", "made", "ready"}
    /\ I!TypeOK
    /\ fs \in [Image -> Nat]
    /\ maps \in [Host -> SUBSET Image]
    /\ dev \in [Host -> Image \union {NoImage}]
    /\ number \in [Host -> I!Number]
    /\ guarded \in BOOLEAN
    /\ left \subseteq keys
    /\ \A h \in Host :
          /\ pc[h] # "idle" => req[h] \in Request
          /\ pc[h] = "acquire" => mine[h] \in S!Key
          /\ pc[h] \in {"mkfs", "unmap", "drop"} => dev[h] \in Image

Init ==
    /\ S!Init
    /\ pool \in {"absent", "ready"}
    /\ I!Init
    /\ fs = [i \in Image |-> 0]
    /\ maps = [h \in Host |-> {}]
    /\ dev = [h \in Host |-> NoImage]
    /\ number = [h \in Host |-> 0]
    /\ guarded = TRUE
    /\ left = {}

-----------------------------------------------------------------------------
(***************************************************************************)
(* The environment: the process and its session as in MountLocks; List and *)
(* Path, which run at any moment and unmap a device they find unmounted.   *)
(***************************************************************************)
SessionStep(h) ==
    /\ S!Start(h) \/ S!StartFail(h) \/ S!SessionStep(h)
    /\ UNCHANGED <<cephVars, dev, number>>

LeaseEnds(s) == S!AbandonedLeaseEnds(s) /\ UNCHANGED <<cephVars, dev, number>>

Forget(h) ==
    /\ dev' = [dev EXCEPT ![h] = NoImage]
    /\ number' = [number EXCEPT ![h] = 0]

\* The process dies; what it has mapped stays mapped, unless the host goes down.
Crash(h) == S!Crash(h) /\ Forget(h) /\ UNCHANGED cephVars

Reboot(h) ==
    /\ S!Reboot(h)
    /\ Forget(h)
    /\ maps' = [maps EXCEPT ![h] = {}]
    /\ UNCHANGED <<pool, names, fs>>

Reap(h) ==
    /\ S!Up(h)
    /\ \E i \in maps[h] : maps' = [maps EXCEPT ![h] = @ \ {i}]
    /\ UNCHANGED <<procVars, pool, names, fs, dev, number>>

-----------------------------------------------------------------------------
(***************************************************************************)
(* Create. The options may replace the name after the lock was taken for   *)
(* the one in the request.                                                 *)
(***************************************************************************)
Fails(command) == command \in CmdFaults

Goto(h, loc) == S!Goto(h, loc) /\ UNCHANGED <<req, mine>>

BeginCreate(h, n, t) ==
    /\ S!Up(h)
    /\ pc[h] = "idle"
    /\ Options \/ t = n
    /\ S!Goto(h, "lock")
    /\ req' = [req EXCEPT ![h] = [op |-> "create", name |-> n, target |-> t]]
    /\ UNCHANGED <<lockVars, mine, cephVars, dev, number>>

\* lockCreateVolume reads the session, nil or not, ...
LockCreate(h) ==
    /\ pc[h] = "lock"
    /\ Goto(h, IF session[h] = 0 THEN "pool" ELSE "new")
    /\ UNCHANGED <<lockVars, cephVars, dev, number>>

MutexOf(h, m, mode) == [id |-> m, sess |-> session[h], vol |-> req[h].name, mode |-> mode]

\* Mutant: a nil session is used like any other.
NewMutexUnchecked(h) ==
    /\ pc[h] = "new"
    /\ \E m \in Mutex \ S!InUse : mine' = [mine EXCEPT ![h] = MutexOf(h, m, "rw")]
    /\ S!Goto(h, "acquire")
    /\ UNCHANGED <<lockVars, req, cephVars, dev, number>>

\* Mutant: the mutex is locked with RLock.
NewMutexShared(h) ==
    /\ pc[h] = "new"
    /\ \/ session[h] = 0 /\ S!Return(h)
       \/ /\ session[h] # 0
          /\ \E m \in Mutex \ S!InUse : mine' = [mine EXCEPT ![h] = MutexOf(h, m, "ro")]
          /\ S!Goto(h, "acquire")
          /\ UNCHANGED req
    /\ UNCHANGED <<lockVars, cephVars, dev, number>>

\* ... and once more for the mutex: the call panics if it is nil by now.
NewMutex(h) ==
    /\ pc[h] = "new"
    /\ \/ session[h] = 0 /\ S!Return(h)
       \/ /\ session[h] # 0
          /\ \E m \in Mutex \ S!InUse :      \* bound: a handle is left
                mine' = [mine EXCEPT ![h] = MutexOf(h, m, "rw")]
          /\ S!Goto(h, "acquire")
          /\ UNCHANGED req
    /\ UNCHANGED <<lockVars, cephVars, dev, number>>

Acquire(h) ==
    /\ pc[h] = "acquire"
    /\ S!E!Acquire(mine[h])
    /\ Goto(h, "pool")
    /\ UNCHANGED <<lastSession, session, watcher, cephVars, dev, number>>

\* RWLock fails, after --lock-timeout or because the lease is gone.
AcquireFail(h) ==
    /\ pc[h] = "acquire"
    /\ S!Return(h)
    /\ UNCHANGED <<lockVars, cephVars, dev, number>>

\* A size that is no number, no pool in the name, or an error of ceph.
Refuse(h) ==
    /\ pc[h] = "pool"
    /\ Goto(h, "failed")
    /\ UNCHANGED <<lockVars, cephVars, dev, number>>

PoolExists(h) ==
    /\ pc[h] = "pool"
    /\ Goto(h, IF pool # "absent" THEN "image"
               ELSE IF CanCreatePools THEN "mkpool" ELSE "failed")
    /\ UNCHANGED <<lockVars, cephVars, dev, number>>

\* ceph osd pool create, which does nothing to a pool that is there.
PoolMade == pool' = IF pool = "absent" THEN "made" ELSE pool

MakePool(h) ==
    /\ pc[h] = "mkpool"
    /\ \/ PoolMade /\ Goto(h, "initpool")
       \/ Fails("mkpool") /\ (PoolMade \/ UNCHANGED pool) /\ Goto(h, "failed")
    /\ UNCHANGED <<lockVars, names, fs, maps, dev, number>>

InitPool(h) ==
    /\ pc[h] = "initpool"
    /\ \/ pool' = "ready" /\ Goto(h, "image")
       \/ Fails("initpool") /\ pool' \in {pool, "ready"} /\ Goto(h, "failed")
    /\ UNCHANGED <<lockVars, names, fs, maps, dev, number>>

Named(h) == I!Called(req[h].target)

\* rbdImageExists: the image is reused as it is.
ImageExists(h) ==
    /\ pc[h] = "image"
    /\ Named(h) # {}
    /\ Goto(h, "created")
    /\ UNCHANGED <<lockVars, cephVars, dev, number>>

\* Any error of rbd info stands for an image that is not there.
ImageMissing(h) ==
    /\ pc[h] = "image"
    /\ Named(h) = {} \/ Fails("info")
    /\ Goto(h, IF CanCreate THEN "create" ELSE "failed")
    /\ UNCHANGED <<lockVars, cephVars, dev, number>>

\* There is no mkfs for the type of filesystem that is asked for.
NoMkfs(h) ==
    /\ pc[h] = "create"
    /\ Goto(h, "failed")
    /\ UNCHANGED <<lockVars, cephVars, dev, number>>

\* rbd create refuses a name that is taken.
ImageMade(h) ==
    /\ Named(h) = {}
    /\ \E i \in I!Called(NoName) :     \* bound: there is an image left
          names' = [names EXCEPT ![i] = req[h].target]

CreateImage(h) ==
    /\ pc[h] = "create"
    /\ ImageMade(h)
    /\ Goto(h, "map")
    /\ UNCHANGED <<lockVars, pool, fs, maps, dev, number>>

CreateImageFail(h) ==
    /\ pc[h] = "create"
    /\ \/ Named(h) # {} /\ UNCHANGED names
       \/ Fails("create") /\ (ImageMade(h) \/ UNCHANGED names)
    /\ Goto(h, "failed")
    /\ UNCHANGED <<lockVars, pool, fs, maps, dev, number>>

\* rbd-nbd --exclusive refuses an image that is mapped anywhere, the kernel
\* module maps it.
MayMap(i) == Kernel \/ \A g \in Host : i \notin maps[g]

Map(h) ==
    /\ pc[h] = "map"
    /\ \E i \in Named(h) :
          /\ MayMap(i)
          /\ maps' = [maps EXCEPT ![h] = @ \union {i}]
          /\ dev' = [dev EXCEPT ![h] = i]
    /\ Goto(h, "mkfs")
    /\ UNCHANGED <<lockVars, pool, names, fs, number>>

MapFail(h) ==
    /\ pc[h] = "map"
    /\ \/ (\A i \in Named(h) : ~MayMap(i)) /\ UNCHANGED maps
       \/ Fails("map") /\ UNCHANGED maps
       \/ Fails("map") /\ \E i \in Named(h) :
             MayMap(i) /\ maps' = [maps EXCEPT ![h] = @ \union {i}]
    /\ Goto(h, "failed")
    /\ UNCHANGED <<lockVars, pool, names, fs, dev, number>>

Formatted(h) ==
    /\ dev[h] \in maps[h]
    /\ fs' = [fs EXCEPT ![dev[h]] = @ + 1]

Mkfs(h) ==
    /\ pc[h] = "mkfs"
    /\ Formatted(h)
    /\ Goto(h, "unmap")
    /\ UNCHANGED <<lockVars, pool, names, maps, dev, number>>

\* The device is gone, mkfs refuses a device with a filesystem, or it fails
\* half way; the deferred unmapping follows.
MkfsFail(h) ==
    /\ pc[h] = "mkfs"
    /\ \/ (dev[h] \notin maps[h] \/ fs[dev[h]] > 0 \/ Fails("mkfs")) /\ UNCHANGED fs
       \/ Fails("mkfs") /\ Formatted(h)
    /\ Goto(h, "drop")
    /\ UNCHANGED <<lockVars, pool, names, maps, dev, number>>

Unmapped(h) == maps' = [maps EXCEPT ![h] = @ \ {dev[h]}]

\* defer d.unmapImageDevice(device): its error is dropped.
Drop(h) ==
    /\ pc[h] = "drop"
    /\ Unmapped(h) \/ (Fails("unmap") /\ UNCHANGED maps)
    /\ dev' = [dev EXCEPT ![h] = NoImage]
    /\ Goto(h, "failed")
    /\ UNCHANGED <<lockVars, pool, names, fs, number>>

Unmap(h) ==
    /\ pc[h] = "unmap"
    /\ \/ dev[h] \in maps[h] /\ Unmapped(h) /\ Goto(h, "created")
       \/ dev[h] \notin maps[h] /\ UNCHANGED maps /\ Goto(h, "failed")
       \/ Fails("unmap") /\ (Unmapped(h) \/ UNCHANGED maps) /\ Goto(h, "failed")
    /\ dev' = [dev EXCEPT ![h] = NoImage]
    /\ UNCHANGED <<lockVars, pool, names, fs, number>>

\* Mutant: the unlocking is not deferred.
UnlockIfCreated(h) ==
    /\ pc[h] \in {"created", "failed"}
    /\ IF session[h] = 0 \/ mine[h] = NoKey \/ pc[h] = "failed"
       THEN UNCHANGED <<leases, keys>>
       ELSE S!E!Release(mine[h])
    /\ S!Return(h)
    /\ UNCHANGED <<lastSession, session, watcher, cephVars, dev, number>>

\* The deferred unlockCreateVolume: nothing is unlocked without a session,
\* and unlocking nil panics, with d.m released by then.
Unlock(h) ==
    /\ pc[h] \in {"created", "failed"}
    /\ IF session[h] = 0 \/ mine[h] = NoKey
       THEN UNCHANGED <<leases, keys>>
       ELSE S!E!Release(mine[h])
    /\ S!Return(h)
    /\ UNCHANGED <<lastSession, session, watcher, cephVars, dev, number>>

\* Unlock fails, which is logged, and the key stays.
UnlockFail(h) ==
    /\ "unlock" \in Faults
    /\ pc[h] \in {"created", "failed"}
    /\ session[h] # 0 /\ mine[h] # NoKey
    /\ left' = left \union (keys \cap {mine[h]})
    /\ S!Return(h)
    /\ UNCHANGED <<lockVars, cephVars, dev, number>>

-----------------------------------------------------------------------------
(***************************************************************************)
(* Remove, without any lock, of whatever name: a backup's is as good.      *)
(***************************************************************************)
BeginRemove(h, n) ==
    /\ S!Up(h)
    /\ pc[h] = "idle"
    /\ S!Goto(h, "rinfo")
    /\ req' = [req EXCEPT ![h] = [op |-> "remove", name |-> n, target |-> n]]
    /\ UNCHANGED <<lockVars, mine, cephVars, dev, number>>

RemoveMissing(h) ==
    /\ pc[h] = "rinfo"
    /\ Named(h) = {} \/ Fails("info")
    /\ S!Return(h)
    /\ UNCHANGED <<lockVars, cephVars, dev, number>>

RemoveFound(h) ==
    /\ pc[h] = "rinfo"
    /\ Named(h) # {}
    /\ \/ "ignore" \in RemoveAction /\ S!Return(h)
       \/ "delete" \in RemoveAction /\ Goto(h, "rm")
       \/ "rename" \in RemoveAction /\ Goto(h, "rls")
    /\ UNCHANGED <<lockVars, cephVars, dev, number>>

\* rbd rm refuses an image that is mapped.
Removable(i) == \A g \in Host : i \notin maps[g]

ImageDeleted(h) ==
    \E i \in Named(h) : Removable(i) /\ names' = [names EXCEPT ![i] = Gone]

Delete(h) ==
    /\ pc[h] = "rm"
    /\ \/ ImageDeleted(h)
       \/ (Fails("rm") \/ \A i \in Named(h) : ~Removable(i)) /\ UNCHANGED names
    /\ S!Return(h)
    /\ UNCHANGED <<lockVars, pool, fs, maps, dev, number>>

\* The pattern for the backups of n is made of n as it is, so that it may
\* match those of other names.
Backups(n, j) ==
    UNION {I!Called(I!Trash(j, m)) : m \in {n} \union {p[2] : p \in {q \in Alike : q[1] = n}}}

\* Mutant: the backups of other names count as well.
BackupNumberOfAny(n, k) ==
    /\ \A m \in ToRemove, j \in 0 .. LastNumber : Backups(m, j) # {} => j < k
    /\ k = 0 \/ \E m \in ToRemove : Backups(m, k - 1) # {}

\* generateImageBackupName: one more than the highest of the numbers that
\* have no more than three digits.
BackupNumber(n, k) ==
    /\ \A j \in 0 .. LastNumber : Backups(n, j) # {} => j < k
    /\ k = 0 \/ Backups(n, k - 1) # {}

ListPool(h) ==
    /\ pc[h] = "rls"
    /\ \E k \in I!Number :
          /\ BackupNumber(req[h].name, k)
          /\ number' = [number EXCEPT ![h] = k]
    /\ Goto(h, "rename")
    /\ UNCHANGED <<lockVars, cephVars, dev>>

ListPoolFail(h) ==
    /\ pc[h] = "rls"
    /\ Fails("ls")
    /\ S!Return(h)
    /\ UNCHANGED <<lockVars, cephVars, dev, number>>

\* rbd rename refuses a name that is taken, but not an image that is mapped.
ImageRenamed(h) ==
    LET to == I!Trash(number[h], req[h].name)
    IN  /\ I!Called(to) = {}
        /\ \E i \in Named(h) : names' = [names EXCEPT ![i] = to]

Rename(h) ==
    /\ pc[h] = "rename"
    /\ \/ ImageRenamed(h)
       \/ /\ \/ Fails("rename") \/ Named(h) = {}
             \/ I!Called(I!Trash(number[h], req[h].name)) # {}
          /\ UNCHANGED names
    /\ number' = [number EXCEPT ![h] = 0]
    /\ S!Return(h)
    /\ UNCHANGED <<lockVars, pool, fs, maps, dev>>

-----------------------------------------------------------------------------
CreateStep(h) ==
    \/ LockCreate(h) \/ NewMutex(h) \/ Acquire(h) \/ AcquireFail(h)
    \/ Refuse(h) \/ PoolExists(h) \/ MakePool(h) \/ InitPool(h)
    \/ ImageExists(h) \/ ImageMissing(h) \/ NoMkfs(h)
    \/ CreateImage(h) \/ CreateImageFail(h) \/ Map(h) \/ MapFail(h)
    \/ Mkfs(h) \/ MkfsFail(h) \/ Drop(h) \/ Unmap(h) \/ Unlock(h)

RemoveStep(h) ==
    \/ RemoveMissing(h) \/ RemoveFound(h) \/ Delete(h)
    \/ ListPool(h) \/ ListPoolFail(h) \/ Rename(h)

Environment(h) ==
    \/ SessionStep(h) \/ Crash(h) \/ Reboot(h) \/ Reap(h)
    \/ \E n, t \in ToCreate : BeginCreate(h, n, t)
    \/ \E n \in ToRemove : BeginRemove(h, n)

HasLock(h) == pc[h] \in Working => mine[h] \in keys

Next ==
    /\ \/ /\ \/ \E h \in Host : CreateStep(h) \/ RemoveStep(h) \/ Environment(h)
             \/ \E s \in S!Session : LeaseEnds(s)
          /\ left' = left \intersect keys'
       \/ \E h \in Host : UnlockFail(h)
    /\ guarded' = (guarded /\ \A h \in Host : HasLock(h)')

Spec == Init /\ [][Next]_vars

-----------------------------------------------------------------------------
(***************************************************************************)
(* As long as no Create has gone on without its lock (driver.go:534, "to   *)
(* allow only one lock at a time"), a filesystem is made on an image once  *)
(* at most: Create names the image anew in each command, and between       *)
(* rbd create and mkfs (driver.go:1124-1157) the name may come to stand    *)
(* for another image, with other people's data on it. (Not so if a volume  *)
(* may be created under the name of a backup: Remove, which takes no lock, *)
(* can then put an image full of data behind the name.)                    *)
(***************************************************************************)
NeverReformatted == guarded => \A i \in Image : fs[i] <= 1

(***************************************************************************)
(* A create lock in etcd is held by a Create that will unlock it; or its   *)
(* Unlock failed (driver.go:213); or nobody refreshes its lease any more.  *)
(* Otherwise no host could ever create that volume again.                  *)
(***************************************************************************)
CreateKeysAccounted ==
    \A k \in keys :
        \/ k \in left
        \/ \E h \in Host : mine[h] = k /\ pc[h] \in Working
        \/ \A h \in Host : ~(watcher[h] = "watching" /\ session[h] = k.sess)

(***************************************************************************)
(* Whatever hosts do at the same time, without any lock for Remove, and    *)
(* whatever commands fail half way, images are named as if each volume     *)
(* were made, and removed, in one step (driver.go:363-377 lists, chooses a *)
(* number and renames in three): a backup never takes a name that is in    *)
(* use, and the backups of a volume that nobody creates or removes by name *)
(* are numbered one after another.                                         *)
(***************************************************************************)
ImplementsImages == I!Spec
=============================================================================
