---------------------------- MODULE VolumeDriver ----------------------------
(***************************************************************************)
(* The Mount and Unmount handlers of src/cepher/driver.go in full: the     *)
(* lock protocol of MountLocks, and between its steps the commands that    *)
(* map, check, mount, unmount and unmap devices, any of which may fail,    *)
(* before it has taken effect or after: a command stopped by its time      *)
(* limit reports an error whatever it has done by then (utils.go:131).     *)
(* List and Path take no mutex: they run beside the handlers of their      *)
(* host, and like them they unmap every device they find unmounted.        *)
(*                                                                         *)
(* Mapping and mounting are the kernel's and Ceph's; what the commands do  *)
(* is assumed: rbd does not unmap a mounted device, rbd-nbd may, and       *)
(* rbd-nbd maps an image with --exclusive once in the cluster              *)
(* (driver.go:871 and 1305).                                               *)
(***************************************************************************)
EXTENDS Naturals

CONSTANTS
    Host, Volume, Caller, NoID, Mutex, MaxSession, NoKey, NoReq,
    UseEtcd, ReuseIDs, Faults,    \* as in MountLocks
    Device,       \* bound: block devices a host can have mapped at a time
    NoDev,        \* no device
    API,          \* the handler that holds d.m, as a caller of currentVolumes
    Reader,       \* its other callers, the running List and Path requests
    Kernel,       \* --use-rbd-kernel-module?
    CmdFaults,    \* commands that may fail, a subset of Command
    LateFaults    \* those of them that may fail after they have taken effect

VARIABLES
    leases, keys, lastSession, session, watcher, locks, pc, req, mine, grants,
    devs,         \* the host's mapped devices
    mnts,         \* its mounts under the plugin's root
    dirs,         \* the mount directories that exist
    at,           \* where the handler is in the body of Mount or Unmount
    dev,          \* its variable device
    scan          \* where each call of currentVolumes is, and what it knows

L == INSTANCE MountLocks

lockVars == <<leases, keys, lastSession, session, watcher, locks, pc, req, mine, grants>>
devVars == <<devs, mnts, dirs, at, dev, scan>>
vars == <<lockVars, devVars>>

Command == {"list", "map", "check", "mkdir", "mount", "umount", "unmap"}

ASSUME DriverAssumption ==
    /\ Kernel \in BOOLEAN
    /\ CmdFaults \subseteq Command
    /\ LateFaults \subseteq CmdFaults
    /\ NoDev \notin Device
    /\ API \notin Reader

ASSUME LocksAssumption ==
    /\ MaxSession \in Nat
    /\ UseEtcd \in BOOLEAN /\ ReuseIDs \in BOOLEAN
    /\ Faults \subseteq L!FaultKind
    /\ NoKey \notin L!Key
    /\ NoReq \notin L!Request

Actor == {API} \union Reader

\* mountpoint(): one directory per volume and mode.
Path == Volume \X L!Mode
PathOf(r) == <<r.vol, r.mode>>

Mapping == [dev: Device, vol: Volume, mode: L!Mode]
Mount == [dev: Device, path: Path]
Found == [path: Path, vol: Volume, dev: Device]

(***************************************************************************)
(* mapped is the list of devices, from which those found mounted have been *)
(* moved to found once the mounts are listed.                              *)
(***************************************************************************)
Scan == [at: {"off", "mounts", "reap"},
         mapped: SUBSET [dev: Device, vol: Volume], found: SUBSET Found]
NoScan == [at |-> "off", mapped |-> {}, found |-> {}]

TypeOK ==
    /\ L!TypeOK
    /\ devs \in [Host -> SUBSET Mapping]
    /\ mnts \in [Host -> SUBSET Mount]
    /\ dirs \in [Host -> SUBSET Path]
    /\ at \in [Host -> {"out", "check", "rmount", "rumount", "recheck",
                        "mkdir", "mount", "drop", "unmap"}]
    /\ dev \in [Host -> Device \union {NoDev}]
    /\ scan \in [Host -> [Actor -> Scan]]
    /\ \A h \in Host : at[h] # "out" => dev[h] # NoDev /\ pc[h] \in {"body", "umount"}

Init ==
    /\ L!Init
    /\ devs = [h \in Host |-> {}]
    /\ mnts = [h \in Host |-> {}]
    /\ dirs = [h \in Host |-> {}]
    /\ at = [h \in Host |-> "out"]
    /\ dev = [h \in Host |-> NoDev]
    /\ scan = [h \in Host |-> [p \in Actor |-> NoScan]]

-----------------------------------------------------------------------------
Mapped(h, d) == \E x \in devs[h] : x.dev = d
MountedDev(h, d) == \E m \in mnts[h] : m.dev = d

\* unmapImageDevice, and how it may end with an error.
Unmap(h, d) ==
    /\ Mapped(h, d)
    /\ Kernel => ~MountedDev(h, d)
    /\ devs' = [devs EXCEPT ![h] = {x \in devs[h] : x.dev # d}]

UnmapFails(h, d) ==
    \/ /\ ~Mapped(h, d) \/ MountedDev(h, d) \/ "unmap" \in CmdFaults
       /\ UNCHANGED devs
    \/ "unmap" \in LateFaults /\ Unmap(h, d)

-----------------------------------------------------------------------------
(***************************************************************************)
(* currentVolumes                                                          *)
(***************************************************************************)
MayScan(h, p) ==
    IF p = API THEN pc[h] \in {"body", "umount"} /\ at[h] = "out" ELSE L!Up(h)

SetScan(h, p, s) == scan' = [scan EXCEPT ![h][p] = s]

\* An error of currentVolumes makes Mount, Unmount, List and Path return one.
ScanError(h, p) ==
    /\ SetScan(h, p, NoScan)
    /\ IF p = API THEN L!BodyFail(h) \/ L!UmountDone(h) ELSE UNCHANGED lockVars
    /\ UNCHANGED <<mnts, dirs, at, dev>>

\* Mutant: it is taken for one with the kernel module too.
ListMappedLenient(h, p) ==
    /\ MayScan(h, p)
    /\ scan[h][p].at = "off"
    /\ \E M \in {{}, {[dev |-> x.dev, vol |-> x.vol] : x \in devs[h]}} :
          SetScan(h, p, [at |-> "mounts", mapped |-> M, found |-> {}])
    /\ UNCHANGED <<lockVars, devs, mnts, dirs, at, dev>>

\* Without the kernel module an error of list-mapped is taken for an empty list.
ListMapped(h, p) ==
    /\ MayScan(h, p)
    /\ scan[h][p].at = "off"
    /\ \E M \in {{[dev |-> x.dev, vol |-> x.vol] : x \in devs[h]}}
                    \union (IF "list" \in CmdFaults /\ ~Kernel THEN {{}} ELSE {}) :
          SetScan(h, p, [at |-> "mounts", mapped |-> M, found |-> {}])
    /\ UNCHANGED <<lockVars, devs, mnts, dirs, at, dev>>

\* Mutant: devices and mounts are not matched with each other.
ListMountsUnmatched(h, p) ==
    /\ scan[h][p].at = "mounts"
    /\ LET mounted == {x \in scan[h][p].mapped : MountedDev(h, x.dev)}
       IN  SetScan(h, p,
              [at |-> "reap",
               mapped |-> scan[h][p].mapped \ mounted,
               found |-> {[path |-> m.path, vol |-> x.vol, dev |-> x.dev] :
                            x \in mounted, m \in mnts[h]}])
    /\ UNCHANGED <<lockVars, devs, mnts, dirs, at, dev>>

\* Of a device mounted on several paths one is found.
ListMounts(h, p) ==
    /\ scan[h][p].at = "mounts"
    /\ LET mounted == {x \in scan[h][p].mapped : MountedDev(h, x.dev)}
       IN  \E mount \in [mounted -> mnts[h]] :
              /\ \A x \in mounted : mount[x].dev = x.dev
              /\ SetScan(h, p,
                    [at |-> "reap",
                     mapped |-> scan[h][p].mapped \ mounted,
                     found |-> {[path |-> mount[x].path, vol |-> x.vol, dev |-> x.dev] :
                                  x \in mounted}])
    /\ UNCHANGED <<lockVars, devs, mnts, dirs, at, dev>>

ListFails(h, p) ==
    /\ "list" \in CmdFaults
    /\ \/ MayScan(h, p) /\ scan[h][p].at = "off" /\ Kernel
       \/ scan[h][p].at = "mounts"
    /\ ScanError(h, p)
    /\ UNCHANGED devs

\* Mutant: an unmounted device that cannot be unmapped is passed over.
ReapPassesOver(h, p) ==
    /\ scan[h][p].at = "reap"
    /\ \E x \in scan[h][p].mapped :
          /\ Unmap(h, x.dev) \/ UnmapFails(h, x.dev)
          /\ SetScan(h, p, [scan[h][p] EXCEPT !.mapped = @ \ {x}])
    /\ UNCHANGED <<lockVars, mnts, dirs, at, dev>>

\* A device that was not mounted when the mounts were listed is unmapped.
Reap(h, p) ==
    /\ scan[h][p].at = "reap"
    /\ \E x \in scan[h][p].mapped :
          \/ /\ Unmap(h, x.dev)
             /\ SetScan(h, p, [scan[h][p] EXCEPT !.mapped = @ \ {x}])
             /\ UNCHANGED <<lockVars, mnts, dirs, at, dev>>
          \/ UnmapFails(h, x.dev) /\ ScanError(h, p)

Scanned(h, p) == scan[h][p].at = "reap" /\ scan[h][p].mapped = {}

\* List and Path reply.
Reply(h, p) ==
    /\ p \in Reader
    /\ Scanned(h, p)
    /\ SetScan(h, p, NoScan)
    /\ UNCHANGED <<lockVars, devs, mnts, dirs, at, dev>>

-----------------------------------------------------------------------------
(***************************************************************************)
(* The body of Mount.                                                      *)
(***************************************************************************)
\* Mutant: a mount of the volume in the other mode will do.
FoundInAnyMode(h) == {f \in scan[h][API].found : f.vol = req[h].vol}

FoundHere(h) == {f \in scan[h][API].found : f.path = PathOf(req[h])}

Move(h, place) == at' = [at EXCEPT ![h] = place]
Leave(h) ==
    /\ Move(h, "out")
    /\ dev' = [dev EXCEPT ![h] = NoDev]

MountReuse(h) ==
    /\ Scanned(h, API)
    /\ FoundHere(h) # {}
    /\ L!BodyOk(h)
    /\ SetScan(h, API, NoScan)
    /\ UNCHANGED <<devs, mnts, dirs, at, dev>>

\* Mutant: rbd-nbd without --exclusive.
MayMapShared(h) == Kernel \/ req[h].mode = "rw" \/ session[h] # 0

\* mapImageToDevice: the kernel module does not know about modes; rbd-nbd is
\* exclusive for writing, and for reading wants to see an etcd session.
MayMap(h) ==
    \/ Kernel
    \/ req[h].mode = "rw" /\ \A i \in Host : \A x \in devs[i] :
                                x.vol = req[h].vol => x.mode = "ro"
    \/ req[h].mode = "ro" /\ session[h] # 0

MapTo(h, d) ==
    /\ MayMap(h)
    /\ ~Mapped(h, d)
    /\ devs' = [devs EXCEPT ![h] = devs[h] \union
           {[dev |-> d, vol |-> req[h].vol, mode |-> req[h].mode]}]

MapFails(h) ==
    \/ /\ "map" \in CmdFaults \/ ~MayMap(h) \/ \A d \in Device : Mapped(h, d)
       /\ UNCHANGED devs
    \/ "map" \in LateFaults /\ \E d \in Device : MapTo(h, d)

Map(h) ==
    /\ pc[h] = "body"
    /\ Scanned(h, API)
    /\ FoundHere(h) = {}
    /\ \E d \in Device : MapTo(h, d) /\ dev' = [dev EXCEPT ![h] = d]
    /\ Move(h, "check")
    /\ SetScan(h, API, NoScan)
    /\ UNCHANGED <<lockVars, mnts, dirs>>

\* Mutant: the error of mapping is not looked at.
MapFailGoesOn(h) ==
    /\ Scanned(h, API)
    /\ FoundHere(h) = {}
    /\ MapFails(h)
    /\ pc[h] = "body"
    /\ Move(h, "check")
    /\ SetScan(h, API, NoScan)
    /\ UNCHANGED <<lockVars, mnts, dirs, dev>>

\* Mutant: the error is returned before the deferred unlock is set up.
MapFailReturns(h) ==
    /\ pc[h] = "body"
    /\ Scanned(h, API)
    /\ FoundHere(h) = {}
    /\ MapFails(h)
    /\ L!Return(h)
    /\ SetScan(h, API, NoScan)
    /\ UNCHANGED <<leases, keys, lastSession, session, watcher, locks, grants>>
    /\ UNCHANGED <<mnts, dirs, at, dev>>

\* Mount does not know of a device that was mapped in spite of the error.
MapFail(h) ==
    /\ Scanned(h, API)
    /\ FoundHere(h) = {}
    /\ MapFails(h)
    /\ L!BodyFail(h)
    /\ SetScan(h, API, NoScan)
    /\ UNCHANGED <<mnts, dirs, at, dev>>

\* checkDeviceFilesystem: an XFS that does not pass is repaired by mounting
\* and unmounting it if it may be written to.
Check(h) ==
    /\ at[h] = "check"
    /\ \/ Move(h, "mkdir")
       \/ /\ "check" \in CmdFaults \/ ~Mapped(h, dev[h])
          /\ Move(h, IF req[h].mode = "rw" THEN "rmount" ELSE "drop")
    /\ UNCHANGED <<lockVars, devs, mnts, dirs, dev, scan>>

\* mountDeviceToPath
MountPath(h) ==
    /\ Mapped(h, dev[h])
    /\ PathOf(req[h]) \in dirs[h]
    /\ mnts' = [mnts EXCEPT ![h] = mnts[h] \union {[dev |-> dev[h], path |-> PathOf(req[h])]}]

MountPathFails(h) ==
    \/ /\ "mount" \in CmdFaults \/ ~Mapped(h, dev[h]) \/ PathOf(req[h]) \notin dirs[h]
       /\ UNCHANGED mnts
    \/ "mount" \in LateFaults /\ MountPath(h)

\* unmountPath: what was mounted on the directory last, or anything if unknown.
UnmountPath(h) ==
    \E m \in mnts[h] :
        /\ m.path = PathOf(req[h])
        /\ mnts' = [mnts EXCEPT ![h] = mnts[h] \ {m}]

UnmountPathFails(h) ==
    \/ /\ "umount" \in CmdFaults \/ \A m \in mnts[h] : m.path # PathOf(req[h])
       /\ UNCHANGED mnts
    \/ "umount" \in LateFaults /\ UnmountPath(h)

\* attemptLimitedXFSRepair
RepairMount(h) ==
    /\ at[h] = "rmount"
    /\ \/ MountPath(h) /\ Move(h, "rumount")
       \/ MountPathFails(h) /\ Move(h, "drop")
    /\ UNCHANGED <<lockVars, devs, dirs, dev, scan>>

RepairUmount(h) ==
    /\ at[h] = "rumount"
    /\ \/ UnmountPath(h) /\ Move(h, "recheck")
       \/ UnmountPathFails(h) /\ Move(h, "drop")
    /\ UNCHANGED <<lockVars, devs, dirs, dev, scan>>

\* Mutant: the repair is tried until it helps.
RecheckAgain(h) ==
    /\ at[h] = "recheck"
    /\ (Mapped(h, dev[h]) /\ Move(h, "mkdir")) \/ Move(h, "rmount")
    /\ UNCHANGED <<lockVars, devs, mnts, dirs, dev, scan>>

Recheck(h) ==
    /\ at[h] = "recheck"
    /\ (Mapped(h, dev[h]) /\ Move(h, "mkdir")) \/ Move(h, "drop")
    /\ UNCHANGED <<lockVars, devs, mnts, dirs, dev, scan>>

\* os.MkdirAll
MkDir(h) ==
    /\ at[h] = "mkdir"
    /\ \/ /\ dirs' = [dirs EXCEPT ![h] = dirs[h] \union {PathOf(req[h])}]
          /\ Move(h, "mount")
       \/ /\ "mkdir" \in CmdFaults
          /\ Move(h, "drop")
          /\ UNCHANGED dirs
    /\ UNCHANGED <<lockVars, devs, mnts, dev, scan>>

MountOk(h) ==
    /\ at[h] = "mount"
    /\ MountPath(h)
    /\ L!BodyOk(h)
    /\ Leave(h)
    /\ UNCHANGED <<devs, dirs, scan>>

MountFail(h) ==
    /\ at[h] = "mount"
    /\ MountPathFails(h)
    /\ Move(h, "drop")
    /\ UNCHANGED <<lockVars, devs, dirs, dev, scan>>

\* Mutant: Mount returns its error without the deferred unlock.
DropReturns(h) ==
    /\ at[h] = "drop"
    /\ Unmap(h, dev[h]) \/ UnmapFails(h, dev[h])
    /\ L!Return(h)
    /\ UNCHANGED <<leases, keys, lastSession, session, watcher, locks, grants>>
    /\ Leave(h)
    /\ UNCHANGED <<mnts, dirs, scan>>

\* The deferred unmapping, whose error is dropped; the deferred unlock follows.
Drop(h) ==
    /\ at[h] = "drop"
    /\ Unmap(h, dev[h]) \/ UnmapFails(h, dev[h])
    /\ L!BodyFail(h)
    /\ Leave(h)
    /\ UNCHANGED <<mnts, dirs, scan>>

-----------------------------------------------------------------------------
(***************************************************************************)
(* The body of Unmount.                                                    *)
(***************************************************************************)
UmountOk(h) ==
    /\ pc[h] = "umount"
    /\ Scanned(h, API)
    /\ UnmountPath(h)
    /\ \E f \in FoundHere(h) : dev' = [dev EXCEPT ![h] = f.dev]
    /\ Move(h, "unmap")
    /\ SetScan(h, API, NoScan)
    /\ UNCHANGED <<lockVars, devs, dirs>>

UmountFail(h) ==
    /\ Scanned(h, API)
    /\ \/ FoundHere(h) = {} /\ UNCHANGED mnts
       \/ FoundHere(h) # {} /\ UnmountPathFails(h)
    /\ L!UmountDone(h)
    /\ SetScan(h, API, NoScan)
    /\ UNCHANGED <<devs, dirs, at, dev>>

\* Mutant: the device is left mapped.
UnmapLastForgets(h) ==
    /\ at[h] = "unmap"
    /\ L!UmountDone(h)
    /\ Leave(h)
    /\ UNCHANGED <<devs, mnts, dirs, scan>>

UnmapLast(h) ==
    /\ at[h] = "unmap"
    /\ Unmap(h, dev[h]) \/ UnmapFails(h, dev[h])
    /\ L!UmountDone(h)
    /\ Leave(h)
    /\ UNCHANGED <<mnts, dirs, scan>>

-----------------------------------------------------------------------------
ScanStep(h, p) ==
    ListMapped(h, p) \/ ListMounts(h, p) \/ ListFails(h, p) \/ Reap(h, p) \/ Reply(h, p)

MountStep(h) ==
    \/ MountReuse(h) \/ Map(h) \/ MapFail(h) \/ Check(h)
    \/ RepairMount(h) \/ RepairUmount(h) \/ Recheck(h)
    \/ MkDir(h) \/ MountOk(h) \/ MountFail(h) \/ Drop(h)

UnmountStep(h) == UmountOk(h) \/ UmountFail(h) \/ UnmapLast(h)

\* Steps that concern locks and sessions alone.
LockStep(h) ==
    /\ \/ L!LockStep(h) \/ L!SessionStep(h) \/ L!Start(h) \/ L!StartFail(h)
       \/ \E v \in Volume, m \in L!Mode, c \in Caller :
             L!BeginMount(h, v, m, c) \/ L!BeginUnmount(h, v, m, c)
    /\ UNCHANGED devVars

LeaseStep == (\E s \in L!Session : L!AbandonedLeaseEnds(s)) /\ UNCHANGED devVars

ProcessGone(h) ==
    /\ Leave(h)
    /\ scan' = [scan EXCEPT ![h] = [p \in Actor |-> NoScan]]
    /\ UNCHANGED dirs

\* The kernel keeps devices and mounts when only the process dies.
Crash(h) ==
    /\ L!Crash(h)
    /\ ProcessGone(h)
    /\ UNCHANGED <<devs, mnts>>

Reboot(h) ==
    /\ L!Reboot(h)
    /\ ProcessGone(h)
    /\ devs' = [devs EXCEPT ![h] = {}]
    /\ mnts' = [mnts EXCEPT ![h] = {}]

Next ==
    \/ \E h \in Host :
          \/ LockStep(h) \/ MountStep(h) \/ UnmountStep(h) \/ Crash(h) \/ Reboot(h)
          \/ \E p \in Actor : ScanStep(h, p)
    \/ LeaseStep

Spec == Init /\ [][Next]_vars

(***************************************************************************)
(* As in MountLocks, with the bodies' steps in place of one: every command *)
(* ends, by itself or by its time limit (utils.go:116).                    *)
(***************************************************************************)
Fairness ==
    \A h \in Host :
        /\ WF_vars(L!LockStep(h) /\ UNCHANGED devVars)
        /\ WF_vars(MountStep(h) \/ UnmountStep(h) \/ ScanStep(h, API))

FairSpec == Spec /\ Fairness

-----------------------------------------------------------------------------
(***************************************************************************)
(* With devices and commands the handlers still follow the lock protocol:  *)
(* on every path through Mount and Unmount (driver.go:425 and 813) locks   *)
(* are taken, registered and given back as MountLocks says.                *)
(***************************************************************************)
ImplementsLocks == L!Spec

(***************************************************************************)
(* Every request is answered: no order in which commands fail, devices     *)
(* vanish and sessions end leaves a handler holding d.m (driver.go:419).   *)
(***************************************************************************)
RequestsReturn == L!RequestsReturn

(***************************************************************************)
(* As long as a container counts on a volume, the volume is mounted at the *)
(* container's path, on a device of the right image: neither the end of    *)
(* another container (driver.go:829), nor a request that fails half way,   *)
(* nor List and Path reaping devices (driver.go:1598) take it away.  With  *)
(* rbd-nbd a mount that reports an error after it has taken effect would.  *)
(***************************************************************************)
GrantedStaysMounted ==
    \A g \in grants : g.mp =>
        \E m \in mnts[g.host], x \in devs[g.host] :
            m.path = PathOf(g) /\ m.dev = x.dev /\ x.vol = g.vol

(***************************************************************************)
(* The same after crashes: the table of locks is empty after a restart     *)
(* (driver.go:105), so that an Unmount may take the volume from under the  *)
(* containers of the time before; but not from under those whose lock the  *)
(* table still holds.                                                      *)
(***************************************************************************)
LockedStaysMounted ==
    \A g \in grants : g.mp /\ (\E e \in locks[g.host] : e.key = g.key) =>
        \E m \in mnts[g.host], x \in devs[g.host] :
            m.path = PathOf(g) /\ m.dev = x.dev /\ x.vol = g.vol

(***************************************************************************)
(* When nothing but List interferes, a key in etcd is known to a grant or  *)
(* to a handler that will unlock it, whichever command of a body fails     *)
(* (the deferred unlocking, driver.go:440).                                *)
(***************************************************************************)
KeysAccounted == L!KeysAccounted

(***************************************************************************)
(* The table of locks of an idle host is the list of its containers, also  *)
(* after requests that failed in the middle of a body or came without an   *)
(* ID (driver.go:97 and 554).                                              *)
(***************************************************************************)
IdleLocksAreGrants == L!IdleLocksAreGrants

(***************************************************************************)
(* Unmount goes on to umount and unmap only when no other container has    *)
(* the volume in that mode (driver.go:828).                                *)
(***************************************************************************)
LastOutUnmounts == L!LastOutUnmounts

(***************************************************************************)
(* What a handler has read of devices and mounts is still true when it     *)
(* acts on it (driver.go:446 and 837), although List and Path unmap        *)
(* devices meanwhile without taking d.m (driver.go:645 and 759).           *)
(***************************************************************************)
HandlerScanTrue ==
    \A h \in Host : scan[h][API].at = "reap" =>
        \A f \in scan[h][API].found :
            /\ [dev |-> f.dev, path |-> f.path] \in mnts[h]
            /\ f.path[1] = f.vol
            /\ \E x \in devs[h] : x.dev = f.dev /\ x.vol = f.vol

(***************************************************************************)
(* A host never has two mounts on one directory, of which Unmount would    *)
(* undo the upper one only (driver.go:452 looks for the first).            *)
(***************************************************************************)
PathMountedOnce ==
    \A h \in Host : \A m, n \in mnts[h] : m.path = n.path => m = n

(***************************************************************************)
(* Failed requests leave no mapped devices behind for long, not even the   *)
(* one of a map that was stopped when it had taken effect: when a Mount    *)
(* works on its new device, every other device of the host is mounted      *)
(* (driver.go:1598-1605).                                                  *)
(***************************************************************************)
OnlyOwnDeviceUnmounted ==
    \A h \in Host : pc[h] = "body" /\ at[h] # "out" =>
        \A x \in devs[h] : x.dev = dev[h] \/ MountedDev(h, x.dev)

(***************************************************************************)
(* When no handler runs, what is mounted is what containers count on, and  *)
(* what is mapped is mounted: Mount and Unmount undo all they have done    *)
(* (driver.go:440, 485, 507 and 869), also when List or Path has unmapped  *)
(* a device under their hands; provided that a map or a mount that reports *)
(* an error has done nothing, since neither is looked at again.            *)
(***************************************************************************)
IdleMountsAreGrants ==
    \A h \in Host : pc[h] = "idle" =>
        /\ {m.path : m \in mnts[h]} = {PathOf(g) : g \in {f \in grants : f.host = h /\ f.mp}}
        /\ \A x \in devs[h] : MountedDev(h, x.dev)

(***************************************************************************)
(* An image is mounted for writing on one host at a time: "Only one        *)
(* mapping is permitted per image, so we will perform an exclusive lock on *)
(* Ceph images to avoid corruption" (README.md:14).  It is not, once the   *)
(* deferred unmapping (driver.go:507) takes a device away that a mount     *)
(* reported as failed has mounted.                                         *)
(***************************************************************************)
OneWriterMounted ==
    \A h, i \in Host : \A m \in mnts[h], n \in mnts[i] :
        h # i /\ m.path = n.path => m.path[2] = "ro"

(***************************************************************************)
(* List: "pairs of known volume names and their respective paths"          *)
(* (driver.go:641).                                                        *)
(***************************************************************************)
ListPairsRight ==
    \A h \in Host, p \in Reader : Scanned(h, p) =>
        \A f \in scan[h][p].found : f.path[1] = f.vol
=============================================================================
