-------------------------- MODULE VolumeDriverInv ---------------------------
(***************************************************************************)
(* The inductive invariants behind the theorems of VolumeDriverProofs and  *)
(* VolumeMountsProofs.                                                     *)
(***************************************************************************)
EXTENDS VolumeDriver

(***************************************************************************)
(* No device is unmapped while it is mounted, and no list of devices is    *)
(* too short.  The kernel module sees to it.  With rbd-nbd it takes that   *)
(* List and Path do not unmap devices meanwhile, that an error of          *)
(* list-mapped is not taken for an empty list (driver.go:1353), that no    *)
(* repair ends with the device mounted (driver.go:1498), and that no mount *)
(* is stopped by its time limit when it has taken effect: the deferred     *)
(* unmapping (driver.go:507) would take a mounted device away.             *)
(***************************************************************************)
Reliable ==
    Kernel \/ /\ Reader = {}
              /\ "list" \notin CmdFaults
              /\ ~({"check", "umount"} \subseteq CmdFaults)
              /\ "mount" \notin LateFaults

\* A device is mapped to one image and mounted once, where that image goes.
DevicesFit(h) ==
    /\ \A x, y \in devs[h] : x.dev = y.dev => x = y
    /\ \A m \in mnts[h] : \E x \in devs[h] : x.dev = m.dev /\ <<x.vol, x.mode>> = m.path
    /\ \A m, n \in mnts[h] : m.dev = n.dev \/ m.path = n.path => m = n

Line(x) == [dev |-> x.dev, vol |-> x.vol]

\* The handler's list of devices: whatever is mapped is on it, and if a
\* device on it is still mapped it has the image that the list says.
ListFits(h) ==
    LET s == scan[h][API]
    IN  /\ s.at # "off" => pc[h] \in {"body", "umount"} /\ at[h] = "out"
        /\ s.at = "mounts" =>
              /\ \A x \in devs[h] : Line(x) \in s.mapped
              /\ \A y \in s.mapped, x \in devs[h] : y.dev = x.dev => y = Line(x)
        /\ s.at = "reap" =>
              /\ \A x \in devs[h] : Line(x) \in s.mapped \/ MountedDev(h, x.dev)
              /\ \A y \in s.mapped : ~MountedDev(h, y.dev)
              /\ \A m \in mnts[h] : \E f \in s.found : f.path = m.path
              /\ \A f \in s.found :
                    /\ [dev |-> f.dev, path |-> f.path] \in mnts[h]
                    /\ f.path[1] = f.vol
                    /\ \E x \in devs[h] : x.dev = f.dev /\ x.vol = f.vol

\* A Mount with a device of its own: nothing else is unmounted, and until it
\* has mounted the device, nothing is where it will be.  An Unmount unmaps
\* the device that it has unmounted.
BodyFits(h) ==
    /\ at[h] \in {"check", "rmount", "recheck", "mkdir", "mount"} =>
          /\ ~MountedDev(h, dev[h])
          /\ \A m \in mnts[h] : m.path # PathOf(req[h])
    /\ at[h] = "rumount" => [dev |-> dev[h], path |-> PathOf(req[h])] \in mnts[h]
    /\ pc[h] = "body" /\ at[h] # "out" =>
          /\ at[h] # "unmap"
          /\ \A x \in devs[h] :
                IF x.dev = dev[h] THEN x.vol = req[h].vol /\ x.mode = req[h].mode
                                  ELSE MountedDev(h, x.dev)
    /\ pc[h] = "umount" => at[h] \in {"out", "unmap"}
    /\ at[h] = "unmap" => ~MountedDev(h, dev[h])

\* With rbd-nbd a Mount keeps the device it has mapped, and does not leave it
\* to the deferred unmapping while it is mounted.
BodyKeepsDevice(h) ==
    ~Kernel =>
        /\ at[h] = "check" => Mapped(h, dev[h])
        /\ at[h] \in {"rmount", "rumount"} => "check" \in CmdFaults
        /\ at[h] = "drop" => ~MountedDev(h, dev[h])

HostInv(h) == DevicesFit(h) /\ ListFits(h) /\ BodyFits(h) /\ BodyKeepsDevice(h)

DevInv == \A h \in Host : HostInv(h)

\* With rbd-nbd an image is mapped for writing once in the cluster.
WriterMappedOnce ==
    ~Kernel => \A h, i \in Host : \A x \in devs[h], y \in devs[i] :
        x.vol = y.vol /\ x.mode = "rw" /\ y.mode = "rw" => h = i /\ x = y

-----------------------------------------------------------------------------
(***************************************************************************)
(* What keeps volumes mounted: the containers that a host's table of locks *)
(* still counts, and a handler that unmounts beside them.                  *)
(***************************************************************************)
Counted(h) == {g \in grants : g.host = h /\ g.mp /\ \E e \in locks[h] : e.key = g.key}

MountsFit(h) ==
    /\ \A g \in Counted(h) : \E m \in mnts[h] : m.path = PathOf(g)
    /\ at[h] = "rumount" => \A g \in Counted(h) : PathOf(g) # PathOf(req[h])

MountsInv == \A h \in Host : MountsFit(h)

-----------------------------------------------------------------------------
(***************************************************************************)
(* What keeps a host tidy, when commands that take things away do not      *)
(* fail, those that bring things fail before they have taken effect, and   *)
(* IDs are not used twice.                                                 *)
(***************************************************************************)
TidyCommands ==
    /\ Reliable
    /\ ReuseIDs = FALSE
    /\ CmdFaults \intersect {"list", "umount", "unmap"} = {}
    /\ LateFaults \intersect {"map", "mount"} = {}

MpGrants(h) == {g \in grants : g.host = h /\ g.mp}

\* A handler that is to unmount its path, or to leave it to others.
Leaving(h) ==
    \/ pc[h] = "unlock" /\ L!EntriesOf(h, req[h].vol, req[h].caller) # {}
    \/ pc[h] = "count"
    \/ pc[h] = "umount" /\ at[h] = "out"
    \/ at[h] = "rumount"

\* Whatever else is mounted has a container, and the others that have the
\* volume of an Unmount have it in the same mode.
PathsTidy(h) ==
    /\ {m.path : m \in mnts[h]} =
          {PathOf(g) : g \in MpGrants(h)}
             \union (IF Leaving(h) THEN {PathOf(req[h])} ELSE {})
    /\ pc[h] \in {"unlock", "count"} /\ Leaving(h) =>
          \A g \in MpGrants(h) : g.vol = req[h].vol => g.mode = req[h].mode

\* A device that is not mounted is the handler's own, so that its calls of
\* currentVolumes find nothing to unmap.
DevicesTidy(h) ==
    /\ \A x \in devs[h] : MountedDev(h, x.dev) \/ (at[h] # "out" /\ x.dev = dev[h])
    /\ scan[h][API].at = "mounts" => \A y \in scan[h][API].mapped : MountedDev(h, y.dev)
    /\ scan[h][API].at = "reap" => scan[h][API].mapped = {}

TidyInv == \A h \in Host : PathsTidy(h) /\ DevicesTidy(h)
=============================================================================
