# Cepher in TLA+

Cepher (`src/`) is a Docker volume plugin: on every host one process answers
Docker's volume API, maps images of a Ceph cluster to block devices, mounts them
for containers, and takes readers-writer locks in etcd so that an image is not
written from two places. This directory holds TLA+ models of it, the TLC
configurations that check them on small instances, and theorems that TLAPS proves
for instances of every size. Line numbers refer to `src/cepher/driver.go` unless
another file is named.

## 1. Inventory

| Component | State | Operations | Model |
|---|---|---|---|
| Mount locks (425-444, 554-629, 813-832) | `volumeMountLocks`, the request in progress | lock, register, undo, unlock, count | `MountLocks` |
| etcd session (100-145, `main.go`:78-87) | `etcdLockSession`, the goroutine that recreates it | start, Done, retry | `MountLocks` |
| etcd and etcd-lock (library) | leases, keys | NewSession, RLock, RWLock, Unlock, expiry | `EtcdLock` (external) |
| Mount and Unmount (425-526, 813-899, 1297-1545) | mapped devices, mounts, directories | map, check, repair, mkdir, mount, umount, unmap | `VolumeDriver` |
| currentVolumes (1560-1610) | reads devices and mounts, unmaps what is not mounted | called by Mount, Unmount, List, Path | `VolumeDriver` |
| List, Path, Get (645-790) | none of their own | read; List and Path through currentVolumes | `VolumeDriver` (List, Path) |
| Create and its lock (189-296, 528-552, 1102-1191) | pools, images, a lock per request | lock, create pool, create image, map, mkfs, unmap | `Provision` |
| Remove (308-399, 1270-1295) | images | ignore, delete, rename | `Provision` |
| Backup names (`utils.go`:171-192) | none | a pure function | `BackupNumber` of `Provision`, `ImageNames` |
| Volume names (1008-1073) | none | pure functions | `mountpoint` as `Path`; parsing not modelled |
| Commands with a time limit (`utils.go`:116-155) | the flag `running`, the process, the timer | start, stop, wait | `ShellExec` |
| Start-up, flags, socket (`main.go`) | none | start | `Start`, `StartFail` of `MountLocks` |
| Parsing of command output | none | text to records | not modelled (layout) |

**How they interact.** Docker calls the plugin over a socket, one goroutine per
request. Mount, Unmount, Create, Remove and Get hold the mutex `d.m` from
beginning to end; List (645) and Path (759) take no mutex, and neither does the
session goroutine (124), which writes `etcdLockSession` and `volumeMountLocks`.
All of them share the kernel's devices and mounts, and hosts share etcd and the
Ceph cluster.

**What is hard.**

* The session goroutine and the handlers: a session ends, turns nil and comes
  back between any two reads of it by one handler (555, 561, 592, 622, 1314).
* List and Path unmap, without `d.m`, every device they find unmounted (1599),
  also one that Mount is about to mount.
* Any command can fail after others have succeeded, and what was done is undone
  by deferred calls whose results are dropped (485) or replace the error (442). A
  command stopped by its time limit (`utils.go`:131) reports an error although it
  may have taken effect.
* Hosts: between the unlock and the unmounting (825-869) another host is let in.
* Names: the name under which Remove keeps an image is a name like any other, and a
  volume's name is taken for a pattern when its backups are looked for. Create names
  its image anew in every command (1124-1157), Remove lists, chooses a backup name and
  renames (363-377), and neither Remove nor List takes the lock of Create: a name may
  lead to another image from one command to the next.
* A command that hangs holds up every handler of its host, which wait for `d.m`.
* Crashes: the table of locks and the session are in memory (TODO at 105), the
  keys live on until their lease ends, devices and mounts live on for good.

**What makes each component correct.**

* Mount locks: containers whose locks are alive never share a volume with a
  writer (`LiveGrantsExclude`, `ImplementsAccess`); no lock is lost track of
  (`KeysAccounted`), or at least not for ever (`AbandonedKeysEnd`); the table is
  the list of containers served (`IdleLocksAreGrants`); the last one out unmounts,
  nobody else (`LastOutUnmounts`); every request is answered (`RequestsReturn`).
* Handlers: a volume in use stays mounted (`GrantedStaysMounted`), after a restart
  at least for the containers that the table still counts (`LockedStaysMounted`);
  decisions are taken on facts (`HandlerScanTrue`), nothing piles up
  (`PathMountedOnce`, `OnlyOwnDeviceUnmounted`, `IdleMountsAreGrants`), one host
  writes (`OneWriterMounted`), locks are used as the protocol says
  (`ImplementsLocks`).
* Create and Remove: no image is formatted a second time (`NeverReformatted`), no
  create lock stays behind (`CreateKeysAccounted`), and images are named as if every
  operation were one step (`ImplementsImages`).
* Commands: every request is answered (`RequestsReturn`), no timer goroutine stays
  (`TimersEnd`).

`PROJECT.json` lists under `hazards` each of these at its line, with the
properties that cover it, or the reason why none does.

## 2. Modules

    VolumeAccess  <---implements---  MountLocks  <---implements---  VolumeDriver
                                         |  ^                           (uses its actions)
                                         |  +--- process and session --- Provision
                                     EtcdLock (external service)             |
                                                                         implements
    ShellExec (on its own: the others take for granted                       v
               that commands end)                                        ImageNames

* `EtcdLock` states what the driver's calls to etcd and etcd-lock are taken to
  do. A held mutex is a key attached to the lease of its session; `Acquire` is
  possible when the mode is compatible with the keys held.
* `VolumeAccess` is the abstract promise: per volume, readers or one writer.
* `MountLocks` has one action per lock step of the handlers. `pc[h]` says where
  the request that holds `d.m` on host `h` is, `req[h]` what it asks, `mine[h]`
  which mutex object it has made; `locks[h]` is `volumeMountLocks` flattened to
  entries (volume, caller, key); `session[h]` is `etcdLockSession` with 0 for nil;
  `watcher[h]` is the session goroutine. `grants` is what Docker has been told:
  a reply to Mount without an error adds a record, Unmount removes it. It records
  whether the reply had a mountpoint (`mp`) and which mutex backs it (`key`),
  which no code reads: these are for the properties.
* `VolumeDriver` has the same handlers in full. It instantiates `MountLocks` and
  conjoins its actions with what commands do to `devs`, `mnts` and `dirs`; the
  step `BodyOk`, `BodyFail` or `UmountDone` of `MountLocks` becomes the last of
  the body's steps. `scan[h][p]` is a running call of currentVolumes, by the
  handler (`API`) or by a List or Path request (`Reader`). `CmdFaults` are the commands
  that may fail, `LateFaults` those of them that may report an error when they have
  taken effect (`MapFails`, `MountPathFails`, `UnmountPathFails`, `UnmapFails`). The
  handler takes them for failed: it does not know of the device, or unmaps it (507).
* `Provision` has Create and Remove on every host. Processes, sessions and leases
  are those of `MountLocks`, which it instantiates with no mounts. An image has an
  identity that no program sees; `names` says what each is called, `fs` how many
  filesystems were made on it, `maps[h]` what host `h` has mapped. A request goes by
  `req[h].name` for its lock and by `req[h].target` for its image, which are the same
  unless `Options` is set. `guarded` and `left` are history: whether a Create has ever
  gone on without its lock, and which keys an Unlock that failed has left in etcd.
  A command that fails may have taken effect before (a timeout of `rbd create`).
* `ImageNames` is the abstract promise: a volume is made, deleted, or kept under a
  backup name that no image has, each in one step. A name is a word with the numbers
  that were put before it, so that `trash_k_n` (`Trash`) is a name like any other, and
  may be asked for, removed, or kept as a backup of a backup: `ToCreate` and `ToRemove`
  are the names in requests. `Alike` has the pairs of names of which one, as a pattern
  (`utils.go`:174), matches the other. Only the backups of a volume that no request
  speaks of, and whose name matches no other (`LeftAlone`), are promised to be numbered
  one after another: the repository's own test removes a backup by its name
  (`driver_test.go`:294), and such a Remove, between the listing of images and the
  renaming of another, makes the number chosen one that is free, but not the next.
* `ShellExec` has one call of ExecShellTimeout per request at a time: `proc`, the
  process; `timer`, the goroutine; `running`, the variable both use without
  synchronisation, of which a timer may read an old value.
* `MountLocksInv`, `MountLocksCalm`, `VolumeDriverInv` and `ProvisionInv` have the
  inductive invariants, the modules named `...Proofs` the theorems.
* `MCMountLocks`, `MCVolumeDriver`, `MCProvision` and `MCShellExec` declare the
  model values of the runs and their symmetry. Runs of liveness properties do not
  use symmetry.

Operators named in a comment `Mutant:` are variants with a plausible bug. No
specification uses them; they stand next to what they vary, and show that a
property would notice the bug.

**Correspondence.** A step in a model is the code between two moments at which
another goroutine, host or etcd can interfere with it. `lockMountVolume` is five:
the nil check (555, `LockSkip`, `LockNoCaller`, `LockCheck`), the second read of
the session (561, `NewMutex`), the call of RLock or RWLock (562-575, `Acquire`,
`AcquireFail`), and the registration (577-586, `Register`, `RegisterFail`).
`unlockMountVolume` is one: its check of the session, its lookup and its deletion
can be taken to happen at once, as the only other writer empties the table after
Done and sets the session to nil only later. That writer may also replace the
outer table while an entry is written to or deleted from an old inner one; this
gives the state in which the reset came last. An error message that
dereferences a session that has become nil panics (534, 565, 606), and so does
NewRWMutex with nil; the HTTP server ends the request with an error and the
deferred release of `d.m` is run, so such a panic is an error reply here.

`currentVolumes` is a step for the devices, one for the mounts, and one for each
device unmapped; each other command of Mount and Unmount is a step. In `Provision`
a step is a command with what the handler decides on its result.
`lockCreateVolume` is three steps, as `lockMountVolume` is up to the registration;
the deferred unmapping of a failed mkfs is `Drop`; the deferred `unlockCreateVolume` is
one step (`Unlock`, `UnlockFail`) and does nothing when the session has become nil
(544).
generateImageBackupName is `BackupNumber`: one more than the highest number found
in names that the pattern matches (`Backups`), of those it recognises,
`0 .. LastNumber` (999 in the code: three digits).

**Assumptions on what is not in `src/`.** An attempt to lock that fails leaves no
key. Unlock returns, and deleting a key that is already gone is no error. Unlock
may report an error either way (`"unlock"` in `Faults`). A lease ends with all of
its keys, at the latest some time after nobody refreshes it. The
kernel does not unmap a mounted device (the busy error of 871); rbd-nbd may do
so. `umount` takes one mount off a
directory. rbd-nbd maps an image with --exclusive once in the cluster, also while
it is mapped read-only (1305-1313 report this from tests). A host's devices and
mounts are gone after a reboot, its directories are not. Docker unmounts what it
was granted under the name it used; it may also send Unmount for IDs that were
never granted. `rbd create` and `rbd rename` refuse a name that is taken; `rbd rm`
refuses an image that some host has mapped, `rbd rename` does not. `mkfs` may refuse a
device that has a filesystem, or make another one. A process that is
sent SIGTERM once a second ends at last. Docker gives each mount request an ID of
its own, except in runs with `ReuseIDs = TRUE`.

## 3. Runs

Bounds: `Host`, `Volume`, `Caller`, `Device` and `Reader` are sets of model
values; `Mutex` bounds the handles of mutexes in use at one time (a handle is used
again when nothing refers to it); `MaxSession` bounds the sessions etcd ever
grants, hence restarts. Two hosts, two containers on one volume, and one
session more than a host needs are enough for each of the races the hazards
name: every violation listed needs at most two hosts, two containers and two
sessions. `Faults` and `CmdFaults` select what may go wrong in a run.

Deadlock is checked in every run.

| Run | Instance | Shows |
|---|---|---|
| `locks_faults` | 2 hosts, 2 containers, 2 sessions, lost leases, crash, failing Unlock | `TypeOK`, `LiveGrantsExclude`, `IInv`, `ImplementsAccess` |
| `locks_reuse` | 1 host, 2 containers and the empty ID, IDs used again | `IdleLocksAreGrants` |
| `locks_live` | 1 host, failing start, lost leases, crash, failing Unlock, fair | `AbandonedKeysEnd`, `RequestsReturn` |
| `driver_cluster` | 2 hosts, rbd-nbd; map, umount and unmap failing before or after their effect, mount before it | `GrantedStaysMounted`, `OneWriterMounted`, `DevInv`, `ImplementsLocks` |
| `driver_restart` | 1 host, kernel module, crash and reboot, List, all commands failing, before or after their effect, fair | `TypeOK`, `LockedStaysMounted`, `HandlerScanTrue`, `PathMountedOnce`, `OnlyOwnDeviceUnmounted`, `DevInv`, `MountsInv`, `ImplementsLocks`, `RequestsReturn` |
| `driver_clean` | 1 host, 2 volumes, 2 containers and the empty ID, kernel module, List; map, check, mkdir and mount failing without effect | `GrantedStaysMounted`, `IdleMountsAreGrants`, `TidyInv`, `KeysAccounted`, `IdleLocksAreGrants`, `LastOutUnmounts` |
| `provision` | 2 hosts, 1 volume and its first backup, which is removed by name too, 2 images, lost leases, crash and reboot, failing Unlock, failing commands, List | `TypeOK`, `NeverReformatted`, `CreateKeysAccounted`, `IInv`, `ImplementsImages` |
| `shell` | 2 handlers, 1 List, 2 calls, commands that hang, fair | `TypeOK`, `RequestsReturn`, `TimersEnd` |

In `provision`, two images suffice for an image made, removed and made again under
a handler's hands, and `LastNumber = 0` makes the second backup already one with a
number that is not recognised (the case that in the code comes after `trash_999`).
Requests create the volume `v` and remove `v` and `trash_0_v`, so that backups of
backups occur. Failing are `rbd create`, `mkfs` and `rbd ls`. Left out for their size
are `"start"` of `Faults`, failing commands on pools, mapping and unmapping, and names
that match one another (`Alike = {}`); the theorems about `Provision` assume none of
these bounds.
With 2 calls `shell` has as many as can be at work at once, one for the holder
of `d.m` and one for List, and timers of calls that have returned take the place
of either.

Runs that end in a counterexample, each against a sentence of the repository
(quoted under `findings` in `PROJECT.json`):

| Run | What happens |
|---|---|
| `locks_null_reply` | A Mount whose commands fail is answered `nil, nil` (442). |
| `locks_last_out` | The session ends while the host is idle and its table empty. A Mount still locks with the old session, whose lease is alive, and is entered in the table. The session cannot be recreated and turns nil (132). An Unmount under another ID then skips the unlocking (592), counts 0 in spite of the entry (622) and unmounts. |
| `driver_unlock_first` | With the kernel module a second host mounts for writing before the first has unmounted (825). |
| `driver_list_pairs` | List pairs an image with the path of another (645). |

Smaller differences met while modelling, for which no run is kept:

* "Lock inconsistency" (579) leaves the mutex it complains about locked: the
  deferred unlock is not set up yet. The key stays as long as the session lives.
  This is why `KeysAccounted` is checked with `ReuseIDs = FALSE`.
* A Mount that finds no session (555) takes no lock, but maps read-only with
  rbd-nbd if the session is back when mapImageToDevice looks (1314).
* Get (736) reports the mountpoint of the mode it is asked for when the volume is
  locked in any mode.
* The repair of an XFS (1498) mounts on a directory that is made only afterwards
  (491), so on a volume's first Mount on a host it cannot succeed. The case of
  a check that runs out of time (1466) never happens: ExecShellTimeout reports no
  ShTimeoutError, and such a check leads to the repair.
* Create uses whatever image has the name already (285), also one that an earlier
  Create could not format (1124).
* Create locks the name of the request, and only then reads pool and name from
  the options (207, 222). With `Options = TRUE` and two names TLC finds
  `NeverReformatted` violated; run and theorem assume `Options = FALSE`.
* The pool is not what the create lock is for: another Create finds a pool that
  is made and not initialised yet, and takes it as it is (254).
* Every error of `rbd info` is taken for an image that does not exist (1079);
  Create then goes on to `rbd create`, which refuses.
* A backup name is matched with three digits at most (`utils.go`:171): after
  `trash_999` every next one is 1000, and once that is taken a Remove that renames
  always fails. The name of the volume is used as a pattern there, and a `.` in it
  matches any character: the backups of other volumes count, and numbers are skipped.
* A volume may be created under the name of a backup. Then `NeverReformatted` fails:
  a host creates `trash_0_v`, which another host removes by that name before it is
  mapped; a Remove of `v` gives its formatted image the name `trash_0_v`, and the
  first host maps and formats that. TLC finds this with the backup's name in
  `ToCreate`; `BackupsApart` excludes it from the theorem.
* The regular expression of parseImagePoolName always gives all of its groups, so
  the default pool is not used where the code means it to be (1040-1073).

What the passing runs do *not* claim: `KeysAccounted` and the table's agreement
with Docker (`IdleLocksAreGrants`, `LastOutUnmounts`) hold only while no session is
lost and no process restarts, since the table is emptied then (128, 105).
`GrantedStaysMounted` is checked without these for the same reason: after a
restart the Unmount of one new container unmounts what older ones use. What holds
after restarts is `LockedStaysMounted`, for the containers of the new process; with
sessions lost TLC finds even that violated: a new Mount registers its lock between the
reset of the table (128) and the session's turning nil, and an Unmount that finds no
session counts no locks (622). With
rbd-nbd it is checked without List and Path: nothing in the repository says that
rbd-nbd refuses to unmap a device mounted after List had found it unmounted.
Nor are `GrantedStaysMounted` and `OneWriterMounted` claimed with rbd-nbd when
list-mapped, the repair of an XFS, or a mount after its effect fails: an error of `rbd-nbd
list-mapped` is taken for an empty list (1353), so that a second device is mounted
over the first one, and a repair whose `umount` fails leaves a mounted device (1498)
that the deferred unmapping (485) may unmap although it is mounted, after which
another host may map the image for writing. The same happens when a `mount` is stopped
by its time limit after it has taken effect: the deferred unmapping (507) takes the
device of the new mount away. TLC finds `OneWriterMounted` violated in all three.
These are the cases that `Reliable` of `VolumeDriverInv` excludes from the theorems.
With the kernel module the deferred unmapping is refused, and the mount stays without
a container until the next Mount of the volume uses it (452) and its Unmount takes it
away.
`IdleMountsAreGrants` promises nothing once an `umount`, an unmapping or a list has
failed: an Unmount that has given up its lock (825) and then fails leaves its mount. Nor
does it when a map or a mount has failed after its effect, as Mount does not look
again: its device stays mapped until some currentVolumes reaps it, its mount stays.
`LiveGrantsExclude` counts only containers whose lock's lease is alive. A
container goes on writing after its lease has ended; nothing in the code stops it,
and for such containers nothing is promised. `NeverReformatted` promises nothing once a
Create has gone on without its lock: because there was no session (529), or because
the lease ended under it.

**Fairness.** A handler is a goroutine that runs on until it returns: weak
fairness of its steps as a whole. Waiting for a lock ends by `--lock-timeout`
(562), so `AcquireFail` is always possible; commands are taken to end, which is
what `shell` shows (`utils.go`:116). A lease that is lost is
noticed by the goroutine (`Done`), and one that nobody refreshes ends. There is no
fairness for Docker's requests, for starts, nor for a retry to succeed: etcd may
stay away for ever and every request is still answered. In `ShellExec` goroutines
run and time passes (weak fairness of `End`, `TimeOver` and `TimerStep`); `d.m` is Go's
mutex, which starves nobody (strong fairness of `Lock`); a request has finitely
many commands (strong fairness of `Return`); a timer sees the flag in the end
(`TimerEnds`), and a process does not hold out for ever against SIGTERM
(`StopKills`). No command is obliged to end by itself.

## 4. Theorems

All are for arbitrary sets of hosts, volumes, IDs, mutexes, devices, images and
requests, any number of sessions and any set of faults and failing commands, from
the ASSUMEs of the modules only (constants are of their kind, null values are
nothing else). A condition on the constants is an antecedent of the theorem, named
in the column "If". None assumes fairness.

| Module | If | Theorems |
|---|---|---|
| `EtcdLockProofs` | | `EtcdSafety`: keys exclude writers and do not outlive their lease |
| `VolumeAccessProofs` | | `AccessExcludes`: the abstract specification lets no writer share a volume |
| `MountLocksProofs` | | `TypeCorrect`, `UsesEtcd` (the protocol uses the lock service as it allows) |
| | `SessionsStay` | `Calm` (`[]CalmInv`) |
| | `IDsSound` | `Owners` (`[]IInv`), `LockSafety` (`[]LiveGrantsExclude`), `AccessRefinement` (`ImplementsAccess`) |
| `MountLocksCalmProofs` | `ProcessesStay` | `Quiet` (`[]QuietInv`), `LastOut` (`[]LastOutUnmounts`) |
| | the same, no ID twice | `LocksAccounted` (`[]KeysAccounted`) |
| | `UnlocksWork` | `TableInvariant` (`[]TableInv`), `TableIsContainers` (`[]IdleLocksAreGrants`) |
| | no ID twice | `RepliesUnique` (`[]IDsUnique`) |
| `VolumeDriverProofs` | | `TypeCorrect`, `LocksRefinement` (`ImplementsLocks`) |
| | `IDsSound` | `DriverLockSafety` (`[]LiveGrantsExclude`), `DriverAccess` (`ImplementsAccess`) |
| | `Reliable` | `DevicesInvariant` (`[]DevInv`), `ScanStaysTrue` (`[]HandlerScanTrue`), `OneMountPerPath` (`[]PathMountedOnce`), `NoDeviceLeft` (`[]OnlyOwnDeviceUnmounted`) |
| | `Reliable`, rbd-nbd | `WritesFromOneHost` (`[]OneWriterMounted`) |
| `VolumeMountsProofs` | `Reliable`, `SessionsStay` | `MountsInvariant` (`[]MountsInv`), `LockedMounted` (`[]LockedStaysMounted`) |
| | `Reliable`, `ProcessesStay` | `GrantedMounted` (`[]GrantedStaysMounted`) |
| | as in `MountLocksCalmProofs` | `DriverKeysAccounted`, `DriverLastOut`, `DriverTable` |
| | `TidyCommands`, `UnlocksWork` | `TidyInvariant` (`[]TidyInv`), `IdleTidy` (`[]IdleMountsAreGrants`) |
| `ProvisionProofs` | | `TypeCorrect`, `Invariant` (`[]IInv`), `CreateKeys` (`[]CreateKeysAccounted`), `Refinement` (`ImplementsImages`), `OneImage` |
| | no options, `BackupsApart` | `FormatsOnce` (`[]NeverReformatted`) |
| `ShellExecProofs` | | `TypeCorrect` |

The conditions, from the weakest to the strongest of their kind:

* `IDsSound`: no ID is used twice, *or* no session is lost. One of the two is enough.
* `SessionsStay`: no session is lost. Processes may crash, hosts reboot, a start may
  find no etcd, and IDs may be used again.
* `ProcessesStay`: etcd is used, and there are no crashes and no failing starts either.
* `UnlocksWork`: no Unlock fails either.
* `Reliable`: the kernel module, with every command failing, before or after it has
  taken effect, and any number of List and Path requests; or rbd-nbd without List and
  Path, when `list-mapped` does not fail, not both a check and an `umount` can, and a
  mount fails only without effect (`"mount" \notin LateFaults`). Section 3 tells why
  rbd-nbd needs this.
* `TidyCommands`: `Reliable`, no ID is used twice, nothing that takes something
  away fails (list, `umount`, unmap), and a map or a mount fails only without effect.
  Mapping, checks, directories and mounts may fail so.
* `BackupsApart`: no volume is created under a name that a Remove may give to a backup.

**The lock protocol.** `LiveGrantsExclude` is not inductive: it says nothing of the
keys. `IInv` says that every live grant is backed by a key in etcd
(`GrantsBacked`), different grants by different keys (`GrantKeysDistinct`), and
that every key has one owner at a time: the handler that has locked it
(`MineHeld`, `MineDistinct`), then the grant (`MineNotGranted`). An entry of the
table leads to a key of the same host, volume and caller (`EntryOfMine`,
`EntryOfGrant`), so that what Unmount or a failing Mount finds under its ID is its
own (`NoEntryYet`, `UndoFindsMine`, `UnlockGivenUp`) and unlocking takes nothing
from another container. Since keys exclude one another (`EtcdSafe`), grants do.
`AccessRefinement` uses the same facts: `BodyOk` is the one step that adds a live
grant, and it is compatible with those that are there; every other step adds none.

**IDs that are used twice.** With `ReuseIDs = TRUE`, TLC finds a counterexample to
`LiveGrantsExclude` when sessions may be lost: a Mount that found no session took no
lock, a session came up, and the failing Mount's deferred unlock releases the mutex
that an earlier request registered under the same ID. `BeginMount` therefore asks for
an ID nobody has any trace of unless `ReuseIDs` is set. This takes a lost session. As
long as none is lost, `CalmInv` says that a process without a session has no entry in
its table, so what a handler finds under its ID when it undoes a Mount is what it has
registered itself, `Register` having found nothing there; whence `IDsSound`.
`LocksAccounted` needs fresh IDs in any case (the "Lock inconsistency" of section 3).

**What the table says.** While sessions stay, a process knows mutexes of its own
living session only (`SessionsLive`, `KeysOfSession`), and nobody adds an entry
for a volume between the count of its locks and the end of the unmounting, as both
hold `d.m` (`UmountAlone`). While processes stay, each handler has a session
(`HandlersHaveSession`), so that a Mount in its body is registered, and so is each
container with a mountpoint (`BodyRegistered`, `GrantsRegistered`); with
`UmountAlone` this is `LastOutUnmounts`. Conversely every entry belongs to a
container or to the handler at work (`EntriesGranted`) once no Unlock fails.

**From the protocol to the handlers.** `LocksRefinement` shows that every step of
`VolumeDriver` is a step of `MountLocks` or leaves its variables alone. The theorems
of `MountLocksProofs` and `MountLocksCalmProofs` are thereby theorems about
`VolumeDriver`: `LP == INSTANCE MountLocksCalmProofs`. What they assume of the
constants, `VolumeDriver` assumes too.

**Devices and mounts.** List may unmap a device at any moment, so that a handler's
list of devices says too much but never too little. `DevInv` states what is left:
devices and mounts fit (`DevicesFit`), whatever is mounted is on the list
(`ListFits`), and once a Mount has a device of its own, that is the only one
that is mapped and not mounted (`BodyFits`). All of this lasts as long as no device is
unmapped while it is mounted. The kernel module refuses to; with rbd-nbd it is
because the handler never tries (`BodyKeepsDevice`): the devices that currentVolumes
reaps are not mounted, nobody mounts them meanwhile, and a Mount leaves its device to
the deferred unmapping (485, 507) unmounted, unless a repair could not unmount it (1503)
or a mount reported an error after its effect.
`MountsInv` joins both sides: an Unmount that unmounts has no other entry for its
volume (`UmountAlone`), so what it takes away belongs to no container that is counted;
and a repair unmounts what it has mounted where, by `BodyFits`, nothing was mounted
before.

**One writer.** With rbd-nbd `OneWriterMounted` does not need the locks. An image is
mapped for writing once in the cluster (`WriterMappedOnce`, from `--exclusive`), and
by `DevicesFit` what is mounted on the directory of a volume for writing is a device
that was mapped so. The locks alone do not give it (825, run `driver_unlock_first`).

**Nothing is left over.** `IdleMountsAreGrants` speaks of hosts with no handler at
work. `TidyInv` says what holds meanwhile: besides the containers' paths one more may
be mounted, that of a handler that is to unmount it or to leave it to others
(`Leaving`), and one more device may be mapped, the handler's own. An Unmount that
stops at the count (828) leaves a path to another container: every entry of the table
belongs to a container (`TableInv`), which has the volume in the same mode, since a
writer shares it with nobody (`LiveGrantsExclude`), hence at the same path. An Unmount
takes away one container and no more (`IDsUnique`), and whether it finds a lock tells
whether that one had a mountpoint (`GrantsRegistered`). A handler's currentVolumes has
nothing to reap (`DevicesTidy`), so that no error of it can end an Unmount half way.

**Create and Remove.** A mutex belongs to one handler and its session to one host
(`SessionsOwned`, `MutexesFit`), so while `guarded` there is one Create at work for
a volume (`LocksExclude`). What it has made is then without a filesystem until its
own mkfs, although Removes and other hosts' Creates go on (`DevicesNamed`,
`Unformatted`): another image can take the name only after the lock is released.
This needs that no other image gets that name in between, neither from a Create
without its lock nor from a Remove: whence `BackupsApart`.
For the refinement, `rbd rename` refuses a name that is taken, so what it does is the
abstract `Keep`. What is left is the order of the numbers. The backups of a volume that
is `LeftAlone` are numbered without gaps (`NumbersUsed`), since none goes away: the
number a Remove has chosen is either still the next, or it is taken by now. Of other
volumes nothing is promised but that the name was free, which is `OneImage`: no two
images ever go by one name.

**Only model-checked.** Liveness, which is beyond the prover: `RequestsReturn` of
`MountLocks`, `VolumeDriver` and `ShellExec`, `AbandonedKeysEnd`, `TimersEnd`. Every
invariant and every refinement that a passing run checks is stated by a theorem.

## 5. Not modelled

* Get (700-755): it changes nothing. That it counts locks of either mode is told
  above.
* rbdImageInfo, creation dates, and the list of images of all pools in List: they
  are read and printed.
* Parsing of names and of the output of commands. The models take the parsed
  values. What was noticed of names and backup names is told in section 3.
* Mounts by containers while images are created and removed: `Provision` has
  images mapped by Create only, and a host does not map one image twice. Mount
  refuses images that are missing and works on those that exist, which
  `VolumeDriver` takes as given.
* The timing of leases, lock timeouts, retries and commands: each may end at any
  moment after it has begun.
* `sh` and `ShWithTimeout` (`utils.go`), which the driver does not call.
* Flags, logging, the socket and the packaging of the plugin.
