----------------------------- MODULE MountLocks -----------------------------
(***************************************************************************)
(* How the volume driver on each host guards mounts with locks in etcd:    *)
(* the Mount and Unmount handlers of src/cepher/driver.go reduced to their *)
(* lock steps, the goroutine that replaces a lost etcd session, process    *)
(* crashes and host reboots, and what Docker believes it has been granted. *)
(*                                                                         *)
(* A handler runs with the driver's mutex d.m held from its first to its   *)
(* last step, so a host runs at most one; the session goroutine does not   *)
(* take d.m and interleaves with it everywhere.  What a handler does to    *)
(* devices and mounts is one step here (pc = "body" and pc = "umount");    *)
(* module VolumeDriver spells it out.                                      *)
(***************************************************************************)
EXTENDS Naturals

CONSTANTS
    Host,       \* hosts, each with one plugin process
    Volume,     \* "pool/image" names
    Caller,     \* IDs of Docker's mount and unmount requests
    NoID,       \* the empty ID
    Mutex,      \* handles of etcd mutexes
    MaxSession, \* bound: sessions etcd ever grants
    NoKey,      \* no mutex
    NoReq,      \* no request
    UseEtcd,    \* is the driver started with --lock-etcd?
    ReuseIDs,   \* may a mount request carry an ID that was used before?
    Faults      \* what may go wrong, a subset of FaultKind

FaultKind == {"start", "lease", "unlock", "crash"}

Session == 1 .. MaxSession

VARIABLES
    leases,     \* etcd: the leases that are alive
    keys,       \* etcd: the keys that are held
    lastSession,    \* etcd: the sessions granted so far are 1 .. lastSession
    session,    \* d.etcdLockSession: 0 is nil
    watcher,    \* the session goroutine: "down" when there is no process,
                \* "off" when it was not started, else "watching" or "retry"
    locks,      \* d.volumeMountLocks, flattened to a set of entries
    pc,         \* where the running handler is, "idle" if there is none
    req,        \* its request
    mine,       \* the mutex it has created
    grants      \* what Docker holds: the Mount replies without an error

E == INSTANCE EtcdLock

procVars == <<lastSession, session, watcher, locks>>
vars == <<leases, keys, lastSession, session, watcher, locks, pc, req, mine, grants>>

ASSUME ConstantsAssumption ==
    /\ MaxSession \in Nat
    /\ UseEtcd \in BOOLEAN
    /\ ReuseIDs \in BOOLEAN
    /\ Faults \subseteq FaultKind

ASSUME NullsAssumption == NoKey \notin E!Key

Mode == E!Mode
Key == E!Key
Request == [op: {"mount", "unmount"}, vol: Volume, mode: Mode, caller: Caller]
Entry == [vol: Volume, caller: Caller, key: Key]

(***************************************************************************)
(* mp tells whether the reply carried a mountpoint.                        *)
(***************************************************************************)
GrantRec == [host: Host, vol: Volume, mode: Mode, caller: Caller,
             key: Key \union {NoKey}, mp: BOOLEAN]

Location == {"idle", "lock", "new", "acquire", "register", "body", "undo",
             "unlock", "count", "umount"}

ASSUME NoReqAssumption == NoReq \notin Request

TypeOK ==
    /\ leases \subseteq Session
    /\ keys \subseteq Key
    /\ lastSession \in 0 .. MaxSession
    /\ session \in [Host -> 0 .. lastSession]
    /\ watcher \in [Host -> {"down", "off", "watching", "retry"}]
    /\ locks \in [Host -> SUBSET Entry]
    /\ pc \in [Host -> Location]
    /\ req \in [Host -> Request \union {NoReq}]
    /\ mine \in [Host -> Key \union {NoKey}]
    /\ grants \subseteq GrantRec
    /\ \A h \in Host :
          /\ pc[h] # "idle" => req[h] \in Request
          /\ pc[h] \in {"acquire", "register"} => mine[h] \in Key

Init ==
    /\ E!Init
    /\ lastSession = 0
    /\ session = [h \in Host |-> 0]
    /\ watcher = [h \in Host |-> "down"]
    /\ locks = [h \in Host |-> {}]
    /\ pc = [h \in Host |-> "idle"]
    /\ req = [h \in Host |-> NoReq]
    /\ mine = [h \in Host |-> NoKey]
    /\ grants = {}

-----------------------------------------------------------------------------
(***************************************************************************)
(* The process and its session.                                            *)
(***************************************************************************)
Up(h) == watcher[h] # "down"

NewSession(h) ==
    /\ lastSession < MaxSession
    /\ lastSession' = lastSession + 1
    /\ session' = [session EXCEPT ![h] = lastSession']
    /\ E!Grant(lastSession')

\* init: a session, an empty table of locks and the goroutine; without
\* --lock-etcd none of them.
Start(h) ==
    /\ watcher[h] = "down"
    /\ IF UseEtcd
       THEN /\ NewSession(h)
            /\ watcher' = [watcher EXCEPT ![h] = "watching"]
       ELSE /\ watcher' = [watcher EXCEPT ![h] = "off"]
            /\ UNCHANGED <<lastSession, session, leases, keys>>
    /\ UNCHANGED <<locks, pc, req, mine, grants>>

\* init fails to reach etcd; main logs the error and serves without locks.
StartFail(h) ==
    /\ "start" \in Faults
    /\ UseEtcd
    /\ watcher[h] = "down"
    /\ watcher' = [watcher EXCEPT ![h] = "off"]
    /\ UNCHANGED <<leases, keys, lastSession, session, locks, pc, req, mine, grants>>

\* etcd gives up the lease of the session the process is using.
LeaseLost(h) ==
    /\ "lease" \in Faults
    /\ watcher[h] = "watching"
    /\ session[h] \in leases
    /\ E!Expire(session[h])
    /\ UNCHANGED <<procVars, pc, req, mine, grants>>

\* <-Done(): the keep-alive has failed, before or after etcd gave the lease
\* up; the table of locks is replaced by an empty one.
SessionDone(h) ==
    /\ "lease" \in Faults
    /\ watcher[h] = "watching"
    /\ watcher' = [watcher EXCEPT ![h] = "retry"]
    /\ locks' = [locks EXCEPT ![h] = {}]
    /\ UNCHANGED <<leases, keys, lastSession, session, pc, req, mine, grants>>

\* A retry creates the next session.
Recreate(h) ==
    /\ watcher[h] = "retry"
    /\ NewSession(h)
    /\ watcher' = [watcher EXCEPT ![h] = "watching"]
    /\ UNCHANGED <<locks, pc, req, mine, grants>>

\* A retry fails: NewSession's nil is assigned all the same.
RecreateFail(h) ==
    /\ watcher[h] = "retry"
    /\ session' = [session EXCEPT ![h] = 0]
    /\ UNCHANGED <<leases, keys, lastSession, watcher, locks, pc, req, mine, grants>>

\* The time to live of a lease nobody refreshes any more runs out.
AbandonedLeaseEnds(s) ==
    /\ s \in leases
    /\ \A h \in Host : ~(watcher[h] = "watching" /\ session[h] = s)
    /\ E!Expire(s)
    /\ UNCHANGED <<procVars, pc, req, mine, grants>>

ProcessGone(h) ==
    /\ "crash" \in Faults
    /\ Up(h)
    /\ lastSession < MaxSession        \* bound: there is a session for a restart
    /\ watcher' = [watcher EXCEPT ![h] = "down"]
    /\ session' = [session EXCEPT ![h] = 0]
    /\ locks' = [locks EXCEPT ![h] = {}]
    /\ pc' = [pc EXCEPT ![h] = "idle"]
    /\ req' = [req EXCEPT ![h] = NoReq]
    /\ mine' = [mine EXCEPT ![h] = NoKey]
    /\ UNCHANGED <<leases, keys, lastSession>>

\* The plugin process dies; the containers and their mounts go on.
Crash(h) == ProcessGone(h) /\ UNCHANGED grants

\* The whole host goes down, containers included.
Reboot(h) ==
    /\ ProcessGone(h)
    /\ grants' = {g \in grants : g.host # h}

-----------------------------------------------------------------------------
(***************************************************************************)
(* The handlers.                                                           *)
(***************************************************************************)
Goto(h, loc) == pc' = [pc EXCEPT ![h] = loc]

Return(h) ==
    /\ Goto(h, "idle")
    /\ req' = [req EXCEPT ![h] = NoReq]
    /\ mine' = [mine EXCEPT ![h] = NoKey]

\* A reply without an error: from now on Docker counts on the volume.
MountReply(h, withPath) ==
    grants' = grants \union
        {[host |-> h, vol |-> req[h].vol, mode |-> req[h].mode,
          caller |-> req[h].caller, key |-> mine[h], mp |-> withPath]}

EntriesOf(h, v, c) == {e \in locks[h] : e.vol = v /\ e.caller = c}

\* Mutant: the count is compared with 1.
LockedByTwo(h, v) ==
    session[h] # 0 /\ \E e, f \in locks[h] : e # f /\ e.vol = v /\ f.vol = v

\* mountLocksCount > 0.
Locked(h, v) == session[h] # 0 /\ \E e \in locks[h] : e.vol = v

\* The mutexes the program or etcd can still refer to at this moment.
InUse ==
    {k.id : k \in keys}
        \union {mine[h].id : h \in {i \in Host : mine[i] # NoKey}}
        \union UNION {{e.key.id : e \in locks[h]} : h \in Host}
FreshMutex == CHOOSE m \in Mutex : m \notin InUse

\* The ID names a container nobody has any trace of.
Unseen(c) ==
    /\ \A g \in grants : g.caller # c
    /\ \A h \in Host : /\ \A e \in locks[h] : e.caller # c
                       /\ req[h] # NoReq => req[h].caller # c

BeginMount(h, v, m, c) ==
    /\ Up(h)
    /\ pc[h] = "idle"
    /\ ReuseIDs \/ Unseen(c)
    /\ Mutex # InUse        \* bound: there is a handle left for it
    /\ Goto(h, "lock")
    /\ req' = [req EXCEPT ![h] = [op |-> "mount", vol |-> v, mode |-> m, caller |-> c]]
    /\ UNCHANGED <<leases, keys, procVars, mine, grants>>

\* lockMountVolume with a nil session: no lock, no error.
LockSkip(h) ==
    /\ pc[h] = "lock"
    /\ session[h] = 0
    /\ Goto(h, "body")
    /\ UNCHANGED <<leases, keys, procVars, req, mine, grants>>

LockNoCaller(h) ==
    /\ pc[h] = "lock"
    /\ session[h] # 0
    /\ req[h].caller = NoID
    /\ Return(h)
    /\ UNCHANGED <<leases, keys, procVars, grants>>

LockCheck(h) ==
    /\ pc[h] = "lock"
    /\ session[h] # 0
    /\ req[h].caller # NoID
    /\ Goto(h, "new")
    /\ UNCHANGED <<leases, keys, procVars, req, mine, grants>>

\* Mutant: a nil session is used like any other.
NewMutexUnchecked(h) ==
    /\ pc[h] = "new"
    /\ mine' = [mine EXCEPT ![h] = [id |-> FreshMutex, sess |-> session[h],
                                   vol |-> req[h].vol, mode |-> req[h].mode]]
    /\ Goto(h, "acquire")
    /\ UNCHANGED <<leases, keys, procVars, req, grants>>

\* NewRWMutex reads the session again: it may be another one by now, or
\* nil, and then the call panics and the request ends with an error.
NewMutex(h) ==
    /\ pc[h] = "new"
    /\ IF session[h] = 0
       THEN Return(h)
       ELSE /\ \E m \in Mutex : m \notin InUse
            /\ mine' = [mine EXCEPT ![h] =
                   [id |-> FreshMutex, sess |-> session[h],
                    vol |-> req[h].vol, mode |-> req[h].mode]]
            /\ Goto(h, "acquire")
            /\ UNCHANGED req
    /\ UNCHANGED <<leases, keys, procVars, grants>>

\* RLock or RWLock succeeds.
Acquire(h) ==
    /\ pc[h] = "acquire"
    /\ E!Acquire(mine[h])
    /\ Goto(h, "register")
    /\ UNCHANGED <<procVars, req, mine, grants>>

\* Mutant: the error of RLock or RWLock is not looked at.
AcquireFailGoesOn(h) ==
    /\ pc[h] = "acquire"
    /\ Goto(h, "register")
    /\ UNCHANGED <<leases, keys, procVars, req, mine, grants>>

\* Mutant: there is no --lock-timeout, only a dead session ends the waiting.
AcquireFailNoTimeout(h) ==
    /\ pc[h] = "acquire"
    /\ mine[h].sess \notin leases
    /\ Return(h)
    /\ UNCHANGED <<leases, keys, procVars, grants>>

\* ... or fails: after --lock-timeout, or because the lease is gone.
AcquireFail(h) ==
    /\ pc[h] = "acquire"
    /\ Return(h)
    /\ UNCHANGED <<leases, keys, procVars, grants>>

\* The mutex is remembered under the caller's ID.
Register(h) ==
    /\ pc[h] = "register"
    /\ EntriesOf(h, req[h].vol, req[h].caller) = {}
    /\ locks' = [locks EXCEPT ![h] = locks[h] \union
           {[vol |-> req[h].vol, caller |-> req[h].caller, key |-> mine[h]]}]
    /\ Goto(h, "body")
    /\ UNCHANGED <<leases, keys, lastSession, session, watcher, req, mine, grants>>

\* Mutant: the deferred unlock is set up before the lock is registered.
RegisterFailUndoes(h) ==
    /\ pc[h] = "register"
    /\ EntriesOf(h, req[h].vol, req[h].caller) # {}
    /\ Goto(h, "undo")
    /\ UNCHANGED <<leases, keys, procVars, req, mine, grants>>

\* "Lock inconsistency": the ID has an entry.  The error leaves the mutex
\* that was just locked behind, the deferred unlock not being set up yet.
RegisterFail(h) ==
    /\ pc[h] = "register"
    /\ EntriesOf(h, req[h].vol, req[h].caller) # {}
    /\ Return(h)
    /\ UNCHANGED <<leases, keys, procVars, grants>>

\* Devices and mounts are in place; the reply carries the mountpoint.
BodyOk(h) ==
    /\ pc[h] = "body"
    /\ MountReply(h, TRUE)
    /\ Return(h)
    /\ UNCHANGED <<leases, keys, procVars>>

\* Mutant: a Mount that fails leaves its lock behind.
BodyFailKeepsLock(h) ==
    /\ pc[h] = "body"
    /\ Return(h)
    /\ UNCHANGED <<leases, keys, procVars, grants>>

BodyFail(h) ==
    /\ pc[h] = "body"
    /\ Goto(h, "undo")
    /\ UNCHANGED <<leases, keys, procVars, req, mine, grants>>

-----------------------------------------------------------------------------
(***************************************************************************)
(* unlockMountVolume, called by Unmount and by the deferred function of a  *)
(* failing Mount: with a session and an entry for the caller, the mutex is *)
(* unlocked and the entry deleted; if Unlock fails the entry stays and the *)
(* key may or may not be gone.                                             *)
(***************************************************************************)

\* Mutant: the entry is looked up by volume, whoever the caller is.
UnlockOkAnyCaller(h) ==
    IF session[h] = 0
    THEN UNCHANGED <<leases, keys, locks>>
    ELSE \E e \in locks[h] :
             /\ e.vol = req[h].vol
             /\ E!Release(e.key)
             /\ locks' = [locks EXCEPT ![h] = locks[h] \ {e}]

\* Mutant: the entry is deleted but the mutex not unlocked.
UnlockOkForgetsKey(h) ==
    IF session[h] = 0
    THEN UNCHANGED <<leases, keys, locks>>
    ELSE \E e \in EntriesOf(h, req[h].vol, req[h].caller) :
             /\ locks' = [locks EXCEPT ![h] = locks[h] \ {e}]
             /\ UNCHANGED <<leases, keys>>

UnlockOk(h) ==
    IF session[h] = 0
    THEN UNCHANGED <<leases, keys, locks>>
    ELSE /\ req[h].caller # NoID
         /\ \E e \in EntriesOf(h, req[h].vol, req[h].caller) :
               /\ E!Release(e.key)
               /\ locks' = [locks EXCEPT ![h] = locks[h] \ {e}]

UnlockNotFound(h) ==
    /\ session[h] # 0
    /\ \/ req[h].caller = NoID
       \/ EntriesOf(h, req[h].vol, req[h].caller) = {}
    /\ UNCHANGED <<leases, keys, locks>>

UnlockFail(h) ==
    /\ "unlock" \in Faults
    /\ session[h] # 0
    /\ req[h].caller # NoID
    /\ \E e \in EntriesOf(h, req[h].vol, req[h].caller) :
          E!Release(e.key) \/ UNCHANGED <<leases, keys>>
    /\ UNCHANGED locks

\* The deferred function assigns unlockMountVolume's result to err: if the
\* unlock succeeds the failed Mount returns no error, and no mountpoint.
UndoOk(h) ==
    /\ pc[h] = "undo"
    /\ UnlockOk(h)
    /\ MountReply(h, FALSE)
    /\ Return(h)
    /\ UNCHANGED <<lastSession, session, watcher>>

UndoFail(h) ==
    /\ pc[h] = "undo"
    /\ UnlockNotFound(h) \/ UnlockFail(h)
    /\ Return(h)
    /\ UNCHANGED <<lastSession, session, watcher, grants>>

GrantsOf(h, v, c) == {g \in grants : g.host = h /\ g.vol = v /\ g.caller = c}

\* Docker unmounts what it was granted, by the same name, when the container
\* stops, and counts on nothing any more; it may also name an unknown ID.
BeginUnmount(h, v, m, c) ==
    /\ Up(h)
    /\ pc[h] = "idle"
    /\ GrantsOf(h, v, c) # {} => \E g \in GrantsOf(h, v, c) : g.mode = m
    /\ Goto(h, "unlock")
    /\ req' = [req EXCEPT ![h] = [op |-> "unmount", vol |-> v, mode |-> m, caller |-> c]]
    /\ grants' = grants \ GrantsOf(h, v, c)
    /\ UNCHANGED <<leases, keys, procVars, mine>>

Unlock(h) ==
    /\ pc[h] = "unlock"
    /\ UnlockOk(h)
    /\ Goto(h, "count")
    /\ UNCHANGED <<lastSession, session, watcher, req, mine, grants>>

UnlockError(h) ==
    /\ pc[h] = "unlock"
    /\ UnlockNotFound(h) \/ UnlockFail(h)
    /\ Return(h)
    /\ UNCHANGED <<lastSession, session, watcher, grants>>

\* Other callers still have entries: the mount stays.
CountStay(h) ==
    /\ pc[h] = "count"
    /\ Locked(h, req[h].vol)
    /\ Return(h)
    /\ UNCHANGED <<leases, keys, procVars, grants>>

CountLast(h) ==
    /\ pc[h] = "count"
    /\ ~Locked(h, req[h].vol)
    /\ Goto(h, "umount")
    /\ UNCHANGED <<leases, keys, procVars, req, mine, grants>>

\* The volume is unmounted and unmapped, or an error is returned.
UmountDone(h) ==
    /\ pc[h] = "umount"
    /\ Return(h)
    /\ UNCHANGED <<leases, keys, procVars, grants>>

-----------------------------------------------------------------------------
LockStep(h) ==
    \/ LockSkip(h) \/ LockNoCaller(h) \/ LockCheck(h) \/ NewMutex(h)
    \/ Acquire(h) \/ AcquireFail(h) \/ Register(h) \/ RegisterFail(h)
    \/ UndoOk(h) \/ UndoFail(h)
    \/ Unlock(h) \/ UnlockError(h) \/ CountStay(h) \/ CountLast(h)

HandlerStep(h) == LockStep(h) \/ BodyOk(h) \/ BodyFail(h) \/ UmountDone(h)

SessionStep(h) ==
    \/ LeaseLost(h) \/ SessionDone(h) \/ Recreate(h) \/ RecreateFail(h)

Environment(h) ==
    \/ Start(h) \/ StartFail(h) \/ Crash(h) \/ Reboot(h)
    \/ \E v \in Volume, m \in Mode, c \in Caller :
          BeginMount(h, v, m, c) \/ BeginUnmount(h, v, m, c)

Next ==
    \/ \E h \in Host : HandlerStep(h) \/ SessionStep(h) \/ Environment(h)
    \/ \E s \in Session : AbandonedLeaseEnds(s)

Spec == Init /\ [][Next]_vars

(***************************************************************************)
(* A handler is a running goroutine and every call it makes returns, at    *)
(* the latest when its time is up; the session goroutine sees a lease that *)
(* is gone; a lease nobody refreshes ends.  Nothing obliges Docker to call *)
(* nor a host to come up.                                                  *)
(***************************************************************************)
Fairness ==
    /\ \A h \in Host :
          /\ WF_vars(HandlerStep(h))
          /\ WF_vars(session[h] \notin leases /\ SessionDone(h))
    /\ \A s \in Session : WF_vars(AbandonedLeaseEnds(s))

FairSpec == Spec /\ Fairness

-----------------------------------------------------------------------------
(***************************************************************************)
(* Two containers that were given a mountpoint of one volume under locks   *)
(* whose leases are alive, on whatever hosts, are both readers: no way     *)
(* through Mount and Unmount (driver.go:425 and 813), a lost session or a  *)
(* restart gives a lock away that a container still relies on.             *)
(***************************************************************************)
Live(g) == g.mp /\ g.key # NoKey /\ g.key.sess \in leases

LiveGrantsExclude ==
    \A f, g \in grants :
        f # g /\ Live(f) /\ Live(g) /\ f.vol = g.vol
            => f.mode = "ro" /\ g.mode = "ro"

(***************************************************************************)
(* The same promise as a specification of its own: seen through the grants *)
(* whose lease is alive, the lock protocol of the hosts behaves like one   *)
(* readers-writer lock per volume, each container entering in one step.    *)
(***************************************************************************)
Container == [host: Host, vol: Volume, mode: Mode, caller: Caller]
ContainerOf(g) == [host |-> g.host, vol |-> g.vol, mode |-> g.mode, caller |-> g.caller]

Access == INSTANCE VolumeAccess WITH
              Holder <- Container,
              holders <- {ContainerOf(g) : g \in {f \in grants : Live(f)}}

ImplementsAccess == Access!Spec

(***************************************************************************)
(* A key in etcd is known to somebody who will unlock it: the handler that *)
(* is still to register it (driver.go:554-589), or an entry of the table   *)
(* of locks.  The deferred function at driver.go:440 is there for this.    *)
(***************************************************************************)
Accounted(k) ==
    \E h \in Host :
        \/ mine[h] = k /\ pc[h] = "register"
        \/ \E e \in locks[h] : e.key = k

KeysAccounted == \A k \in keys : Accounted(k)

(***************************************************************************)
(* When locks are lost track of, because the session was lost or the       *)
(* process has died (driver.go:128, TODO at 105), they do not block the    *)
(* volume for ever: such a key is gone from etcd in the end.               *)
(***************************************************************************)
AbandonedKeysEnd ==
    \A k \in Key : (k \in keys /\ ~Accounted(k)) ~> (k \notin keys)

(***************************************************************************)
(* While no handler runs, the table of locks of a host (driver.go:97) is   *)
(* exactly the list of the containers it has given a mountpoint to: every  *)
(* failed Mount has been undone, and every Unmount has left the others.    *)
(***************************************************************************)
IdleLocksAreGrants ==
    \A h \in Host : Up(h) /\ pc[h] = "idle" =>
        {<<e.vol, e.caller>> : e \in locks[h]}
            = {<<g.vol, g.caller>> : g \in {f \in grants : f.host = h /\ f.mp}}

(***************************************************************************)
(* Unmount goes on to unmount the volume only when no other container on   *)
(* the host still uses it (driver.go:793 and 828).                         *)
(***************************************************************************)
LastOutUnmounts ==
    \A h \in Host : pc[h] = "umount" =>
        \A g \in grants : g.host = h /\ g.vol = req[h].vol => ~g.mp

(***************************************************************************)
(* In the words of driver.go:828, "only when there are no other locks for  *)
(* this mount": no other container on the host holds a lock in etcd.       *)
(***************************************************************************)
LastLockUnmounts ==
    \A h \in Host : pc[h] = "umount" =>
        \A g \in grants : g.host = h /\ g.vol = req[h].vol => ~Live(g)

(***************************************************************************)
(* A Mount that is answered without an error has carried a mountpoint: the *)
(* reply is "the path [...] and/or a string error" (driver.go:411-414).    *)
(***************************************************************************)
RepliesCarryPath == \A g \in grants : g.mp

(***************************************************************************)
(* Every request is answered: d.m is released again, whatever happens to   *)
(* the session (driver.go:189-195, 417-423, 805-811 hold it throughout).   *)
(***************************************************************************)
RequestsReturn == \A h \in Host : pc[h] # "idle" ~> pc[h] = "idle"
=============================================================================
