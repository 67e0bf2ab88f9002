------------------------------ MODULE EtcdLock ------------------------------
(***************************************************************************)
(* The lock service cepher relies on, as src/cepher/driver.go uses it:     *)
(* etcd sessions (leases) and the read/write mutexes of the etcd-lock      *)
(* library.  The library is not part of the repository, so every           *)
(* definition here is external: it states what the driver's calls          *)
(* NewSession, RLock, RWLock and Unlock are taken to do, one atomic step   *)
(* for the instant at which the call takes effect in etcd.                 *)
(*                                                                         *)
(* A mutex that is held is one key, attached to the lease of the session   *)
(* it was created with.  The queue of waiters behind a held mutex is not   *)
(* modelled: a waiter's call takes effect whenever its mode is compatible  *)
(* with the keys that are held, or fails.                                  *)
(***************************************************************************)
CONSTANTS
    Session,   \* identifiers of the leases etcd may grant
    Volume,    \* what is locked: "pool/image"
    Mutex      \* handles of the mutex objects, so that two are never confused

VARIABLES
    leases,    \* the leases that are alive
    keys       \* the keys that are held, each one a mutex locked in one mode

vars == <<leases, keys>>

Mode == {"ro", "rw"}

Key == [id: Mutex, sess: Session, vol: Volume, mode: Mode]

TypeOK ==
    /\ leases \subseteq Session
    /\ keys \subseteq Key

(***************************************************************************)
(* Readers share a volume; a writer is alone on it.                        *)
(***************************************************************************)
MayShare(j, k) == j.vol = k.vol => j.mode = "ro" /\ k.mode = "ro"

-----------------------------------------------------------------------------
Init ==
    /\ leases = {}
    /\ keys = {}

\* concurrency.NewSession succeeds.
Grant(s) ==
    /\ s \notin leases
    /\ leases' = leases \union {s}
    /\ UNCHANGED keys

\* RLock or RWLock returns without error: the mutex is held.
Acquire(k) ==
    /\ k.sess \in leases
    /\ k \notin keys
    /\ \A j \in keys : MayShare(j, k)
    /\ keys' = keys \union {k}
    /\ UNCHANGED leases

\* Unlock deletes the mutex's key, if it is still there.
Release(k) ==
    /\ keys' = keys \ {k}
    /\ UNCHANGED leases

\* A lease that is not refreshed ends, and its keys end with it.
Expire(s) ==
    /\ leases' = leases \ {s}
    /\ keys' = {k \in keys : k.sess # s}

Next ==
    \/ \E s \in Session : Grant(s) \/ Expire(s)
    \/ \E k \in Key : Acquire(k) \/ Release(k)

Spec == Init /\ [][Next]_vars

-----------------------------------------------------------------------------
(***************************************************************************)
(* No key outlives its lease.                                              *)
(***************************************************************************)
KeysLeased == \A k \in keys : k.sess \in leases

(***************************************************************************)
(* A volume locked for writing is locked by nobody else, reader or writer, *)
(* on any host: the reason cepher asks for an etcd server (driver.go:554). *)
(***************************************************************************)
RWExclusion == \A j, k \in keys : j # k => MayShare(j, k)
=============================================================================
