---------------------------- MODULE MountLocksInv ----------------------------
(***************************************************************************)
(* The inductive invariants behind LiveGrantsExclude: which mutex belongs  *)
(* to whom at every step of Mount and Unmount, and what a process knows as *)
(* long as no session is lost.                                             *)
(***************************************************************************)
EXTENDS MountLocks

\* No session is lost; a process may still end, or start without etcd, and
\* IDs may be used again.
SessionsStay == "lease" \notin Faults

\* What the protocol asks of IDs: that none is used twice, if a session may
\* be lost between the two uses.
IDsSound == ReuseIDs = FALSE \/ SessionsStay

\* Leases, and whatever refers to one, are of sessions already granted.
SessionsKnown ==
    /\ \A s \in leases : s <= lastSession
    /\ \A h \in Host : mine[h] # NoKey => mine[h].sess <= lastSession
    /\ \A g \in grants : g.key # NoKey => g.key.sess <= lastSession

EtcdSafe == E!KeysLeased /\ E!RWExclusion

\* The mutex of a handler is for what it was asked to lock.
MineFits ==
    \A h \in Host : mine[h] # NoKey =>
        /\ pc[h] \in {"acquire", "register", "body", "undo"}
        /\ mine[h].vol = req[h].vol
        /\ mine[h].mode = req[h].mode

\* A mutex that was locked stays locked as long as its lease, until the
\* handler undoes the Mount ...
MineHeld ==
    \A h \in Host :
        pc[h] \in {"register", "body"} /\ mine[h] # NoKey /\ mine[h].sess \in leases
            => mine[h] \in keys

\* ... and afterwards, until the container's Unmount.
GrantsBacked ==
    \A g \in grants : Live(g) =>
        g.key \in keys /\ g.key.vol = g.vol /\ g.key.mode = g.mode

\* No two handlers work with the same mutex,
MineDistinct ==
    \A h, i \in Host :
        h # i /\ mine[h] # NoKey /\ mine[i] # NoKey => mine[h].id # mine[i].id

\* none with one that a container relies on,
MineNotGranted ==
    \A h \in Host, g \in grants : Live(g) => g.key # mine[h]

\* no two containers rely on the same one,
GrantKeysDistinct ==
    \A f, g \in grants : f # g /\ Live(f) /\ Live(g) => f.key # g.key

\* and an entry of the table refers to one of its own handler or container.
EntryOfMine ==
    \A h, i \in Host : \A e \in locks[i] :
        mine[h] = e.key =>
            /\ h = i
            /\ pc[h] \in {"body", "undo"}
            /\ e.vol = req[h].vol
            /\ e.caller = req[h].caller

EntryOfGrant ==
    \A h \in Host : \A e \in locks[h] : \A g \in grants :
        Live(g) /\ g.key = e.key =>
            g.host = h /\ g.vol = e.vol /\ g.caller = e.caller

\* What unlockMountVolume will find: nothing before the registration if the
\* ID is new, the handler's own mutex after it, and for Unmount one nobody
\* relies on.
NoEntryYet ==
    ReuseIDs = FALSE => \A h \in Host :
        pc[h] \in {"lock", "new", "acquire", "register"} =>
            EntriesOf(h, req[h].vol, req[h].caller) = {}

UndoFindsMine ==
    \A h \in Host :
        pc[h] \in {"body", "undo"} =>
            \A e \in EntriesOf(h, req[h].vol, req[h].caller) : e.key = mine[h]

UnlockGivenUp ==
    \A h \in Host :
        pc[h] = "unlock" =>
            \A g \in grants :
                ~(g.host = h /\ g.vol = req[h].vol /\ g.caller = req[h].caller)

(***************************************************************************)
(* Every lock has one owner at a time, from NewRWMutex (driver.go:561) to  *)
(* the Unlock (driver.go:605) that is made on the owner's behalf.          *)
(***************************************************************************)
IInv ==
    /\ TypeOK
    /\ SessionsKnown
    /\ EtcdSafe
    /\ MineFits
    /\ MineHeld
    /\ GrantsBacked
    /\ MineDistinct
    /\ MineNotGranted
    /\ GrantKeysDistinct
    /\ EntryOfMine
    /\ EntryOfGrant
    /\ NoEntryYet
    /\ UndoFindsMine
    /\ UnlockGivenUp

-----------------------------------------------------------------------------
\* Sessions that exist are alive.
SessionsLive ==
    \A h \in Host :
        /\ watcher[h] # "retry"
        /\ session[h] # 0 => watcher[h] = "watching" /\ session[h] \in leases

\* A process knows mutexes of its own session only.
KeysOfSession ==
    \A h \in Host :
        /\ \A e \in locks[h] : e.key.sess = session[h]
        /\ mine[h] # NoKey => mine[h].sess = session[h]

\* What mountLocksCount has found is true until the unmounting is done.
UmountAlone ==
    \A h \in Host : pc[h] = "umount" =>
        \A e \in locks[h] : e.vol # req[h].vol

CalmInv == SessionsLive /\ KeysOfSession /\ UmountAlone
=============================================================================
