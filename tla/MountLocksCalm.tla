---------------------------- MODULE MountLocksCalm ----------------------------
(***************************************************************************)
(* Invariants of the lock protocol when no session is lost and no process  *)
(* ends: what the table of locks (driver.go:97) then says of containers    *)
(* and of keys in etcd.                                                    *)
(***************************************************************************)
EXTENDS MountLocksInv

\* Every process has a session from its start on, for good.
ProcessesStay == SessionsStay /\ UseEtcd /\ "start" \notin Faults /\ "crash" \notin Faults

HandlersHaveSession ==
    \A h \in Host :
        /\ watcher[h] # "off"
        /\ Up(h) => session[h] # 0
        /\ pc[h] # "idle" => Up(h)

\* A Mount is registered before it starts its body.
BodyRegistered ==
    \A h \in Host : pc[h] = "body" =>
        \E e \in EntriesOf(h, req[h].vol, req[h].caller) : e.key = mine[h]

\* A container with a mountpoint has an entry.
GrantsRegistered ==
    \A g \in grants : g.mp =>
        \E e \in EntriesOf(g.host, g.vol, g.caller) : e.key = g.key

QuietInv ==
    /\ HandlersHaveSession
    /\ BodyRegistered
    /\ GrantsRegistered
    /\ ReuseIDs = FALSE => KeysAccounted

-----------------------------------------------------------------------------
\* And no Unlock fails.
UnlocksWork == ProcessesStay /\ "unlock" \notin Faults

\* There is one entry for a container, and none for the empty ID.
EntriesUnique ==
    \A h \in Host :
        /\ \A e, f \in locks[h] : e.vol = f.vol /\ e.caller = f.caller => e = f
        /\ \A e \in locks[h] : e.caller # NoID
        /\ pc[h] \in {"new", "acquire", "register"} => req[h].caller # NoID

\* An entry belongs to a container, or the handler is at work on it.
EntriesGranted ==
    \A h \in Host : \A e \in locks[h] :
        \/ \E g \in grants : /\ g.host = h /\ g.mp
                             /\ g.vol = e.vol /\ g.caller = e.caller
        \/ /\ pc[h] \in {"body", "undo", "unlock"}
           /\ e.vol = req[h].vol /\ e.caller = req[h].caller

TableInv == EntriesUnique /\ EntriesGranted

-----------------------------------------------------------------------------
\* Whatever goes wrong, an ID that is not used twice stands for one reply of
\* the host, which comes at the end of the request.
IDsUnique ==
    /\ \A f, g \in grants :
          f.host = g.host /\ f.vol = g.vol /\ f.caller = g.caller => f = g
    /\ \A h \in Host :
          pc[h] \in {"lock", "new", "acquire", "register", "body", "undo"} =>
              \A g \in grants : g.host = h => g.caller # req[h].caller
=============================================================================
