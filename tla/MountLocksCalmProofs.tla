------------------------ MODULE MountLocksCalmProofs ------------------------
(***************************************************************************)
(* Theorems about the mount locks when no session is lost, and when no     *)
(* process ends either.                                                    *)
(***************************************************************************)
EXTENDS MountLocksCalm, MountLocksProofs

(***************************************************************************)
(* When processes stay up as well.                                         *)
(***************************************************************************)
LEMMA QuietInit == Init => QuietInv
BY SMT
   DEF Init, E!Init, QuietInv, HandlersHaveSession, BodyRegistered, GrantsRegistered,
       KeysAccounted, Up

\* The entry of a container that has a mountpoint is of no other's making.
LEMMA GrantEntry ==
  ASSUME IInv, CalmInv, NEW g \in grants, g.mp, NEW h \in Host, NEW e \in locks[h],
         e.key = g.key
  PROVE  Live(g) /\ g.host = h /\ g.vol = e.vol /\ g.caller = e.caller
<1>1. TypeOK
  BY DEF IInv
<1>2. e.key \in Key /\ e.key.sess = session[h] /\ session[h] # 0
  BY <1>1, KeysHaveSession DEF CalmInv, KeysOfSession
<1>3. session[h] \in leases
  BY <1>2 DEF CalmInv, SessionsLive
<1>4. Live(g)
  BY <1>1, <1>2, <1>3, KeysHaveSession DEF Live
<1> QED
  BY <1>4 DEF IInv, EntryOfGrant

LEMMA QuietStep ==
  ASSUME ProcessesStay, IInv, CalmInv, QuietInv, [Next]_vars
  PROVE  QuietInv'
<1>0. TypeOK
  BY DEF IInv
<1> USE <1>0, KeysHaveSession
    DEF ProcessesStay, SessionsStay, TypeOK, QuietInv, HandlersHaveSession, BodyRegistered,
        GrantsRegistered, KeysAccounted, Accounted, EntriesOf, Up
<1>1. ASSUME NEW h \in Host, SessionStep(h) PROVE QuietInv'
  BY <1>1
     DEF SessionStep, LeaseLost, SessionDone, Recreate, RecreateFail, CalmInv, SessionsLive
<1>2. ASSUME NEW h \in Host, Environment(h) PROVE QuietInv'
  <2>1. CASE Start(h)
    <3>1. /\ session' = [session EXCEPT ![h] = lastSession']
          /\ watcher' = [watcher EXCEPT ![h] = "watching"]
          /\ UNCHANGED <<keys, locks, pc, req, mine, grants>>
          /\ lastSession' = lastSession + 1
      BY <2>1 DEF Start, NewSession, E!Grant
    <3>2. lastSession' # 0
      BY <3>1, ConstantsAssumption
    <3> QED
      BY <3>1, <3>2
  <2>2. CASE StartFail(h) \/ Crash(h) \/ Reboot(h)
    BY <2>2 DEF StartFail, Crash, Reboot, ProcessGone
  <2>3. ASSUME NEW v \in Volume, NEW m \in Mode, NEW c \in Caller,
               BeginMount(h, v, m, c) \/ BeginUnmount(h, v, m, c)
        PROVE QuietInv'
    BY <2>3 DEF BeginMount, BeginUnmount, GrantsOf, Goto, procVars
  <2> QED
    BY <1>2, <2>1, <2>2, <2>3 DEF Environment
<1>3. ASSUME NEW h \in Host, HandlerStep(h) PROVE QuietInv'
  <2> USE DEF Goto, Return, procVars
  <2>1. CASE LockSkip(h) \/ LockNoCaller(h) \/ LockCheck(h)
    BY <2>1 DEF LockSkip, LockNoCaller, LockCheck
  <2>2. CASE NewMutex(h)
    <3>1. session[h] # 0
      BY <2>2 DEF NewMutex
    <3>2. /\ UNCHANGED <<keys, session, watcher, locks, req, grants>>
          /\ \E k : mine' = [mine EXCEPT ![h] = k]
          /\ pc[h] = "new" /\ pc' = [pc EXCEPT ![h] = "acquire"]
      BY <2>2, <3>1 DEF NewMutex
    <3> QED
      BY <3>2
  <2>3. CASE Acquire(h)
    BY <2>3 DEF Acquire, E!Acquire
  <2>4. CASE AcquireFail(h) \/ RegisterFail(h)
    BY <2>4 DEF AcquireFail, RegisterFail, IInv, NoEntryYet
  <2>5. CASE Register(h)
    <3> DEFINE e == [vol |-> req[h].vol, caller |-> req[h].caller, key |-> mine[h]]
    <3>1. /\ locks' = [locks EXCEPT ![h] = locks[h] \union {e}]
          /\ pc[h] = "register" /\ pc' = [pc EXCEPT ![h] = "body"]
          /\ UNCHANGED <<keys, session, watcher, req, mine, grants>>
      BY <2>5 DEF Register
    <3>2. e.vol = req[h].vol /\ e.caller = req[h].caller /\ e.key = mine[h]
      OBVIOUS
    <3> HIDE DEF e
    <3>3. BodyRegistered' /\ GrantsRegistered' /\ HandlersHaveSession'
      BY <3>1, <3>2
    <3>4. ReuseIDs = FALSE => KeysAccounted'
      BY <3>1, <3>2
    <3> QED
      BY <3>3, <3>4
  <2>6. CASE BodyOk(h)
    <3>1. \E e \in locks[h] : /\ e.key = mine[h] /\ e.vol = req[h].vol
                              /\ e.caller = req[h].caller
      BY <2>6 DEF BodyOk
    <3> QED
      BY <2>6, <3>1 DEF BodyOk, MountReply
  <2>7. CASE BodyFail(h)
    BY <2>7 DEF BodyFail
  <2>8. CASE UndoOk(h) \/ Unlock(h)
    <3>1. PICK e \in locks[h] :
             /\ e.vol = req[h].vol /\ e.caller = req[h].caller
             /\ keys' = keys \ {e.key}
             /\ locks' = [locks EXCEPT ![h] = locks[h] \ {e}]
      BY <2>8 DEF UndoOk, Unlock, UnlockOk, E!Release
    <3>2. /\ UNCHANGED <<session, watcher>>
          /\ \/ grants' = grants
             \/ \E g : ~g.mp /\ grants' = grants \union {g}
          /\ \A i \in Host : i # h => UNCHANGED <<pc[i], req[i], mine[i]>>
          /\ pc[h] \in {"undo", "unlock"} /\ pc'[h] \in {"idle", "count"}
      BY <2>8 DEF UndoOk, Unlock, MountReply
    <3>3. \A g \in grants : g.mp => g.key # e.key
      <4> SUFFICES ASSUME NEW g \in grants, g.mp, g.key = e.key PROVE FALSE
        OBVIOUS
      <4>1. Live(g) /\ g.host = h /\ g.vol = e.vol /\ g.caller = e.caller
        BY <3>1, GrantEntry
      <4>2. CASE Unlock(h)
        BY <3>1, <4>1, <4>2 DEF Unlock, IInv, UnlockGivenUp
      <4>3. CASE UndoOk(h)
        BY <3>1, <4>1, <4>3 DEF UndoOk, IInv, UndoFindsMine, MineNotGranted
      <4> QED
        BY <2>8, <4>2, <4>3
    <3>4. GrantsRegistered'
      BY <3>1, <3>2, <3>3
    <3>5. ReuseIDs = FALSE => KeysAccounted'
      BY <3>1, <3>2
    <3>6. HandlersHaveSession' /\ BodyRegistered'
      BY <3>1, <3>2
    <3> QED
      BY <3>4, <3>5, <3>6
  <2>9. CASE UndoFail(h) \/ UnlockError(h)
    BY <2>9 DEF UndoFail, UnlockError, UnlockNotFound, UnlockFail, E!Release
  <2>10. CASE CountStay(h) \/ CountLast(h) \/ UmountDone(h)
    BY <2>10 DEF CountStay, CountLast, UmountDone
  <2> QED
    BY <1>3, <2>1, <2>2, <2>3, <2>4, <2>5, <2>6, <2>7, <2>8, <2>9, <2>10
       DEF HandlerStep, LockStep
<1>4. ASSUME NEW s \in Session, AbandonedLeaseEnds(s) PROVE QuietInv'
  BY <1>4 DEF AbandonedLeaseEnds, E!Expire, procVars
<1>5. CASE UNCHANGED vars
  BY <1>5 DEF vars
<1> QED
  BY <1>1, <1>2, <1>3, <1>4, <1>5 DEF Next

(***************************************************************************)
(* When processes and sessions stay, every handler works with a session,   *)
(* every container with a mountpoint has its entry in the table of locks,  *)
(* and, if no ID is used twice, every key in etcd has somebody who will    *)
(* unlock it.                                                              *)
(***************************************************************************)
THEOREM Quiet == ProcessesStay => (Spec => []QuietInv)
<1> SUFFICES ASSUME ProcessesStay PROVE Spec => []QuietInv
  OBVIOUS
<1>1. IInv /\ CalmInv /\ QuietInv /\ [Next]_vars => QuietInv'
  BY QuietStep
<1>2. IDsSound /\ SessionsStay
  BY DEF ProcessesStay, IDsSound
<1> QED
  BY <1>1, <1>2, QuietInit, Owners, Calm, PTL DEF Spec

(***************************************************************************)
(* No lock in etcd is lost track of (driver.go:440), also when an Unlock   *)
(* fails, unless an ID is used twice (driver.go:579).                      *)
(***************************************************************************)
THEOREM LocksAccounted == ProcessesStay /\ ReuseIDs = FALSE => (Spec => []KeysAccounted)
<1>1. ReuseIDs = FALSE /\ QuietInv => KeysAccounted
  BY DEF QuietInv
<1>2. CASE ReuseIDs = FALSE
  BY <1>1, <1>2, Quiet, PTL
<1> QED
  BY <1>2

(***************************************************************************)
(* Unmount goes on to unmount a volume only when no other container of the *)
(* host has a mountpoint of it (driver.go:828).                            *)
(***************************************************************************)
THEOREM LastOut == ProcessesStay => (Spec => []LastOutUnmounts)
<1>1. CalmInv /\ QuietInv => LastOutUnmounts
  BY DEF CalmInv, UmountAlone, QuietInv, GrantsRegistered, LastOutUnmounts, EntriesOf
<1>2. ProcessesStay => SessionsStay
  BY DEF ProcessesStay
<1> QED
  BY <1>1, <1>2, Calm, Quiet, PTL

-----------------------------------------------------------------------------
(***************************************************************************)
(* When no Unlock fails either.                                            *)
(***************************************************************************)
LEMMA TableInit == Init => TableInv
BY SMT DEF Init, TableInv, EntriesUnique, EntriesGranted

LEMMA UniqueStep ==
  ASSUME UnlocksWork, TypeOK, EntriesUnique, [Next]_vars
  PROVE  EntriesUnique'
<1> USE DEF TypeOK, EntriesUnique
<1>1. ASSUME NEW h \in Host, SessionStep(h) \/ Environment(h) PROVE EntriesUnique'
  <2>1. \A i \in Host : locks'[i] = locks[i] \/ locks'[i] = {}
    BY <1>1
       DEF SessionStep, LeaseLost, SessionDone, Recreate, RecreateFail, procVars,
           Environment, Start, StartFail, Crash, Reboot, ProcessGone, BeginMount, BeginUnmount
  <2>2. \A i \in Host : /\ pc'[i] = pc[i] /\ req'[i] = req[i]
                        \/ pc'[i] \in {"idle", "lock", "unlock"}
    BY <1>1
       DEF SessionStep, LeaseLost, SessionDone, Recreate, RecreateFail, procVars, Goto,
           Environment, Start, StartFail, Crash, Reboot, ProcessGone, BeginMount, BeginUnmount
  <2> QED
    BY <2>1, <2>2
<1>2. ASSUME NEW h \in Host, HandlerStep(h) PROVE EntriesUnique'
  <2> USE DEF Goto, Return, procVars
  <2>1. CASE Register(h)
    <3> DEFINE e == [vol |-> req[h].vol, caller |-> req[h].caller, key |-> mine[h]]
    <3>1. /\ locks' = [locks EXCEPT ![h] = locks[h] \union {e}]
          /\ pc[h] = "register" /\ pc' = [pc EXCEPT ![h] = "body"] /\ req' = req
          /\ \A f \in locks[h] : f.vol # e.vol \/ f.caller # e.caller
          /\ e.caller # NoID
      BY <2>1 DEF Register, EntriesOf
    <3> HIDE DEF e
    <3> QED
      BY <3>1
  <2>2. CASE LockSkip(h) \/ LockNoCaller(h) \/ LockCheck(h) \/ NewMutex(h)
    BY <2>2 DEF LockSkip, LockNoCaller, LockCheck, NewMutex
  <2>3. CASE Acquire(h) \/ AcquireFail(h) \/ RegisterFail(h) \/ BodyOk(h) \/ BodyFail(h)
    BY <2>3 DEF Acquire, AcquireFail, RegisterFail, BodyOk, BodyFail
  <2>4. CASE UndoOk(h) \/ Unlock(h)
    <3>1. locks' = locks \/ \E e : locks' = [locks EXCEPT ![h] = locks[h] \ {e}]
      BY <2>4 DEF UndoOk, Unlock, UnlockOk
    <3>2. /\ \A i \in Host : i # h => UNCHANGED <<pc[i], req[i]>>
          /\ pc'[h] \in {"idle", "count"}
      BY <2>4 DEF UndoOk, Unlock
    <3>3. \A i \in Host : locks'[i] \subseteq locks[i]
      BY <3>1
    <3> QED
      BY <3>2, <3>3
  <2>5. CASE UndoFail(h) \/ UnlockError(h)
    BY <2>5 DEF UndoFail, UnlockError, UnlockNotFound, UnlockFail
  <2>6. CASE CountStay(h) \/ CountLast(h) \/ UmountDone(h)
    BY <2>6 DEF CountStay, CountLast, UmountDone
  <2> QED
    BY <1>2, <2>1, <2>2, <2>3, <2>4, <2>5, <2>6 DEF HandlerStep, LockStep
<1>3. ASSUME NEW s \in Session, AbandonedLeaseEnds(s) PROVE EntriesUnique'
  BY <1>3 DEF AbandonedLeaseEnds, procVars
<1>4. CASE UNCHANGED vars
  BY <1>4 DEF vars
<1> QED
  BY <1>1, <1>2, <1>3, <1>4 DEF Next

LEMMA GrantedStep ==
  ASSUME UnlocksWork, TypeOK, QuietInv, TableInv, [Next]_vars
  PROVE  EntriesGranted'
<1> USE DEF TypeOK, EntriesGranted, UnlocksWork, ProcessesStay, SessionsStay
<1>g. EntriesGranted
  BY DEF TableInv
<1>1. ASSUME NEW h \in Host, SessionStep(h) PROVE EntriesGranted'
  <2>1. /\ \A i \in Host : locks'[i] \subseteq locks[i]
        /\ UNCHANGED <<pc, req, grants>>
    BY <1>1 DEF SessionStep, LeaseLost, SessionDone, Recreate, RecreateFail, procVars
  <2> QED
    BY <1>g, <2>1
<1>2. ASSUME NEW h \in Host, Environment(h) PROVE EntriesGranted'
  <2>0. pc[h] = "idle" => \A e \in locks[h] : \E g \in grants :
           g.host = h /\ g.mp /\ g.vol = e.vol /\ g.caller = e.caller
    BY <1>g
  <2>1. CASE Start(h) \/ StartFail(h) \/ Crash(h) \/ Reboot(h)
    BY <1>g, <2>1 DEF Start, StartFail, Crash, Reboot, ProcessGone
  <2>2. ASSUME NEW v \in Volume, NEW m \in Mode, NEW c \in Caller, BeginMount(h, v, m, c)
        PROVE EntriesGranted'
    BY <1>g, <2>0, <2>2 DEF BeginMount, Goto, procVars
  <2>3. ASSUME NEW v \in Volume, NEW m \in Mode, NEW c \in Caller, BeginUnmount(h, v, m, c)
        PROVE EntriesGranted'
    <3>1. /\ pc[h] = "idle" /\ pc'[h] = "unlock" /\ req'[h].vol = v /\ req'[h].caller = c
          /\ \A i \in Host : i # h => UNCHANGED <<pc[i], req[i]>>
          /\ locks' = locks
          /\ grants' = grants \ {g \in grants : g.host = h /\ g.vol = v /\ g.caller = c}
      BY <2>3 DEF BeginUnmount, GrantsOf, Goto, procVars
    <3> QED
      BY <1>g, <2>0, <3>1
  <2> QED
    BY <1>2, <2>1, <2>2, <2>3 DEF Environment
<1>3. ASSUME NEW h \in Host, HandlerStep(h) PROVE EntriesGranted'
  <2> USE DEF Goto, Return, procVars
  <2>1. CASE LockSkip(h) \/ LockNoCaller(h) \/ LockCheck(h) \/ NewMutex(h)
    BY <1>g, <2>1 DEF LockSkip, LockNoCaller, LockCheck, NewMutex
  <2>2. CASE Acquire(h) \/ AcquireFail(h) \/ RegisterFail(h) \/ BodyFail(h)
    BY <1>g, <2>2 DEF Acquire, AcquireFail, RegisterFail, BodyFail
  <2>3. CASE Register(h)
    <3> DEFINE e == [vol |-> req[h].vol, caller |-> req[h].caller, key |-> mine[h]]
    <3>1. /\ locks' = [locks EXCEPT ![h] = locks[h] \union {e}]
          /\ pc[h] = "register" /\ pc' = [pc EXCEPT ![h] = "body"]
          /\ UNCHANGED <<req, grants>>
          /\ e.vol = req[h].vol /\ e.caller = req[h].caller
      BY <2>3 DEF Register
    <3> HIDE DEF e
    <3> QED
      BY <1>g, <3>1
  <2>4. CASE BodyOk(h)
    <3> DEFINE new == [host |-> h, vol |-> req[h].vol, mode |-> req[h].mode,
                       caller |-> req[h].caller, key |-> mine[h], mp |-> TRUE]
    <3>1. /\ grants' = grants \union {new} /\ locks' = locks
          /\ new.host = h /\ new.mp /\ new.vol = req[h].vol /\ new.caller = req[h].caller
          /\ pc[h] = "body" /\ \A i \in Host : i # h => UNCHANGED <<pc[i], req[i]>>
      BY <2>4 DEF BodyOk, MountReply
    <3> HIDE DEF new
    <3> QED
      BY <1>g, <3>1
  <2>5. CASE UndoOk(h) \/ Unlock(h)
    <3>1. session[h] # 0
      BY <2>5 DEF UndoOk, Unlock, QuietInv, HandlersHaveSession
    <3>2. PICK e \in locks[h] :
             /\ e.vol = req[h].vol /\ e.caller = req[h].caller
             /\ locks' = [locks EXCEPT ![h] = locks[h] \ {e}]
      BY <2>5, <3>1 DEF UndoOk, Unlock, UnlockOk, EntriesOf
    <3>3. /\ grants \subseteq grants'
          /\ \A i \in Host : i # h => UNCHANGED <<pc[i], req[i]>>
      BY <2>5 DEF UndoOk, Unlock, MountReply
    <3>4. \A f \in locks[h] : f # e => f.vol # req[h].vol \/ f.caller # req[h].caller
      BY <3>2 DEF TableInv, EntriesUnique
    <3> QED
      BY <1>g, <3>2, <3>3, <3>4
  <2>6. CASE UndoFail(h) \/ UnlockError(h)
    <3>1. /\ UNCHANGED <<locks, grants>>
          /\ \A i \in Host : i # h => UNCHANGED <<pc[i], req[i]>>
          /\ \A e \in locks[h] : e.vol # req[h].vol \/ e.caller # req[h].caller
      BY <2>6
         DEF UndoFail, UnlockError, UnlockNotFound, UnlockFail, EntriesOf, TableInv,
             EntriesUnique
    <3> QED
      BY <1>g, <3>1
  <2>7. CASE CountStay(h) \/ CountLast(h) \/ UmountDone(h)
    BY <1>g, <2>7 DEF CountStay, CountLast, UmountDone
  <2> QED
    BY <1>3, <2>1, <2>2, <2>3, <2>4, <2>5, <2>6, <2>7 DEF HandlerStep, LockStep
<1>4. ASSUME NEW s \in Session, AbandonedLeaseEnds(s) PROVE EntriesGranted'
  BY <1>g, <1>4 DEF AbandonedLeaseEnds, procVars
<1>5. CASE UNCHANGED vars
  BY <1>g, <1>5 DEF vars
<1> QED
  BY <1>1, <1>2, <1>3, <1>4, <1>5 DEF Next

LEMMA IdleTable == TypeOK /\ QuietInv /\ TableInv => IdleLocksAreGrants
<1> SUFFICES ASSUME TypeOK, QuietInv, TableInv, NEW h \in Host, pc[h] = "idle"
             PROVE  {<<e.vol, e.caller>> : e \in locks[h]}
                      = {<<g.vol, g.caller>> : g \in {f \in grants : f.host = h /\ f.mp}}
  BY DEF IdleLocksAreGrants
<1>1. \A e \in locks[h] : \E g \in grants :
         g.host = h /\ g.mp /\ g.vol = e.vol /\ g.caller = e.caller
  BY DEF TableInv, EntriesGranted
<1>2. \A g \in grants : g.host = h /\ g.mp =>
         \E e \in locks[h] : g.vol = e.vol /\ g.caller = e.caller
  BY DEF QuietInv, GrantsRegistered, EntriesOf
<1> QED
  BY <1>1, <1>2

(***************************************************************************)
(* When nothing goes wrong with sessions, processes and Unlocks, the table *)
(* of locks (driver.go:97) has one entry for each container and, while a   *)
(* handler is at work on it, for the request.                              *)
(***************************************************************************)
THEOREM TableInvariant == UnlocksWork => (Spec => []TableInv)
<1> SUFFICES ASSUME UnlocksWork PROVE Spec => []TableInv
  OBVIOUS
<1>1. TypeOK /\ QuietInv /\ TableInv /\ [Next]_vars => TableInv'
  BY UniqueStep, GrantedStep DEF TableInv
<1>2. ProcessesStay
  BY DEF UnlocksWork
<1> QED
  BY <1>1, <1>2, TableInit, TypeCorrect, Quiet, PTL DEF Spec

(***************************************************************************)
(* So the table of an idle host is the list of its containers, whatever    *)
(* commands fail in the bodies of Mount and Unmount.                       *)
(***************************************************************************)
THEOREM TableIsContainers == UnlocksWork => (Spec => []IdleLocksAreGrants)
<1>1. UnlocksWork => ProcessesStay
  BY DEF UnlocksWork
<1> QED
  BY <1>1, IdleTable, TypeCorrect, Quiet, TableInvariant, PTL

-----------------------------------------------------------------------------
LEMMA IDsUniqueStep ==
  ASSUME ReuseIDs = FALSE, TypeOK, IDsUnique, [Next]_vars
  PROVE  IDsUnique'
<1> USE DEF TypeOK, IDsUnique
<1>1. ASSUME NEW h \in Host, SessionStep(h) PROVE IDsUnique'
  BY <1>1 DEF SessionStep, LeaseLost, SessionDone, Recreate, RecreateFail
<1>2. ASSUME NEW h \in Host, Environment(h) PROVE IDsUnique'
  <2>1. CASE Start(h) \/ StartFail(h) \/ Crash(h) \/ Reboot(h)
    BY <2>1 DEF Start, StartFail, Crash, Reboot, ProcessGone
  <2>2. ASSUME NEW v \in Volume, NEW m \in Mode, NEW c \in Caller, BeginMount(h, v, m, c)
        PROVE IDsUnique'
    <3>1. \A g \in grants : g.caller # c
      BY <2>2 DEF BeginMount, Unseen
    <3> QED
      BY <2>2, <3>1 DEF BeginMount, Goto
  <2>3. ASSUME NEW v \in Volume, NEW m \in Mode, NEW c \in Caller, BeginUnmount(h, v, m, c)
        PROVE IDsUnique'
    BY <2>3 DEF BeginUnmount, Goto
  <2> QED
    BY <1>2, <2>1, <2>2, <2>3 DEF Environment
<1>3. ASSUME NEW h \in Host, HandlerStep(h) PROVE IDsUnique'
  <2> USE DEF Goto, Return
  <2>1. CASE BodyOk(h) \/ UndoOk(h)
    <3> DEFINE new(b) == [host |-> h, vol |-> req[h].vol, mode |-> req[h].mode,
                          caller |-> req[h].caller, key |-> mine[h], mp |-> b]
    <3>1. PICK b \in BOOLEAN : grants' = grants \union {new(b)}
      BY <2>1 DEF BodyOk, UndoOk, MountReply
    <3>2. /\ new(b).host = h
          /\ new(b).caller = req[h].caller
      OBVIOUS
    <3> HIDE DEF new
    <3>3. /\ pc[h] \in {"body", "undo"} /\ pc'[h] = "idle"
          /\ \A i \in Host : i # h => pc'[i] = pc[i] /\ req'[i] = req[i]
      BY <2>1 DEF BodyOk, UndoOk
    <3>4. \A g \in grants : g.host = h => g.caller # new(b).caller
      BY <3>2, <3>3
    <3>5. ASSUME NEW f \in grants', NEW g \in grants',
                 f.host = g.host, f.vol = g.vol, f.caller = g.caller
          PROVE  f = g
      BY <3>1, <3>2, <3>4, <3>5
    <3>6. ASSUME NEW i \in Host, NEW g \in grants', g.host = i,
                 pc'[i] \in {"lock", "new", "acquire", "register", "body", "undo"}
          PROVE  g.caller # req'[i].caller
      BY <3>1, <3>2, <3>3, <3>6
    <3> QED
      BY <3>5, <3>6
  <2>2. CASE LockSkip(h) \/ LockNoCaller(h) \/ LockCheck(h) \/ NewMutex(h)
    BY <2>2 DEF LockSkip, LockNoCaller, LockCheck, NewMutex
  <2>3. CASE Acquire(h) \/ AcquireFail(h) \/ Register(h) \/ RegisterFail(h) \/ BodyFail(h)
    BY <2>3 DEF Acquire, AcquireFail, Register, RegisterFail, BodyFail
  <2>4. CASE UndoFail(h) \/ Unlock(h) \/ UnlockError(h)
    BY <2>4 DEF UndoFail, Unlock, UnlockError
  <2>5. CASE CountStay(h) \/ CountLast(h) \/ UmountDone(h)
    BY <2>5 DEF CountStay, CountLast, UmountDone
  <2> QED
    BY <1>3, <2>1, <2>2, <2>3, <2>4, <2>5 DEF HandlerStep, LockStep
<1>4. ASSUME NEW s \in Session, AbandonedLeaseEnds(s) PROVE IDsUnique'
  BY <1>4 DEF AbandonedLeaseEnds
<1>5. CASE UNCHANGED vars
  BY <1>5 DEF vars
<1> QED
  BY <1>1, <1>2, <1>3, <1>4, <1>5 DEF Next

(***************************************************************************)
(* A host has given one reply at most for a volume and an ID, so that      *)
(* Docker's Unmount of the volume (driver.go:803) is of one container.     *)
(***************************************************************************)
THEOREM RepliesUnique == ReuseIDs = FALSE => (Spec => []IDsUnique)
<1> SUFFICES ASSUME ReuseIDs = FALSE PROVE Spec => []IDsUnique
  OBVIOUS
<1>1. Init => IDsUnique
  BY DEF Init, IDsUnique
<1>2. TypeOK /\ IDsUnique /\ [Next]_vars => IDsUnique'
  BY IDsUniqueStep
<1> QED
  BY <1>1, <1>2, TypeCorrect, PTL DEF Spec

\* Two containers that have a mountpoint of one volume only read it, so that
\* all the containers that have the volume have it in the same mode.
LEMMA ModesAgree ==
  ASSUME IInv, CalmInv, QuietInv,
         NEW f \in grants, NEW g \in grants, f.mp, g.mp, f.vol = g.vol, f # g
  PROVE  f.mode = "ro" /\ g.mode = "ro"
<1>1. ASSUME NEW x \in grants, x.mp PROVE Live(x)
  <2>1. x.host \in Host
    BY DEF IInv, TypeOK, GrantRec
  <2>2. PICK e \in locks[x.host] : e.key = x.key
    BY <1>1 DEF QuietInv, GrantsRegistered, EntriesOf
  <2> QED
    BY <1>1, <2>1, <2>2, GrantEntry
<1> QED
  BY <1>1, OwnersExclude DEF LiveGrantsExclude
=============================================================================
