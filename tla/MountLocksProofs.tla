-------------------------- MODULE MountLocksProofs --------------------------
(***************************************************************************)
(* Theorems about the mount locks, for any number of hosts, volumes,       *)
(* containers, sessions and mutexes.                                       *)
(***************************************************************************)
EXTENDS MountLocksInv, TLAPS

\* A session that is created keeps the host's sessions among those granted.
LEMMA NewSessionType ==
  ASSUME TypeOK, NEW h \in Host, NewSession(h)
  PROVE  /\ lastSession' \in 0 .. MaxSession
         /\ session' \in [Host -> 0 .. lastSession']
         /\ leases' \subseteq Session
         /\ keys' = keys
<1>1. /\ lastSession \in Nat
      /\ lastSession' = lastSession + 1
      /\ lastSession' \in Session
      /\ lastSession' \in 0 .. MaxSession
      /\ 0 .. lastSession \subseteq 0 .. lastSession'
      /\ lastSession' \in 0 .. lastSession'
  BY ConstantsAssumption DEF TypeOK, NewSession, Session
<1>2. session' \in [Host -> 0 .. lastSession']
  BY <1>1 DEF TypeOK, NewSession
<1> QED
  BY <1>1, <1>2 DEF TypeOK, NewSession, E!Grant

\* The driver starts with a state of the right shape.
LEMMA TypeInit == Init => TypeOK
BY ConstantsAssumption, SMT
   DEF Init, E!Init, TypeOK, Location, GrantRec

\* A mutex that is created is no mutex in use.
LEMMA FreshMutexIsMutex ==
  ASSUME \E m \in Mutex : m \notin InUse
  PROVE FreshMutex \in Mutex /\ FreshMutex \notin InUse
BY DEF FreshMutex

\* What Docker remembers of a reply to Mount is a grant.
LEMMA MountReplyType ==
  ASSUME TypeOK, NEW h \in Host, NEW p \in BOOLEAN, pc[h] # "idle", MountReply(h, p)
  PROVE  grants' \subseteq GrantRec
BY DEF MountReply, TypeOK, GrantRec, Request

\* No step of a handler or of the session goroutine spoils the shape.
LEMMA TypeStep == TypeOK /\ [Next]_vars => TypeOK'
<1> SUFFICES ASSUME TypeOK, [Next]_vars PROVE TypeOK'
  OBVIOUS
<1> USE DEF TypeOK
<1>1. ASSUME NEW h \in Host, SessionStep(h) PROVE TypeOK'
  <2>1. CASE LeaseLost(h)
    BY <2>1 DEF LeaseLost, E!Expire, procVars
  <2>2. CASE SessionDone(h)
    BY <2>2 DEF SessionDone
  <2>3. CASE Recreate(h)
    BY <2>3, NewSessionType DEF Recreate
  <2>4. CASE RecreateFail(h)
    BY <2>4 DEF RecreateFail
  <2> QED
    BY <1>1, <2>1, <2>2, <2>3, <2>4 DEF SessionStep
<1>2. ASSUME NEW h \in Host, Environment(h) PROVE TypeOK'
  <2>1. CASE Start(h)
    BY <2>1, NewSessionType DEF Start
  <2>2. CASE StartFail(h)
    BY <2>2 DEF StartFail
  <2>3. CASE Crash(h) \/ Reboot(h)
    BY <2>3 DEF Crash, Reboot, ProcessGone, Location
  <2>4. ASSUME NEW v \in Volume, NEW m \in Mode, NEW c \in Caller, BeginMount(h, v, m, c)
        PROVE TypeOK'
    BY <2>4 DEF BeginMount, Goto, Request, procVars, Location
  <2>5. ASSUME NEW v \in Volume, NEW m \in Mode, NEW c \in Caller, BeginUnmount(h, v, m, c)
        PROVE TypeOK'
    BY <2>5 DEF BeginUnmount, GrantsOf, Goto, Request, procVars, Location
  <2> QED
    BY <1>2, <2>1, <2>2, <2>3, <2>4, <2>5 DEF Environment
<1>3. ASSUME NEW h \in Host, HandlerStep(h) PROVE TypeOK'
  <2> USE DEF Goto, Return, Location, procVars
  <2> /\ session[h] # 0 => session[h] \in Session
      /\ mine[h] # NoKey => mine[h] \in Key
      /\ pc[h] # "idle" => req[h] \in Request
    BY ConstantsAssumption DEF Session
  <2>1. CASE LockSkip(h) \/ LockNoCaller(h) \/ LockCheck(h)
    BY <2>1 DEF LockSkip, LockNoCaller, LockCheck
  <2>2. CASE NewMutex(h)
    BY <2>2, FreshMutexIsMutex DEF NewMutex, Key, E!Key, Mode, Request, Session
  <2>3. CASE Acquire(h)
    BY <2>3 DEF Acquire, E!Acquire
  <2>4. CASE AcquireFail(h) \/ RegisterFail(h) \/ CountStay(h) \/ CountLast(h)
    BY <2>4 DEF AcquireFail, RegisterFail, CountStay, CountLast
  <2>5. CASE Register(h)
    BY <2>5 DEF Register, Entry, Request
  <2>6. CASE UndoOk(h)
    BY <2>6, MountReplyType DEF UndoOk, UnlockOk, E!Release
  <2>7. CASE UndoFail(h)
    BY <2>7 DEF UndoFail, UnlockNotFound, UnlockFail, E!Release
  <2>8. CASE Unlock(h)
    BY <2>8 DEF Unlock, UnlockOk, E!Release
  <2>9. CASE UnlockError(h)
    BY <2>9 DEF UnlockError, UnlockNotFound, UnlockFail, E!Release
  <2>10. CASE BodyOk(h)
    BY <2>10, MountReplyType DEF BodyOk
  <2>11. CASE BodyFail(h) \/ UmountDone(h)
    BY <2>11 DEF BodyFail, UmountDone
  <2> QED
    BY <1>3, <2>1, <2>2, <2>3, <2>4, <2>5, <2>6, <2>7, <2>8, <2>9, <2>10, <2>11
       DEF HandlerStep, LockStep
<1>4. ASSUME NEW s \in Session, AbandonedLeaseEnds(s) PROVE TypeOK'
  BY <1>4 DEF AbandonedLeaseEnds, E!Expire, procVars
<1>5. CASE UNCHANGED vars
  BY <1>5 DEF vars
<1> QED
  BY <1>1, <1>2, <1>3, <1>4, <1>5 DEF Next

(***************************************************************************)
(* The state of the driver and of etcd always has the shape TypeOK gives.  *)
(***************************************************************************)
THEOREM TypeCorrect == Spec => []TypeOK
BY TypeInit, TypeStep, PTL DEF Spec

-----------------------------------------------------------------------------
(***************************************************************************)
(* Sessions that are not lost.                                             *)
(***************************************************************************)
LEMMA CalmInit == Init => CalmInv
BY SMT DEF Init, CalmInv, SessionsLive, KeysOfSession, UmountAlone

\* A mutex has a session.
LEMMA KeysHaveSession ==
  ASSUME TypeOK
  PROVE  /\ NoKey \notin Key
         /\ \A k \in Key : k.sess # 0
         /\ \A h \in Host : \A e \in locks[h] : e.key \in Key
         /\ \A h \in Host : mine[h] # NoKey => mine[h] \in Key
BY ConstantsAssumption, NullsAssumption DEF TypeOK, Key, E!Key, Session, Entry

LEMMA CalmStep ==
  ASSUME SessionsStay, TypeOK, CalmInv, [Next]_vars
  PROVE  CalmInv'
<1> USE KeysHaveSession
    DEF SessionsStay, TypeOK, CalmInv, SessionsLive, KeysOfSession, UmountAlone
<1>1. ASSUME NEW h \in Host, SessionStep(h) PROVE CalmInv'
  BY <1>1 DEF SessionStep, LeaseLost, SessionDone, Recreate, RecreateFail
<1>2. ASSUME NEW h \in Host, Environment(h) PROVE CalmInv'
  <2>1. CASE Start(h)
    <3>1. session[h] = 0 /\ locks[h] = {} /\ mine[h] = NoKey
      BY <2>1 DEF Start
    <3>2. CASE UseEtcd
      <4>1. /\ session' = [session EXCEPT ![h] = lastSession']
            /\ leases' = leases \union {lastSession'}
            /\ watcher' = [watcher EXCEPT ![h] = "watching"]
            /\ UNCHANGED <<locks, pc, req, mine>>
        BY <2>1, <3>2 DEF Start, NewSession, E!Grant
      <4> QED
        BY <3>1, <4>1
    <3>3. CASE ~UseEtcd
      BY <2>1, <3>3 DEF Start
    <3> QED
      BY <3>2, <3>3
  <2>2. CASE StartFail(h)
    BY <2>2 DEF StartFail
  <2>3. CASE Crash(h) \/ Reboot(h)
    BY <2>3 DEF Crash, Reboot, ProcessGone
  <2>4. ASSUME NEW v \in Volume, NEW m \in Mode, NEW c \in Caller,
               BeginMount(h, v, m, c) \/ BeginUnmount(h, v, m, c)
        PROVE CalmInv'
    BY <2>4 DEF BeginMount, BeginUnmount, Goto, procVars
  <2> QED
    BY <1>2, <2>1, <2>2, <2>3, <2>4 DEF Environment
<1>3. ASSUME NEW h \in Host, HandlerStep(h) PROVE CalmInv'
  <2> USE DEF Goto, Return, procVars
  <2>1. CASE LockSkip(h) \/ LockNoCaller(h) \/ LockCheck(h)
    BY <2>1 DEF LockSkip, LockNoCaller, LockCheck
  <2>2. CASE NewMutex(h)
    BY <2>2 DEF NewMutex
  <2>3. CASE Acquire(h) \/ AcquireFail(h) \/ RegisterFail(h)
    BY <2>3 DEF Acquire, AcquireFail, RegisterFail, E!Acquire
  <2>4. CASE Register(h)
    BY <2>4 DEF Register
  <2>5. CASE BodyOk(h) \/ BodyFail(h)
    BY <2>5 DEF BodyOk, BodyFail
  <2>6. CASE UndoOk(h) \/ Unlock(h)
    <3>1. \A i \in Host : locks'[i] \subseteq locks[i]
      <4>1. locks' = locks \/ \E e : locks' = [locks EXCEPT ![h] = locks[h] \ {e}]
        BY <2>6 DEF UndoOk, Unlock, UnlockOk
      <4> QED
        BY <4>1
    <3>2. /\ UNCHANGED <<leases, session, watcher>>
          /\ pc'[h] \in {"idle", "count"} /\ (mine'[h] = mine[h] \/ mine'[h] = NoKey)
          /\ \A i \in Host : i # h => UNCHANGED <<pc[i], req[i], mine[i]>>
      BY <2>6 DEF UndoOk, Unlock, UnlockOk, E!Release
    <3> QED
      BY <3>1, <3>2
  <2>7. CASE UndoFail(h) \/ UnlockError(h)
    BY <2>7 DEF UndoFail, UnlockError, UnlockNotFound, UnlockFail, E!Release
  <2>8. CASE CountStay(h) \/ UmountDone(h)
    BY <2>8 DEF CountStay, UmountDone
  <2>9. CASE CountLast(h)
    <3>1. \A e \in locks[h] : e.vol # req[h].vol
      BY <2>9 DEF CountLast, Locked
    <3> QED
      BY <2>9, <3>1 DEF CountLast
  <2> QED
    BY <1>3, <2>1, <2>2, <2>3, <2>4, <2>5, <2>6, <2>7, <2>8, <2>9 DEF HandlerStep, LockStep
<1>4. ASSUME NEW s \in Session, AbandonedLeaseEnds(s) PROVE CalmInv'
  BY <1>4 DEF AbandonedLeaseEnds, E!Expire, procVars
<1>5. CASE UNCHANGED vars
  BY <1>5 DEF vars
<1> QED
  BY <1>1, <1>2, <1>3, <1>4, <1>5 DEF Next

(***************************************************************************)
(* As long as no session is lost, every process knows mutexes of its own   *)
(* living session only, and what mountLocksCount has found (driver.go:828) *)
(* is still true when Unmount has unmounted the volume.                    *)
(***************************************************************************)
THEOREM Calm == SessionsStay => (Spec => []CalmInv)
<1> SUFFICES ASSUME SessionsStay PROVE Spec => []CalmInv
  OBVIOUS
<1>1. TypeOK /\ CalmInv /\ [Next]_vars => CalmInv'
  BY CalmStep
<1> QED
  BY <1>1, CalmInit, TypeCorrect, PTL DEF Spec

-----------------------------------------------------------------------------
(***************************************************************************)
(* Ownership of mutexes.  What unlockMountVolume finds under an ID is the  *)
(* request's own if BeginMount starts requests for which no host has an    *)
(* entry, or if a handler without a session has no entries at all.         *)
(***************************************************************************)
LEMMA OwnersInit == Init => IInv
BY TypeInit, SMT
   DEF Init, E!Init, IInv, SessionsKnown, EtcdSafe, E!KeysLeased, E!RWExclusion,
       MineFits, MineHeld, GrantsBacked, MineDistinct, MineNotGranted,
       GrantKeysDistinct, EntryOfMine, EntryOfGrant, NoEntryYet, UndoFindsMine,
       UnlockGivenUp, EntriesOf

\* Nothing the program refers to belongs to a session still to be granted.
LEMMA NewSessionKnown ==
  ASSUME TypeOK, SessionsKnown, NEW h \in Host, NewSession(h), UNCHANGED <<mine, grants>>
  PROVE  SessionsKnown'
<1>1. /\ lastSession \in Nat
      /\ lastSession' = lastSession + 1
      /\ leases' = leases \union {lastSession'}
  BY ConstantsAssumption DEF TypeOK, NewSession, E!Grant
<1>2. /\ \A s \in leases : s \in Nat
      /\ \A i \in Host : mine[i] # NoKey => mine[i].sess \in Nat
      /\ \A g \in grants : g.key # NoKey => g.key.sess \in Nat
  BY DEF TypeOK, Session, Key, E!Key, GrantRec
<1>3. \A n \in Nat : n <= lastSession => n <= lastSession'
  BY <1>1
<1> QED
  BY <1>1, <1>2, <1>3 DEF SessionsKnown

\* Every step hands each lock on to exactly one owner.
LEMMA OwnersStep ==
  ASSUME IDsSound, IInv, SessionsStay => CalmInv, [Next]_vars
  PROVE  IInv'
<1>1. TypeOK /\ TypeOK'
  BY TypeStep DEF IInv
<1>2. /\ NoKey \notin Key
      /\ \A h \in Host : \A e \in locks[h] : e.key \in Key
      /\ \A h \in Host : \A e \in locks'[h] : e.key \in Key
  BY <1>1, NullsAssumption DEF TypeOK, Key, Entry
<1> USE <1>1, <1>2
    DEF IInv, TypeOK, SessionsKnown, EtcdSafe, E!KeysLeased, E!RWExclusion,
        MineFits, MineHeld, GrantsBacked, MineDistinct, MineNotGranted,
        GrantKeysDistinct, EntryOfMine, EntryOfGrant, NoEntryYet, UndoFindsMine,
        UnlockGivenUp, Live, EntriesOf
<1>3. ASSUME NEW h \in Host, SessionStep(h) PROVE IInv'
  <2>1. CASE LeaseLost(h)
    BY <2>1, SMTT(30) DEF LeaseLost, E!Expire, procVars
  <2>2. CASE SessionDone(h)
    BY <2>2, SMTT(30) DEF SessionDone
  <2>3. CASE Recreate(h)
    <3>1. SessionsKnown'
      BY <2>3, NewSessionKnown DEF Recreate
    <3>2. (EtcdSafe /\ MineHeld /\ GrantsBacked /\ MineNotGranted
             /\ GrantKeysDistinct /\ EntryOfGrant)'
      BY <2>3, SMTT(30) DEF Recreate, NewSession, E!Grant
    <3> QED
      BY <2>3, <3>1, <3>2, SMTT(30) DEF Recreate
  <2>4. CASE RecreateFail(h)
    BY <2>4, SMTT(30) DEF RecreateFail
  <2> QED
    BY <1>3, <2>1, <2>2, <2>3, <2>4 DEF SessionStep
<1>4. ASSUME NEW h \in Host, Environment(h) PROVE IInv'
  <2>1. CASE Start(h)
    <3>1. SessionsKnown'
      BY <2>1, NewSessionKnown DEF Start
    <3>2. (EtcdSafe /\ MineHeld /\ GrantsBacked /\ MineNotGranted
             /\ GrantKeysDistinct /\ EntryOfGrant)'
      BY <2>1, SMTT(30) DEF Start, NewSession, E!Grant
    <3> QED
      BY <2>1, <3>1, <3>2, SMTT(30) DEF Start
  <2>2. CASE StartFail(h)
    BY <2>2, SMTT(30) DEF StartFail
  <2>3. CASE Crash(h)
    BY <2>3, SMTT(30) DEF Crash, ProcessGone
  <2>4. CASE Reboot(h)
    BY <2>4, SMTT(30) DEF Reboot, ProcessGone
  <2>5. ASSUME NEW v \in Volume, NEW m \in Mode, NEW c \in Caller, BeginMount(h, v, m, c)
        PROVE IInv'
    <3>1. ReuseIDs = FALSE => \A e \in locks[h] : e.caller # c
      BY <2>5 DEF BeginMount, Unseen
    <3> QED
      BY <2>5, <3>1, SMTT(30) DEF BeginMount, Goto, procVars
  <2>6. ASSUME NEW v \in Volume, NEW m \in Mode, NEW c \in Caller, BeginUnmount(h, v, m, c)
        PROVE IInv'
    BY <2>6, SMTT(30) DEF BeginUnmount, GrantsOf, Goto, procVars
  <2> QED
    BY <1>4, <2>1, <2>2, <2>3, <2>4, <2>5, <2>6 DEF Environment
<1>5. ASSUME NEW h \in Host, HandlerStep(h) PROVE IInv'
  <2> USE DEF Goto, Return, procVars
  <2>1. CASE LockSkip(h)
    <3>1. EntriesOf(h, req[h].vol, req[h].caller) = {}
      <4>1. CASE ReuseIDs = FALSE
        BY <2>1, <4>1 DEF LockSkip
      <4>2. CASE SessionsStay
        BY <2>1, <4>2, KeysHaveSession DEF LockSkip, CalmInv, KeysOfSession
      <4> QED
        BY <4>1, <4>2 DEF IDsSound
    <3> QED
      BY <2>1, <3>1, SMTT(30) DEF LockSkip
  <2>2. CASE LockNoCaller(h) \/ LockCheck(h)
    BY <2>2, SMTT(30) DEF LockNoCaller, LockCheck
  <2>3. CASE NewMutex(h)
    <3>1. CASE session[h] = 0
      <4>1. Return(h) /\ UNCHANGED <<leases, keys, procVars, grants>>
        BY <2>3, <3>1 DEF NewMutex
      <4> QED
        BY <4>1, SMTT(30)
    <3>2. CASE session[h] # 0
      <4>1. /\ mine' = [mine EXCEPT ![h] =
                   [id |-> FreshMutex, sess |-> session[h],
                    vol |-> req[h].vol, mode |-> req[h].mode]]
            /\ pc' = [pc EXCEPT ![h] = "acquire"]
            /\ UNCHANGED <<leases, keys, lastSession, session, watcher, locks, req, grants>>
            /\ FreshMutex \notin InUse
            /\ pc[h] = "new"
        BY <2>3, <3>2, FreshMutexIsMutex DEF NewMutex
      <4>2. MineDistinct' /\ EntryOfMine'
        BY <4>1, SMTT(30) DEF InUse
      <4>3. MineNotGranted'
        <5>1. \A k \in keys : k.id # FreshMutex
          BY <4>1 DEF InUse
        <5> QED
          BY <4>1, <5>1
      <4> QED
        BY <4>1, <4>2, <4>3, SMTT(30)
    <3> QED
      BY <3>1, <3>2
  <2>4. CASE Acquire(h)
    BY <2>4, SMTT(30) DEF Acquire, E!Acquire, E!MayShare
  <2>5. CASE AcquireFail(h) \/ RegisterFail(h)
    <3>1. /\ pc[h] \in {"acquire", "register"}
          /\ Return(h)
          /\ UNCHANGED <<leases, keys, procVars, grants>>
      BY <2>5 DEF AcquireFail, RegisterFail
    <3> QED
      BY <3>1, SMTT(30)
  <2>6. CASE Register(h)
    BY <2>6, SMTT(30) DEF Register
  <2>7. CASE BodyOk(h)
    <3> DEFINE new == [host |-> h, vol |-> req[h].vol, mode |-> req[h].mode,
                       caller |-> req[h].caller, key |-> mine[h], mp |-> TRUE]
    <3>1. GrantKeysDistinct'
      <4>1. grants' = grants \union {new} /\ leases' = leases
        BY <2>7 DEF BodyOk, MountReply
      <4>2. \A g \in grants : Live(g) => g.key # new.key
        OBVIOUS
      <4> QED
        BY <4>1, <4>2
    <3> QED
      BY <2>7, <3>1, SMTT(30) DEF BodyOk, MountReply
  <2>8. CASE BodyFail(h)
    BY <2>8, SMTT(30) DEF BodyFail
  <2>9. CASE UndoOk(h)
    BY <2>9, SMTT(30) DEF UndoOk, UnlockOk, E!Release, MountReply
  <2>10. CASE UndoFail(h)
    BY <2>10, SMTT(30) DEF UndoFail, UnlockNotFound, UnlockFail, E!Release
  <2>11. CASE Unlock(h)
    BY <2>11, SMTT(30) DEF Unlock, UnlockOk, E!Release
  <2>12. CASE UnlockError(h)
    BY <2>12, SMTT(30) DEF UnlockError, UnlockNotFound, UnlockFail, E!Release
  <2>13. CASE CountStay(h) \/ CountLast(h) \/ UmountDone(h)
    BY <2>13, SMTT(30) DEF CountStay, CountLast, UmountDone
  <2> QED
    BY <1>5, <2>1, <2>2, <2>3, <2>4, <2>5, <2>6, <2>7, <2>8, <2>9, <2>10,
       <2>11, <2>12, <2>13 DEF HandlerStep, LockStep
<1>6. ASSUME NEW s \in Session, AbandonedLeaseEnds(s) PROVE IInv'
  BY <1>6, SMTT(30) DEF AbandonedLeaseEnds, E!Expire, procVars
<1>7. CASE UNCHANGED vars
  BY <1>7, SMTT(30) DEF vars
<1> QED
  BY <1>3, <1>4, <1>5, <1>6, <1>7 DEF Next

(***************************************************************************)
(* Every lock has one owner at a time (the invariant IInv), from the call  *)
(* of NewRWMutex (driver.go:561) to its Unlock (driver.go:605), as long as *)
(* an ID names one request or no session is lost.                          *)
(***************************************************************************)
THEOREM Owners == IDsSound => (Spec => []IInv)
<1> SUFFICES ASSUME IDsSound PROVE Spec => []IInv
  OBVIOUS
<1>1. CASE SessionsStay
  <2>1. CalmInv /\ IInv /\ [Next]_vars => IInv'
    BY OwnersStep
  <2> QED
    BY <1>1, <2>1, OwnersInit, Calm, PTL DEF Spec
<1>2. CASE ~SessionsStay
  <2>1. IInv /\ [Next]_vars => IInv'
    BY <1>2, OwnersStep
  <2> QED
    BY <2>1, OwnersInit, PTL DEF Spec
<1> QED
  BY <1>1, <1>2

\* Grants backed by different keys of etcd exclude one another as the keys do.
LEMMA OwnersExclude == IInv => LiveGrantsExclude
<1> SUFFICES ASSUME IInv, NEW f \in grants, NEW g \in grants,
                    f # g, Live(f), Live(g), f.vol = g.vol
             PROVE  f.mode = "ro" /\ g.mode = "ro"
  BY DEF LiveGrantsExclude
<1>1. /\ f.key \in keys /\ f.key.vol = f.vol /\ f.key.mode = f.mode
      /\ g.key \in keys /\ g.key.vol = g.vol /\ g.key.mode = g.mode
  BY DEF IInv, GrantsBacked
<1>2. f.key # g.key
  BY DEF IInv, GrantKeysDistinct
<1> QED
  BY <1>1, <1>2 DEF IInv, EtcdSafe, E!RWExclusion, E!MayShare

(***************************************************************************)
(* Containers that hold a volume under live leases exclude one another, as *)
(* long as Docker gives every request an ID of its own: the locking of     *)
(* Mount and Unmount (driver.go:554-619) is correct on any number of       *)
(* hosts, whatever sessions are lost and processes restarted.  When no     *)
(* session is lost, IDs may be used again.                                 *)
(***************************************************************************)
THEOREM LockSafety == IDsSound => (Spec => []LiveGrantsExclude)
BY Owners, OwnersExclude, PTL

-----------------------------------------------------------------------------
(***************************************************************************)
(* The driver uses the lock service as the service allows: every step of   *)
(* the protocol is a step of EtcdLock or leaves leases and keys alone.     *)
(***************************************************************************)
THEOREM UsesEtcd == Spec => E!Spec
<1>1. Init => E!Init
  BY DEF Init
<1>2. TypeOK /\ [Next]_vars => [E!Next]_E!vars
  <2> SUFFICES ASSUME TypeOK, [Next]_vars, UNCHANGED E!vars => FALSE PROVE E!Next
    OBVIOUS
  <2> USE DEF TypeOK, E!vars
  <2>1. ASSUME NEW h \in Host, NewSession(h) PROVE E!Next
    <3>1. lastSession' \in Session /\ E!Grant(lastSession')
      BY <2>1, ConstantsAssumption DEF NewSession, Session
    <3> QED
      BY <3>1 DEF E!Next
  <2>2. ASSUME NEW h \in Host, SessionStep(h) PROVE E!Next
    BY <2>1, <2>2
       DEF SessionStep, LeaseLost, SessionDone, Recreate, RecreateFail, E!Next
  <2>3. ASSUME NEW h \in Host, Environment(h) PROVE E!Next
    BY <2>1, <2>3
       DEF Environment, Start, StartFail, Crash, Reboot, ProcessGone, BeginMount, BeginUnmount
  <2>4. ASSUME NEW h \in Host, HandlerStep(h) PROVE E!Next
    <3> USE DEF E!Next, Key
    <3>1. CASE Acquire(h)
      BY <3>1 DEF Acquire
    <3>2. CASE UndoOk(h) \/ Unlock(h)
      <4>1. UnlockOk(h)
        BY <3>2 DEF UndoOk, Unlock
      <4>2. PICK e \in EntriesOf(h, req[h].vol, req[h].caller) : E!Release(e.key)
        BY <4>1 DEF UnlockOk
      <4>3. e.key \in E!Key
        BY DEF EntriesOf, Entry
      <4> QED
        BY <4>2, <4>3
    <3>3. CASE UndoFail(h) \/ UnlockError(h)
      <4>1. CASE UnlockNotFound(h)
        BY <4>1 DEF UnlockNotFound
      <4>2. CASE UnlockFail(h)
        <5>1. PICK e \in EntriesOf(h, req[h].vol, req[h].caller) :
                 E!Release(e.key) \/ UNCHANGED <<leases, keys>>
          BY <4>2 DEF UnlockFail
        <5>2. e.key \in E!Key
          BY DEF EntriesOf, Entry
        <5> QED
          BY <5>1, <5>2
      <4> QED
        BY <3>3, <4>1, <4>2 DEF UndoFail, UnlockError
    <3>4. CASE LockSkip(h) \/ LockNoCaller(h) \/ LockCheck(h) \/ NewMutex(h)
      BY <3>4 DEF LockSkip, LockNoCaller, LockCheck, NewMutex
    <3>5. CASE AcquireFail(h) \/ Register(h) \/ RegisterFail(h) \/ CountStay(h) \/ CountLast(h)
      BY <3>5 DEF AcquireFail, Register, RegisterFail, CountStay, CountLast
    <3>6. CASE BodyOk(h) \/ BodyFail(h) \/ UmountDone(h)
      BY <3>6 DEF BodyOk, BodyFail, UmountDone
    <3> QED
      BY <2>4, <3>1, <3>2, <3>3, <3>4, <3>5, <3>6 DEF HandlerStep, LockStep
  <2>5. ASSUME NEW s \in Session, AbandonedLeaseEnds(s) PROVE E!Next
    BY <2>5 DEF AbandonedLeaseEnds, E!Next
  <2>6. CASE UNCHANGED vars
    BY <2>6 DEF vars
  <2> QED
    BY <2>2, <2>3, <2>4, <2>5, <2>6 DEF Next
<1> QED
  BY <1>1, <1>2, TypeCorrect, PTL DEF Spec, E!Spec

-----------------------------------------------------------------------------
(***************************************************************************)
(* MountLocks implements VolumeAccess.  A container enters with the step   *)
(* that answers its Mount; every other step at most takes some out.        *)
(***************************************************************************)
Holders == {ContainerOf(g) : g \in {f \in grants : Live(f)}}

\* A step that makes no grant live lets containers leave, at most.
LEMMA OthersOnlyLeave ==
  ASSUME \A g \in grants' : Live(g)' => g \in grants /\ Live(g)
  PROVE  [Access!Next]_Holders
<1>1. Holders' \subseteq Holders
  BY DEF Holders, ContainerOf
<1> QED
  BY <1>1 DEF Access!Next, Access!Leave, Holders

\* A new session brings no grant back to life.
LEMMA NewSessionGrants ==
  ASSUME IInv, NEW h \in Host, NewSession(h), UNCHANGED grants
  PROVE  [Access!Next]_Holders
<1>1. /\ lastSession \in Nat
      /\ lastSession' = lastSession + 1
      /\ leases' = leases \union {lastSession'}
  BY ConstantsAssumption DEF IInv, TypeOK, NewSession, E!Grant
<1>2. ASSUME NEW g \in grants, Live(g)' PROVE Live(g)
  <2>1. g.key.sess \in Nat /\ g.key.sess <= lastSession
    BY <1>2 DEF IInv, TypeOK, SessionsKnown, Live, GrantRec, Key, E!Key, Session
  <2> QED
    BY <1>1, <1>2, <2>1 DEF Live
<1> QED
  BY <1>2, OthersOnlyLeave

\* A Mount that succeeds lets in a container those inside are compatible with.
LEMMA MountEnters ==
  ASSUME IInv, IInv', NEW h \in Host, BodyOk(h)
  PROVE  [Access!Next]_Holders
<1> DEFINE new == [host |-> h, vol |-> req[h].vol, mode |-> req[h].mode,
                   caller |-> req[h].caller, key |-> mine[h], mp |-> TRUE]
<1>1. grants' = grants \union {new} /\ leases' = leases
  BY DEF BodyOk, MountReply
<1>2. CASE ~Live(new)
  BY <1>1, <1>2, OthersOnlyLeave DEF Live
<1>3. CASE Live(new)
  <2> DEFINE x == ContainerOf(new)
  <2>1. Holders' = Holders \union {x}
    BY <1>1, <1>3 DEF Holders, Live
  <2>2. CASE x \in Holders
    BY <2>1, <2>2
  <2>3. CASE x \notin Holders
    <3>1. x \in Container
      BY <1>1 DEF IInv, TypeOK, GrantRec, Container, ContainerOf
    <3>2. ASSUME NEW y \in Holders PROVE Access!Compatible(x, y)
      <4>1. PICK g \in grants : Live(g) /\ y = ContainerOf(g)
        BY DEF Holders
      <4>2. g # new
        BY <2>3, <4>1
      <4>3. LiveGrantsExclude'
        BY OwnersExclude, PTL
      <4>4. new.vol = g.vol => new.mode = "ro" /\ g.mode = "ro"
        BY <1>1, <1>3, <4>1, <4>2, <4>3 DEF LiveGrantsExclude, Live
      <4> QED
        BY <4>1, <4>4 DEF ContainerOf, Access!Compatible
    <3>3. Access!Enter(x)
      BY <2>1, <2>3, <3>2 DEF Access!Enter, Holders
    <3> QED
      BY <3>1, <3>3 DEF Access!Next
  <2> QED
    BY <2>2, <2>3
<1> QED
  BY <1>2, <1>3

\* Every step of the lock protocol is an Enter, a Leave or a stutter.
LEMMA AccessStep == IInv /\ IInv' /\ [Next]_vars => [Access!Next]_Holders
<1> SUFFICES ASSUME IInv, IInv', [Next]_vars PROVE [Access!Next]_Holders
  OBVIOUS
<1>1. ASSUME NEW h \in Host, SessionStep(h) PROVE [Access!Next]_Holders
  <2>1. CASE LeaseLost(h)
    BY <2>1, OthersOnlyLeave DEF LeaseLost, E!Expire, Live
  <2>2. CASE SessionDone(h) \/ RecreateFail(h)
    BY <2>2, OthersOnlyLeave DEF SessionDone, RecreateFail, Live
  <2>3. CASE Recreate(h)
    BY <2>3, NewSessionGrants DEF Recreate
  <2> QED
    BY <1>1, <2>1, <2>2, <2>3 DEF SessionStep
<1>2. ASSUME NEW h \in Host, Environment(h) PROVE [Access!Next]_Holders
  <2>1. CASE Start(h)
    BY <2>1, NewSessionGrants, OthersOnlyLeave DEF Start, Live
  <2>2. CASE StartFail(h) \/ Crash(h) \/ Reboot(h)
    BY <2>2, OthersOnlyLeave DEF StartFail, Crash, Reboot, ProcessGone, Live
  <2>3. ASSUME NEW v \in Volume, NEW m \in Mode, NEW c \in Caller,
               BeginMount(h, v, m, c) \/ BeginUnmount(h, v, m, c)
        PROVE [Access!Next]_Holders
    BY <2>3, OthersOnlyLeave DEF BeginMount, BeginUnmount, GrantsOf, Live
  <2> QED
    BY <1>2, <2>1, <2>2, <2>3 DEF Environment
<1>3. ASSUME NEW h \in Host, HandlerStep(h) PROVE [Access!Next]_Holders
  <2>1. CASE BodyOk(h)
    BY <2>1, MountEnters
  <2>2. CASE UndoOk(h)
    BY <2>2, OthersOnlyLeave DEF UndoOk, UnlockOk, E!Release, MountReply, Live
  <2>3. CASE UndoFail(h) \/ Unlock(h) \/ UnlockError(h)
    BY <2>3, OthersOnlyLeave
       DEF UndoFail, Unlock, UnlockError, UnlockOk, UnlockNotFound, UnlockFail, E!Release, Live
  <2>4. CASE LockSkip(h) \/ LockNoCaller(h) \/ LockCheck(h) \/ NewMutex(h)
    BY <2>4, OthersOnlyLeave DEF LockSkip, LockNoCaller, LockCheck, NewMutex, Live
  <2>5. CASE Acquire(h) \/ AcquireFail(h) \/ Register(h) \/ RegisterFail(h)
    BY <2>5, OthersOnlyLeave
       DEF Acquire, E!Acquire, AcquireFail, Register, RegisterFail, Live
  <2>6. CASE CountStay(h) \/ CountLast(h) \/ BodyFail(h) \/ UmountDone(h)
    BY <2>6, OthersOnlyLeave DEF CountStay, CountLast, BodyFail, UmountDone, Live
  <2> QED
    BY <1>3, <2>1, <2>2, <2>3, <2>4, <2>5, <2>6 DEF HandlerStep, LockStep
<1>4. ASSUME NEW s \in Session, AbandonedLeaseEnds(s) PROVE [Access!Next]_Holders
  BY <1>4, OthersOnlyLeave DEF AbandonedLeaseEnds, E!Expire, Live
<1>5. CASE UNCHANGED vars
  BY <1>5, OthersOnlyLeave DEF vars, Live
<1> QED
  BY <1>1, <1>2, <1>3, <1>4, <1>5 DEF Next

(***************************************************************************)
(* What the hosts do together looks, to containers with live leases, like  *)
(* one readers-writer lock per volume (driver.go:425-619 and 813-833).     *)
(***************************************************************************)
THEOREM AccessRefinement == IDsSound => (Spec => ImplementsAccess)
<1>1. Init => Access!Init
  BY DEF Init, Access!Init, Holders
<1>2. IInv /\ IInv' /\ [Next]_vars => [Access!Next]_Holders
  BY AccessStep
<1> QED
  BY <1>1, <1>2, Owners, PTL DEF Spec, ImplementsAccess, Access!Spec, Holders
=============================================================================
