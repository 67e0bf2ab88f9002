-------------------------- MODULE ShellExecProofs ---------------------------
(***************************************************************************)
(* Theorems about the running of commands, for any number of requests.     *)
(***************************************************************************)
EXTENDS ShellExec, TLAPS

LEMMA RequestStep ==
  ASSUME TypeOK, NEW r \in Request,
         Begin(r) \/ Lock(r) \/ Start(r) \/ End(r) \/ Return(r)
  PROVE  TypeOK'
<1> USE NullsAssumption DEF TypeOK, Goto, Request
<1>1. CASE Begin(r)
  BY <1>1 DEF Begin
<1>2. CASE Lock(r)
  BY <1>2 DEF Lock
<1>3. CASE Start(r)
  <2>1. PICK c \in Call :
          /\ Unused(c)
          /\ call' = [call EXCEPT ![r] = c]
          /\ \E p \in {"running", "ended"} : proc' = [proc EXCEPT ![c] = p]
          /\ late' = [late EXCEPT ![c] = FALSE]
          /\ running' = [running EXCEPT ![c] = TRUE]
          /\ timer' = [timer EXCEPT ![c] = "check"]
    BY <1>3 DEF Start
  <2>2. pc[r] = "ready" /\ call[r] = NoCall /\ UNCHANGED mutex
        /\ pc' = [pc EXCEPT ![r] = "wait"]
    BY <1>3 DEF Start
  <2> QED
    BY <2>1, <2>2
<1>4. CASE End(r)
  <2>1. call[r] \in Call
    BY <1>4 DEF End
  <2> QED
    BY <1>4, <2>1 DEF End
<1>5. CASE Return(r)
  BY <1>5 DEF Return
<1> QED
  BY <1>1, <1>2, <1>3, <1>4, <1>5

LEMMA CallStep ==
  ASSUME TypeOK, NEW c \in Call, Exit(c) \/ TimeOver(c) \/ TimerStep(c)
  PROVE  TypeOK'
<1>1. UNCHANGED <<mutex, pc, call>>
  BY DEF Exit, TimeOver, TimerStep, TimerGoesOn, TimerEnds, TimerLooks, StopKills, StopInVain,
         Stop, TimerWakes, reqVars
<1>2. proc' = proc \/ proc' = [proc EXCEPT ![c] = "ended"]
  BY DEF Exit, TimeOver, TimerStep, TimerGoesOn, TimerEnds, TimerLooks, StopKills, StopInVain,
         TimerWakes
<1>3. late' = late \/ late' = [late EXCEPT ![c] = TRUE]
  BY DEF Exit, TimeOver, TimerStep, TimerGoesOn, TimerEnds, TimerLooks, StopKills, StopInVain,
         Stop, TimerWakes
<1>4. running' = running
  BY DEF Exit, TimeOver, TimerStep, TimerGoesOn, TimerEnds, TimerLooks, StopKills, StopInVain,
         Stop, TimerWakes
<1>5. \/ timer' = timer
      \/ \E loc \in {"off", "check", "look", "sleep"} : timer' = [timer EXCEPT ![c] = loc]
  BY DEF Exit, TimeOver, TimerStep, TimerGoesOn, TimerEnds, TimerLooks, StopKills, StopInVain,
         Stop, TimerWakes, GotoTimer
<1> QED
  BY <1>1, <1>2, <1>3, <1>4, <1>5 DEF TypeOK

(***************************************************************************)
(* The state keeps its shape: in particular d.m is with the one handler    *)
(* that is between its Lock and its return (driver.go:190), and a request  *)
(* waits for one command at a time.                                        *)
(***************************************************************************)
THEOREM TypeCorrect == Spec => []TypeOK
<1>1. Init => TypeOK
  BY NullsAssumption DEF Init, TypeOK, Request
<1>2. TypeOK /\ [Next]_vars => TypeOK'
  BY RequestStep, CallStep DEF Next, vars, TypeOK
<1> QED
  BY <1>1, <1>2, PTL DEF Spec
=============================================================================
