----------------------------- MODULE ShellExec ------------------------------
(***************************************************************************)
(* How a plugin process runs commands: ExecShellTimeout of                 *)
(* src/cepher/utils.go, called one command after another by the requests,  *)
(* most of which hold the driver's mutex d.m from beginning to end.  Each  *)
(* call starts a process and a goroutine, the timer, which once the time   *)
(* limit is over stops the process again and again, a second apart, until  *)
(* it sees the flag running reset.                                         *)
(*                                                                         *)
(* The flag is written and read without synchronisation: a timer may read  *)
(* TRUE when it is FALSE already.  What commands do is left to the other   *)
(* modules, which take for granted what is shown here: they end.           *)
(***************************************************************************)
CONSTANTS
    Handler,    \* requests that hold d.m: Create, Remove, Mount, Unmount, Get
    Reader,     \* requests that do not: List and Path
    Call,       \* bound: calls with their timers that exist at a time
    Nobody,     \* d.m is free
    NoCall

Request == Handler \union Reader

VARIABLES
    mutex,      \* d.m: the handler that holds it
    pc,         \* where a request is
    call,       \* its call of ExecShellTimeout
    proc,       \* the process of each call: "running" or "ended"
    late,       \* has the time limit of the call passed?
    running,    \* the variable running of the call
    timer       \* its goroutine: "off", or where it is in its loop

reqVars == <<mutex, pc, call>>
vars == <<mutex, pc, call, proc, late, running, timer>>

ASSUME NullsAssumption ==
    /\ Handler \intersect Reader = {}
    /\ Nobody \notin Handler
    /\ NoCall \notin Call

TypeOK ==
    /\ mutex \in Handler \union {Nobody}
    /\ pc \in [Request -> {"idle", "lock", "ready", "wait"}]
    /\ call \in [Request -> Call \union {NoCall}]
    /\ proc \in [Call -> {"running", "ended"}]
    /\ late \in [Call -> BOOLEAN]
    /\ running \in [Call -> BOOLEAN]
    /\ timer \in [Call -> {"off", "check", "look", "sleep"}]
    /\ \A r \in Request :
          /\ pc[r] = "wait" <=> call[r] # NoCall
          /\ r \in Handler => (mutex = r <=> pc[r] \in {"ready", "wait"})

Init ==
    /\ mutex = Nobody
    /\ pc = [r \in Request |-> "idle"]
    /\ call = [r \in Request |-> NoCall]
    /\ proc = [c \in Call |-> "ended"]
    /\ late = [c \in Call |-> FALSE]
    /\ running = [c \in Call |-> FALSE]
    /\ timer = [c \in Call |-> "off"]

-----------------------------------------------------------------------------
Goto(r, loc) == pc' = [pc EXCEPT ![r] = loc]

Begin(r) ==
    /\ pc[r] = "idle"
    /\ Goto(r, "lock")
    /\ UNCHANGED <<mutex, call, proc, late, running, timer>>

\* Mutant: a handler does not take d.m.
LockNothing(r) ==
    /\ pc[r] = "lock"
    /\ Goto(r, "ready")
    /\ UNCHANGED <<mutex, call, proc, late, running, timer>>

\* d.m.Lock(), by those who call it.
Lock(r) ==
    /\ pc[r] = "lock"
    /\ IF r \in Handler
       THEN mutex = Nobody /\ mutex' = r
       ELSE UNCHANGED mutex
    /\ Goto(r, "ready")
    /\ UNCHANGED <<call, proc, late, running, timer>>

\* Nothing refers to this call any more.
Unused(c) == timer[c] = "off" /\ \A r \in Request : call[r] # c

\* acmd.Start() and the timer; a command that cannot be started has ended.
Start(r) ==
    /\ pc[r] = "ready"
    /\ \E c \in Call :
          /\ Unused(c)
          /\ call' = [call EXCEPT ![r] = c]
          /\ \E p \in {"running", "ended"} : proc' = [proc EXCEPT ![c] = p]
          /\ late' = [late EXCEPT ![c] = FALSE]
          /\ running' = [running EXCEPT ![c] = TRUE]
          /\ timer' = [timer EXCEPT ![c] = "check"]
    /\ Goto(r, "wait")
    /\ UNCHANGED mutex

\* The command ends by itself, with whatever status.
Exit(c) ==
    /\ proc[c] = "running"
    /\ proc' = [proc EXCEPT ![c] = "ended"]
    /\ UNCHANGED <<reqVars, late, running, timer>>

TimeOver(c) ==
    /\ timer[c] # "off"
    /\ ~late[c]
    /\ late' = [late EXCEPT ![c] = TRUE]
    /\ UNCHANGED <<reqVars, proc, running, timer>>

\* Mutant: the flag is not reset.
EndOnly(r) ==
    /\ pc[r] = "wait"
    /\ proc[call[r]] = "ended"
    /\ call' = [call EXCEPT ![r] = NoCall]
    /\ Goto(r, "ready")
    /\ UNCHANGED <<mutex, proc, late, running, timer>>

\* <-statusChan, the flag is reset, and status and output are returned.
End(r) ==
    /\ pc[r] = "wait"
    /\ proc[call[r]] = "ended"
    /\ running' = [running EXCEPT ![call[r]] = FALSE]
    /\ call' = [call EXCEPT ![r] = NoCall]
    /\ Goto(r, "ready")
    /\ UNCHANGED <<mutex, proc, late, timer>>

\* The request is answered and d.m released.
Return(r) ==
    /\ pc[r] = "ready"
    /\ mutex' = IF mutex = r THEN Nobody ELSE mutex
    /\ Goto(r, "idle")
    /\ UNCHANGED <<call, proc, late, running, timer>>

-----------------------------------------------------------------------------
GotoTimer(c, loc) == timer' = [timer EXCEPT ![c] = loc]

\* "for running": the loop goes on, by an old value too.
TimerGoesOn(c) ==
    /\ timer[c] = "check"
    /\ GotoTimer(c, "look")
    /\ UNCHANGED <<reqVars, proc, late, running>>

TimerEnds(c) ==
    /\ timer[c] = "check"
    /\ ~running[c]
    /\ GotoTimer(c, "off")
    /\ UNCHANGED <<reqVars, proc, late, running>>

TimerLooks(c) ==
    /\ timer[c] = "look"
    /\ ~late[c]
    /\ GotoTimer(c, "sleep")
    /\ UNCHANGED <<reqVars, proc, late, running>>

\* Mutant: the timer stops the command once and is done.
StopOnce(c) ==
    /\ timer[c] = "look"
    /\ late[c]
    /\ GotoTimer(c, "off")
    /\ UNCHANGED <<reqVars, late, running>>

\* acmd.Stop(), which sends SIGTERM to a process that has not ended.
Stop(c) ==
    /\ timer[c] = "look"
    /\ late[c]
    /\ GotoTimer(c, "sleep")
    /\ UNCHANGED <<reqVars, late, running>>

StopKills(c) == Stop(c) /\ proc' = [proc EXCEPT ![c] = "ended"]

\* The signal is held back or ignored, this time.
StopInVain(c) == Stop(c) /\ UNCHANGED proc

TimerWakes(c) ==
    /\ timer[c] = "sleep"
    /\ GotoTimer(c, "check")
    /\ UNCHANGED <<reqVars, proc, late, running>>

-----------------------------------------------------------------------------
TimerStep(c) ==
    \/ TimerGoesOn(c) \/ TimerEnds(c) \/ TimerLooks(c)
    \/ StopKills(c) \/ StopInVain(c) \/ TimerWakes(c)

Next ==
    \/ \E r \in Request : Begin(r) \/ Lock(r) \/ Start(r) \/ End(r) \/ Return(r)
    \/ \E c \in Call : Exit(c) \/ TimeOver(c) \/ TimerStep(c)

Spec == Init /\ [][Next]_vars

(***************************************************************************)
(* Goroutines run and time passes; d.m is a fair mutex; a handler runs     *)
(* through a finite number of commands; a timer sees the flag in the end;  *)
(* and a process that is sent SIGTERM again and again does not hold out    *)
(* for ever.  No command is obliged to end by itself.                      *)
(***************************************************************************)
Fairness ==
    /\ \A r \in Request : SF_vars(Lock(r)) /\ WF_vars(End(r)) /\ SF_vars(Return(r))
    /\ \A c \in Call :
          /\ WF_vars(TimeOver(c)) /\ WF_vars(TimerStep(c))
          /\ SF_vars(TimerEnds(c)) /\ SF_vars(StopKills(c))

FairSpec == Spec /\ Fairness

-----------------------------------------------------------------------------
(***************************************************************************)
(* Every request is answered, although commands may hang and every other   *)
(* request of the host waits for d.m meanwhile (driver.go:190, utils.go:   *)
(* 128-141).                                                               *)
(***************************************************************************)
RequestsReturn == \A r \in Request : pc[r] # "idle" ~> pc[r] = "idle"

(***************************************************************************)
(* The goroutines of calls that have returned do not pile up: each ends,   *)
(* although flag and loop race (utils.go:123, 133 and 146).                *)
(***************************************************************************)
TimersEnd == \A c \in Call : timer[c] # "off" ~> timer[c] = "off"
=============================================================================
