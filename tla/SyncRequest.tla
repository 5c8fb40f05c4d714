---------------------------- MODULE SyncRequest ----------------------------
(***************************************************************************)
(* The synchronous requests of the driver: hpt_do_ioctl and __hpt_do_ioctl.*)
(* A process hands a request to the LDM, sleeps on a semaphore on its own  *)
(* stack, is woken by the completion or by a 20 s timer, and in the second *)
(* case resets the bus, drains the deferred tasks and waits again.         *)
(*                                                                         *)
(* Every section under vbus_ext->lock is one action.  What the process     *)
(* does outside it (down_trylock, add_timer, down, del_timer) and the      *)
(* timer callback, which takes no lock, are actions of their own.          *)
(***************************************************************************)
EXTENDS Naturals

CONSTANTS
  Caller,      \* the processes
  NVbus,       \* the number of virtual buses
  MaxLate      \* bound: callbacks of one process in flight at a time

ASSUME SyncRequestAssumption ==
  /\ NVbus \in Nat \ {0}
  /\ MaxLate \in Nat

Answers == {"ok", "wrong_vbus"}

VARIABLES
  pc,        \* where the process is
  at,        \* the bus hpt_do_ioctl is asking
  sem,       \* the count of the semaphore on the stack of __hpt_do_ioctl
  cmnd,      \* ioctl_args->ioctl_cmnd # 0: not completed
  result,    \* ioctl_args->result
  held,      \* what the LDM does with the request: "no" (not there),
             \*   "working", or "stuck" (needs a reset to get on)
  timer,     \* the timer on the stack is pending
  late,      \* callbacks of it that have started and not called up() yet
  expired    \* history: a timer callback has raised the semaphore since the
             \*   present wait began

vars == <<pc, at, sem, cmnd, result, held, timer, late, expired>>

(* The stack frame of __hpt_do_ioctl is alive.                             *)
Asleep == {"trylock", "arm", "down", "down_uninterruptible"}
InFrame == Asleep \cup {"disarm", "check"}

Init ==
  /\ pc = [c \in Caller |-> "idle"]
  /\ at = [c \in Caller |-> 1]
  /\ sem = [c \in Caller |-> 0]
  /\ cmnd = [c \in Caller |-> FALSE]
  /\ result = [c \in Caller |-> "none"]
  /\ held = [c \in Caller |-> "no"]
  /\ timer = [c \in Caller |-> FALSE]
  /\ late = [c \in Caller |-> 0]
  /\ expired = [c \in Caller |-> FALSE]

-----------------------------------------------------------------------------
(* hpt_ioctl_done for every request in S, with answers r: up, then         *)
(* ioctl_cmnd = 0; base is the semaphores before.                          *)
Done(S, r, base) ==
  /\ sem' = [c \in Caller |-> IF c \in S THEN base[c] + 1 ELSE base[c]]
  /\ cmnd' = [c \in Caller |-> cmnd[c] /\ c \notin S]
  /\ result' = [c \in Caller |-> IF c \in S THEN r[c] ELSE result[c]]

Call(c) ==
  /\ pc[c] = "idle"
  /\ pc' = [pc EXCEPT ![c] = "ask"]
  /\ at' = [at EXCEPT ![c] = 1]
  /\ UNCHANGED <<sem, cmnd, result, held, timer, late, expired>>

(* __hpt_do_ioctl up to the first unlock.  The LDM may complete the        *)
(* request before ldm_ioctl returns.                                       *)
Submit(c) ==
  /\ pc[c] = "ask"
  /\ pc' = [pc EXCEPT ![c] = "trylock"]
  /\ \/ \E h \in {"working", "stuck"} :
          /\ held' = [held EXCEPT ![c] = h]
          /\ sem' = [sem EXCEPT ![c] = 0]
          /\ cmnd' = [cmnd EXCEPT ![c] = TRUE]
          /\ result' = [result EXCEPT ![c] = "none"]
     \/ \E a \in Answers :
          /\ UNCHANGED held
          /\ sem' = [sem EXCEPT ![c] = 1]
          /\ cmnd' = [cmnd EXCEPT ![c] = FALSE]
          /\ result' = [result EXCEPT ![c] = a]
  /\ expired' = [expired EXCEPT ![c] = FALSE]
  /\ UNCHANGED <<at, timer, late>>

(* An interrupt, a timer or a task of the LDM completes a request.         *)
Complete(c) ==
  /\ held[c] = "working"
  /\ held' = [held EXCEPT ![c] = "no"]
  /\ \E a \in Answers : Done({c}, [d \in Caller |-> a], sem)
  /\ UNCHANGED <<pc, at, timer, late, expired>>

DownTrylock(c) ==
  /\ pc[c] = "trylock"
  /\ IF sem[c] > 0
     THEN /\ sem' = [sem EXCEPT ![c] = sem[c] - 1]
          /\ pc' = [pc EXCEPT ![c] = "check"]
     ELSE /\ pc' = [pc EXCEPT ![c] = "arm"]
          /\ UNCHANGED sem
  /\ UNCHANGED <<at, cmnd, result, held, timer, late, expired>>

(* Mutant of AddTimer: the process sleeps without a timer.                 *)
AddNoTimer(c) ==
  /\ pc[c] = "arm"
  /\ pc' = [pc EXCEPT ![c] = "down"]
  /\ UNCHANGED <<at, sem, cmnd, result, held, timer, late, expired>>

AddTimer(c) ==
  /\ pc[c] = "arm"
  /\ timer' = [timer EXCEPT ![c] = TRUE]
  /\ pc' = [pc EXCEPT ![c] = "down"]
  /\ UNCHANGED <<at, sem, cmnd, result, held, late, expired>>

(* Mutant of Signal: the second down() is left out.                        *)
SignalWakes(c) ==
  /\ pc[c] = "down"
  /\ pc' = [pc EXCEPT ![c] = "disarm"]
  /\ UNCHANGED <<at, sem, cmnd, result, held, timer, late, expired>>

(* A signal ends down_interruptible; the process then waits without being  *)
(* interruptible.                                                          *)
Signal(c) ==
  /\ pc[c] = "down"
  /\ pc' = [pc EXCEPT ![c] = "down_uninterruptible"]
  /\ UNCHANGED <<at, sem, cmnd, result, held, timer, late, expired>>

Down(c) ==
  /\ pc[c] \in {"down", "down_uninterruptible"}
  /\ sem[c] > 0
  /\ sem' = [sem EXCEPT ![c] = sem[c] - 1]
  /\ pc' = [pc EXCEPT ![c] = "disarm"]
  /\ UNCHANGED <<at, cmnd, result, held, timer, late, expired>>

(* del_timer: a pending timer is removed, a running callback is not waited *)
(* for.                                                                    *)
DelTimer(c) ==
  /\ pc[c] = "disarm"
  /\ timer' = [timer EXCEPT ![c] = FALSE]
  /\ pc' = [pc EXCEPT ![c] = "check"]
  /\ UNCHANGED <<at, sem, cmnd, result, held, late, expired>>

(* The timer softirq takes the timer off and calls hpt_ioctl_timeout, ...  *)
TimerExpires(c) ==
  /\ timer[c]
  /\ late[c] < MaxLate
  /\ timer' = [timer EXCEPT ![c] = FALSE]
  /\ late' = [late EXCEPT ![c] = late[c] + 1]
  /\ UNCHANGED <<pc, at, sem, cmnd, result, held, expired>>

(* ... which calls up(), on another CPU perhaps much later.  After         *)
(* __hpt_do_ioctl has returned it hits memory that is not a semaphore any  *)
(* more; a later call of the same process has its semaphore in the same    *)
(* place.                                                                  *)
LateUp(c) ==
  /\ late[c] > 0
  /\ late' = [late EXCEPT ![c] = late[c] - 1]
  /\ sem' = [sem EXCEPT ![c] = IF pc[c] \in InFrame THEN sem[c] + 1 ELSE sem[c]]
  /\ expired' = [expired EXCEPT ![c] = TRUE]
  /\ UNCHANGED <<pc, at, cmnd, result, held, timer>>

(* Mutants of Finish: the process returns although the request is still    *)
(* there; the next bus is asked whatever the answer was.                   *)
FinishUnanswered(c) ==
  /\ pc[c] = "check"
  /\ pc' = [pc EXCEPT ![c] = "idle"]
  /\ UNCHANGED <<at, sem, cmnd, result, held, timer, late, expired>>

FinishEveryBus(c) ==
  /\ pc[c] = "check" /\ ~cmnd[c]
  /\ IF at[c] < NVbus
     THEN at' = [at EXCEPT ![c] = at[c] + 1] /\ pc' = [pc EXCEPT ![c] = "ask"]
     ELSE pc' = [pc EXCEPT ![c] = "idle"] /\ UNCHANGED at
  /\ UNCHANGED <<sem, cmnd, result, held, timer, late, expired>>

(* Back under the lock with ioctl_cmnd = 0: return, and in hpt_do_ioctl    *)
(* go on to the next bus or return to the caller.                          *)
Finish(c) ==
  /\ pc[c] = "check" /\ ~cmnd[c]
  /\ IF result[c] = "wrong_vbus" /\ at[c] < NVbus
     THEN /\ at' = [at EXCEPT ![c] = at[c] + 1]
          /\ pc' = [pc EXCEPT ![c] = "ask"]
     ELSE /\ pc' = [pc EXCEPT ![c] = "idle"]
          /\ UNCHANGED at
  /\ UNCHANGED <<sem, cmnd, result, held, timer, late, expired>>

(* Mutant of Reset: sema_init after the reset instead of before it.        *)
ResetThenInit(c, S) ==
  /\ pc[c] = "check" /\ cmnd[c]
  /\ \A d \in S : held[d] # "no" /\ at[d] = at[c]
  /\ sem' = [d \in Caller |-> IF d \in S \ {c} THEN sem[d] + 1
                             ELSE IF d = c THEN 0 ELSE sem[d]]
  /\ cmnd' = [d \in Caller |-> cmnd[d] /\ d \notin S]
  /\ result' = [d \in Caller |-> IF d \in S THEN "ok" ELSE result[d]]
  /\ held' = [d \in Caller |-> IF d \in S THEN "no" ELSE held[d]]
  /\ pc' = [pc EXCEPT ![c] = "trylock"]
  /\ expired' = [expired EXCEPT ![c] = FALSE]
  /\ UNCHANGED <<at, timer, late>>

(* Back under the lock with the request still there: sema_init, reset the  *)
(* bus, drain the tasks, wait again.  Of the requests on that bus those in *)
(* S are completed on the way; the reset may set a stuck one going again.  *)
Reset(c, S) ==
  /\ pc[c] = "check" /\ cmnd[c]
  /\ \A d \in S : held[d] # "no" /\ at[d] = at[c]
  /\ \E r \in [Caller -> Answers] : Done(S, r, [sem EXCEPT ![c] = 0])
  /\ \E h \in {"working", "stuck"} :
       held' = [d \in Caller |-> IF d \in S THEN "no"
                                 ELSE IF held[d] = "stuck" /\ at[d] = at[c] THEN h
                                 ELSE held[d]]
  /\ pc' = [pc EXCEPT ![c] = "trylock"]
  /\ expired' = [expired EXCEPT ![c] = FALSE]
  /\ UNCHANGED <<at, timer, late>>

-----------------------------------------------------------------------------
Step(c) ==
  \/ Submit(c) \/ DownTrylock(c) \/ AddTimer(c) \/ Down(c) \/ DelTimer(c)
  \/ Finish(c) \/ \E S \in SUBSET Caller : Reset(c, S)

Next ==
  \E c \in Caller : \/ Call(c) \/ Step(c) \/ Signal(c)
                    \/ Complete(c) \/ TimerExpires(c) \/ LateUp(c)

Spec == Init /\ [][Next]_vars

(* Fairness: the process is scheduled, timers expire and their callbacks   *)
(* finish, the LDM completes what it works on, and of infinitely many      *)
(* resets one gets the request going again or fails it.                    *)
Revives(c) == \E S \in SUBSET Caller : Reset(c, S) /\ held'[c] # "stuck"

Fairness ==
  \A c \in Caller : /\ WF_vars(Step(c)) /\ WF_vars(TimerExpires(c))
                    /\ WF_vars(LateUp(c)) /\ WF_vars(Complete(c))
                    /\ SF_vars(Revives(c))

FairSpec == Spec /\ Fairness

-----------------------------------------------------------------------------
(* Types.                                                                  *)
TypeOK ==
  /\ pc \in [Caller -> {"idle", "ask"} \cup InFrame]
  /\ at \in [Caller -> 1 .. NVbus]
  /\ sem \in [Caller -> Nat]
  /\ cmnd \in [Caller -> BOOLEAN]
  /\ result \in [Caller -> Answers \cup {"none"}]
  /\ held \in [Caller -> {"no", "working", "stuck"}]
  /\ timer \in [Caller -> BOOLEAN]
  /\ late \in [Caller -> 0 .. MaxLate]
  /\ expired \in [Caller -> BOOLEAN]

(* A completed request never finds its process asleep with nothing to wake *)
(* it: the sema_init of the reset path and the up of the completion do not *)
(* cancel each other, whatever the order of completion, timeout and reset. *)
NoLostWakeup ==
  \A c \in Caller : pc[c] \in Asleep /\ ~cmnd[c] => sem[c] > 0

(* The LDM holds a request only while the frame with its IOCTL_ARG and its *)
(* semaphore exists, and only one that is marked as not completed: a       *)
(* completion after a timeout, or one caused by another process's reset,   *)
(* never writes to a request that was given up or is already answered.     *)
NoDanglingRequest ==
  \A c \in Caller : held[c] # "no" <=> (cmnd[c] /\ pc[c] \in InFrame)

(* A bus is reset only if a timer has expired during the wait: neither the *)
(* completion of the request nor a signal can be taken for a timeout.  The *)
(* timer may be that of an earlier wait whose callback comes late.         *)
ResetOnlyAfterTimeout ==
  [][\A c \in Caller : pc[c] = "check" /\ pc'[c] = "trylock" => expired[c]]_vars

(* Every ioctl returns to its caller.                                      *)
EveryCallReturns == \A c \in Caller : pc[c] = "ask" ~> pc[c] = "idle"

(* The abstract call: the answer is given when ioctl_cmnd is cleared.      *)
Phase == [c \in Caller |-> CASE pc[c] = "idle" -> "idle"
                             [] pc[c] = "ask"  -> "between"
                             [] OTHER -> IF cmnd[c] THEN "pending" ELSE result[c]]

Abstract == INSTANCE IoctlCall WITH phase <- Phase

ImplementsIoctlCall == Abstract!Spec
=============================================================================
