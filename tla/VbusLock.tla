------------------------------ MODULE VbusLock ------------------------------
(***************************************************************************)
(* Who may be in the LDM: the lock each vbus_ext->lock points to.          *)
(* hpt_detect initialises one vbus after the other under a spinlock on its *)
(* own stack, which it initialises anew for each of them, then moves the   *)
(* pointer of each vbus to the host_lock of its SCSI host; hpt_cleanup     *)
(* stops tasklet, timer and interrupt of a vbus and frees its memory.      *)
(*                                                                         *)
(* A handler reads the pointer when it locks and again when it unlocks     *)
(* (spin_lock_irqsave(vbus_ext->lock, flags) ... spin_unlock_irqrestore(   *)
(* vbus_ext->lock, flags)); hpt_detect uses its initlock directly.         *)
(***************************************************************************)
EXTENDS Naturals

CONSTANT Vbuses    \* the number of vbuses, in the order of ldm_for_each_vbus

ASSUME VbusLockAssumption == Vbuses \in Nat \ {0}

Vbus == 1 .. Vbuses

(* The contexts beside the loading and unloading thread, for each vbus:    *)
(* os_timer_for_ldm, hpt_intr, and the drain of the worker tasklet.        *)
Handler == {"timer", "intr", "tasklet"} \X Vbus
Thread == <<"thread", 0>>
Nobody == <<"nobody", 0>>

(* The host_lock of vbus v is v.                                           *)
initlock == 0
Locks == 0 .. Vbuses
null == Vbuses + 1

VARIABLES
  main,      \* the place of the thread in hpt_detect and hpt_cleanup
  cur,       \* the vbus it works on
  lock,      \* what vbus_ext->lock of each vbus points to
  owner,     \* the owner of each spinlock
  on,        \* the handlers that may start: the timer is pending, the
             \*   interrupt is requested, the tasklet is scheduled
  pc,        \* a handler is "idle", "spin"(ning) or "in" the LDM
  spun,      \* the lock a handler that is not idle read the pointer to
  initialised,  \* the vbuses whose ldm_initialize_vbus_done has raised sem
  worker,    \* the vbuses whose worker.func is not null
  hosts,     \* the vbuses with a SCSI host
  freed,     \* the vbuses hpt_cleanup has freed
  moved,     \* history: see InitLock, InitFails, SetVbusLock, EndDetect
  revived    \* history: the tasklet was scheduled again after tasklet_kill

thread == <<main, cur>>
vars == <<thread, lock, owner, on, pc, spun, initialised, worker, hosts, freed,
          moved, revived>>

Init ==
  /\ main = "init" /\ cur = 1
  /\ lock = [v \in Vbus |-> null]
  /\ owner = [l \in Locks |-> Nobody]
  /\ on = {}
  /\ pc = [c \in Handler |-> "idle"]
  /\ spun = [c \in Handler |-> null]
  /\ initialised = {} /\ worker = {} /\ hosts = {} /\ freed = {}
  /\ moved = {} /\ revived = {}

Goto(place) == main' = place /\ cur' = cur

Free(l) == owner[l] = Nobody
Take(l, c) == Free(l) /\ owner' = [owner EXCEPT ![l] = c]
Give(l) == owner' = [owner EXCEPT ![l] = Nobody]

(* hpt_detect has returned, its initlock is gone.                          *)
Returned == main \notin {"init", "lock", "initialize", "waiting", "autorebuild",
                         "register", "request_irq", "end"}

UnderWay(v) == \E c \in Handler : c[2] = v /\ pc[c] # "idle"
OnInitlock == {v \in Vbus : lock[v] = initlock}

-----------------------------------------------------------------------------
(* Handlers.  A tasklet without func is not run here: the call through the *)
(* null pointer is in TaskQueue.                                           *)
Start(c) ==
  /\ c \in on /\ pc[c] = "idle"
  /\ c[1] = "tasklet" => c[2] \in worker
  /\ pc' = [pc EXCEPT ![c] = "spin"]
  /\ spun' = [spun EXCEPT ![c] = lock[c[2]]]
  /\ on' = IF c[1] = "intr" THEN on ELSE on \ {c}
  /\ UNCHANGED <<thread, lock, owner, initialised, worker, hosts, freed, moved, revived>>

(* The stack of hpt_detect is used by others when it has returned: what is *)
(* then taken for the lock may look free at any time.                      *)
Enter(c) ==
  /\ pc[c] = "spin"
  /\ IF spun[c] = initlock /\ Returned THEN UNCHANGED owner ELSE Take(spun[c], c)
  /\ pc' = [pc EXCEPT ![c] = "in"]
  /\ UNCHANGED <<thread, lock, on, spun, initialised, worker, hosts, freed, moved, revived>>

(* What the LDM may set going.  After ldm_shutdown it is taken not to.     *)
MayArm(v) ==
  IF v \in freed \/ (v = cur /\ main = "free_irq") THEN {}
  ELSE {<<"timer", v>>} \cup (IF v \in worker THEN {<<"tasklet", v>>} ELSE {})

Leave(c) ==
  /\ pc[c] = "in"
  /\ Give(lock[c[2]])
  /\ pc' = [pc EXCEPT ![c] = "idle"]
  /\ spun' = [spun EXCEPT ![c] = null]
  /\ \E A \in SUBSET MayArm(c[2]) : on' = on \cup A
  /\ initialised' \in {initialised, initialised \cup {c[2]}}
  /\ UNCHANGED <<thread, lock, worker, hosts, freed, moved, revived>>

-----------------------------------------------------------------------------
(* hpt_detect, the first loop: an iteration for each vbus.                 *)
NextOr(head, end) ==
  IF cur = Vbuses THEN main' = end /\ cur' = 1 ELSE main' = head /\ cur' = cur + 1

(* spin_lock_init(&initlock) and the pointer.  moved: a handler of an      *)
(* earlier vbus waits for the lock or holds it when it is initialised.     *)
InitLock ==
  /\ main = "init"
  /\ Give(initlock)
  /\ lock' = [lock EXCEPT ![cur] = initlock]
  /\ moved' = IF \E v \in OnInitlock : UnderWay(v)
              THEN moved \cup OnInitlock \cup {cur} ELSE moved
  /\ Goto("lock")
  /\ UNCHANGED <<on, pc, spun, initialised, worker, hosts, freed, revived>>

(* him->initialize fails, or a signal interrupts down: hpt_detect returns. *)
InitFails ==
  /\ main \in {"lock", "waiting"}
  /\ moved' = moved \cup OnInitlock
  /\ Goto("failed")
  /\ UNCHANGED <<lock, owner, on, pc, spun, initialised, worker, hosts, freed, revived>>

LockInit ==
  /\ main = "lock"
  /\ Take(initlock, Thread)
  /\ Goto("initialize")
  /\ UNCHANGED <<lock, on, pc, spun, initialised, worker, hosts, freed, moved, revived>>

(* ldm_initialize_vbus_async: the LDM is done with it, or goes on when its *)
(* timer expires.                                                          *)
InitializeVbus ==
  /\ main = "initialize"
  /\ Give(initlock)
  /\ \/ initialised' = initialised \cup {cur} /\ on' = on
     \/ initialised' = initialised /\ on' = on \cup {<<"timer", cur>>}
  /\ Goto("waiting")
  /\ UNCHANGED <<lock, pc, spun, worker, hosts, freed, moved, revived>>

(* Mutant of DownInterruptible: ldm_set_autorebuild without the lock.      *)
DownWithoutLock ==
  /\ main = "waiting"
  /\ cur \in initialised
  /\ Goto("autorebuild")
  /\ UNCHANGED <<lock, owner, on, pc, spun, initialised, worker, hosts, freed, moved, revived>>

DownInterruptible ==
  /\ main = "waiting"
  /\ cur \in initialised
  /\ Take(initlock, Thread)
  /\ Goto("autorebuild")
  /\ UNCHANGED <<lock, on, pc, spun, initialised, worker, hosts, freed, moved, revived>>

SetAutorebuild ==
  /\ main = "autorebuild"
  /\ Give(initlock)
  /\ \E A \in SUBSET MayArm(cur) : on' = on \cup A
  /\ NextOr("init", "register")
  /\ UNCHANGED <<lock, pc, spun, initialised, worker, hosts, freed, moved, revived>>

(* The second loop.  moved: a handler is waiting for the old lock or holds *)
(* it when the pointer is moved.                                           *)
SetVbusLock ==
  /\ main = "register"
  /\ hosts' = hosts \cup {cur}
  /\ lock' = [lock EXCEPT ![cur] = cur]
  /\ moved' = IF UnderWay(cur) THEN moved \cup {cur} ELSE moved
  /\ Goto("request_irq")
  /\ UNCHANGED <<owner, on, pc, spun, initialised, worker, freed, revived>>

(* scsi_register fails: the vbus is left as it is.                         *)
RegisterFails ==
  /\ main = "register"
  /\ NextOr("register", "end")
  /\ UNCHANGED <<lock, owner, on, pc, spun, initialised, worker, hosts, freed, moved, revived>>

(* request_irq may fail; the driver then goes on without it.               *)
RequestIrq ==
  /\ main = "request_irq"
  /\ on' \in {on, on \cup {<<"intr", cur>>}}
  /\ NextOr("register", "end")
  /\ UNCHANGED <<lock, owner, pc, spun, initialised, worker, hosts, freed, moved, revived>>

(* tasklet_init for every vbus, and the return.  moved: vbuses whose lock  *)
(* is still on the stack.                                                  *)
EndDetect ==
  /\ main = "end"
  /\ worker' = Vbus
  /\ \E A \in SUBSET Vbus : on' = on \cup ({"tasklet"} \X A)
  /\ moved' = moved \cup OnInitlock
  /\ Goto("service")
  /\ UNCHANGED <<lock, owner, pc, spun, initialised, hosts, freed, revived>>

-----------------------------------------------------------------------------
(* hpt_cleanup of vbus v.  tasklet_kill waits for the tasklet ...          *)
KillTasklet(v) ==
  /\ main = "service" /\ v \in hosts \ freed
  /\ <<"tasklet", v>> \notin on /\ pc[<<"tasklet", v>>] = "idle"
  /\ main' = "killed" /\ cur' = v
  /\ UNCHANGED <<lock, owner, on, pc, spun, initialised, worker, hosts, freed, moved, revived>>

(* ... and worker.func = 0, before which it may have been scheduled again. *)
(* The flush that follows is in FlushVdev.                                 *)
DisableWorker ==
  /\ main = "killed"
  /\ worker' = worker \ {cur}
  /\ revived' = IF <<"tasklet", cur>> \in on \/ pc[<<"tasklet", cur>>] # "idle"
                THEN revived \cup {cur} ELSE revived
  /\ Goto("disabled")
  /\ UNCHANGED <<lock, owner, on, pc, spun, initialised, hosts, freed, moved>>

LockForShutdown ==
  /\ main = "disabled"
  /\ Take(lock[cur], Thread)
  /\ Goto("del_timer")
  /\ UNCHANGED <<lock, on, pc, spun, initialised, worker, hosts, freed, moved, revived>>

(* Mutant of DelTimerSync: the timer is left to itself.                    *)
DelNoTimer ==
  /\ main = "del_timer"
  /\ Goto("shutdown")
  /\ UNCHANGED <<lock, owner, on, pc, spun, initialised, worker, hosts, freed, moved, revived>>

(* del_timer_sync, with the lock held: the pending timer is removed and a  *)
(* running callback waited for.                                            *)
DelTimerSync ==
  /\ main = "del_timer"
  /\ pc[<<"timer", cur>>] = "idle"
  /\ on' = on \ {<<"timer", cur>>}
  /\ Goto("shutdown")
  /\ UNCHANGED <<lock, owner, pc, spun, initialised, worker, hosts, freed, moved, revived>>

Shutdown ==
  /\ main = "shutdown"
  /\ Give(lock[cur])
  /\ Goto("free_irq")
  /\ UNCHANGED <<lock, on, pc, spun, initialised, worker, hosts, freed, moved, revived>>

(* free_irq waits for a running handler; then all memory is freed.         *)
FreeIrq ==
  /\ main = "free_irq"
  /\ pc[<<"intr", cur>>] = "idle"
  /\ on' = on \ {<<"intr", cur>>}
  /\ freed' = freed \cup {cur}
  /\ Goto("service")
  /\ UNCHANGED <<lock, owner, pc, spun, initialised, worker, hosts, moved, revived>>

-----------------------------------------------------------------------------
Detect ==
  \/ InitLock \/ LockInit \/ InitializeVbus \/ DownInterruptible \/ InitFails
  \/ SetAutorebuild \/ SetVbusLock \/ RegisterFails \/ RequestIrq \/ EndDetect

Cleanup ==
  \/ \E v \in Vbus : KillTasklet(v)
  \/ DisableWorker \/ LockForShutdown \/ DelTimerSync \/ Shutdown \/ FreeIrq

Next == (\E c \in Handler : Start(c) \/ Enter(c) \/ Leave(c)) \/ Detect \/ Cleanup

Spec == Init /\ [][Next]_vars

(* Fairness of the unloading: its steps are taken, handlers end, and the   *)
(* ticket lock lets everyone in.                                           *)
Fairness ==
  /\ WF_vars(DisableWorker) /\ SF_vars(LockForShutdown) /\ SF_vars(DelTimerSync)
  /\ WF_vars(Shutdown) /\ SF_vars(FreeIrq)
  /\ \A c \in Handler : SF_vars(Enter(c)) /\ WF_vars(Leave(c))

FairSpec == Spec /\ Fairness

-----------------------------------------------------------------------------
(* Types.                                                                  *)
TypeOK ==
  /\ main \in {"init", "lock", "initialize", "waiting", "autorebuild", "register",
               "request_irq", "end", "service", "killed", "disabled", "del_timer",
               "shutdown", "free_irq", "failed"}
  /\ cur \in Vbus
  /\ lock \in [Vbus -> Locks \cup {null}]
  /\ owner \in [Locks -> Handler \cup {Thread, Nobody}]
  /\ on \subseteq Handler
  /\ pc \in [Handler -> {"idle", "spin", "in"}]
  /\ spun \in [Handler -> Locks \cup {null}]
  /\ \A S \in {initialised, worker, hosts, freed, moved, revived} : S \subseteq Vbus

(* The contexts in the LDM instance of vbus v.                             *)
InLdm(v) ==
  {c \in Handler : c[2] = v /\ pc[c] = "in"}
    \cup IF v = cur /\ main \in {"initialize", "autorebuild", "shutdown"} THEN {Thread} ELSE {}

AtMostOneIn(v) == \A a, b \in InLdm(v) : a = b

(* "all driver entries (...) are protected by (...) host->host_lock": two  *)
(* contexts are never in the LDM of a vbus at the same time.  It does not  *)
(* hold: hpt_detect moves the pointer without the lock, initialises the    *)
(* lock anew, and leaves a vbus without a host with a lock on its stack.   *)
MutualExclusion == \A v \in Vbus : AtMostOneIn(v)

(* What hpt_detect does to the lock is the only thing that breaks it: a    *)
(* vbus whose lock was at rest when it was initialised again and when the  *)
(* pointer was moved is entered by one context at a time, also while it    *)
(* shares its lock with other vbuses, and also by unlocks that read a      *)
(* pointer that has moved.                                                 *)
ExclusiveUnlessMoved == \A v \in Vbus \ moved : AtMostOneIn(v)

(* Everyone unlocks the lock he has locked, with the same exception.       *)
UnlocksItsOwn ==
  \A c \in Handler : c[2] \notin moved /\ pc[c] = "in" => owner[lock[c[2]]] = c

(* When hpt_cleanup has freed a vbus nothing of it is pending and no       *)
(* handler is on its way in.  The exceptions: a lock that was moved under  *)
(* a handler, and a tasklet that was scheduled after tasklet_kill.         *)
NothingAfterFree ==
  \A c \in Handler :
    c[2] \in freed \ (moved \cup revived) => c \notin on /\ pc[c] = "idle"

(* hpt_cleanup "free[s] all resources of a vbus_ext": once begun it comes  *)
(* to its end.  It does not hold.                                          *)
CleanupEnds == \A v \in Vbus : main = "killed" /\ cur = v ~> v \in freed
=============================================================================
