----------------------------- MODULE TaskQueue -----------------------------
(***************************************************************************)
(* The deferred tasks of a vbus: the list vbus_ext->tasks, the worker      *)
(* tasklet that drains it, and the life of that tasklet from hpt_detect    *)
(* (tasklet_init) to hpt_cleanup / hpt_halt (tasklet_kill, func = 0).      *)
(*                                                                         *)
(* Everything under vbus_ext->lock is one critical section; the model      *)
(* splits it where the code can be interrupted by a thread that does not   *)
(* take the lock, which is the thread that starts and stops the worker.    *)
(* The list is kept as the code keeps it, a head and a next pointer per    *)
(* OSM_TASK.                                                               *)
(***************************************************************************)
EXTENDS Naturals, Sequences, FiniteSets

CONSTANTS
  Task,          \* the OSM_TASK objects embedded in the LDM's own objects
  Irq,           \* contexts that take the lock only to enter the LDM:
                 \*   hpt_intr and os_timer_for_ldm
  Queuer,        \* callers of hpt_queuecommand: drain, then enter the LDM
  Resetter,      \* timed-out __hpt_do_ioctl: enter the LDM, then drain
  Worker,        \* the softirq that runs the worker tasklet
  NoTask, NoThread

Drainer == Queuer \cup Resetter \cup {Worker}
Thread  == Irq \cup Drainer

ASSUME TaskQueueAssumption ==
  /\ IsFiniteSet(Task)
  /\ NoTask \notin Task
  /\ NoThread \notin Thread
  /\ Irq \cap Drainer = {}
  /\ Queuer \cap Resetter = {}
  /\ Worker \notin Queuer \cup Resetter

VARIABLES
  lock,      \* the thread that holds *vbus_ext->lock, or NoThread
  head,      \* vbus_ext->tasks
  next,      \* task->next
  todo,      \* the local variable "tasks" of __hpt_do_tasks, per drainer
  pc,        \* where each thread is
  kick,      \* the lock holder linked a task and has not looked at worker.func
  func,      \* worker.func # 0
  sched,     \* TASKLET_STATE_SCHED
  run,       \* TASKLET_STATE_RUN
  softq,     \* the tasklet is on a CPU's softirq list
  main       \* progress of hpt_detect, then of hpt_cleanup or hpt_halt

vars == <<lock, head, next, todo, pc, kick, func, sched, run, softq, main>>

MaybeTask == Task \cup {NoTask}

(* The tasks linked from a pointer, in order: at[n] is the pointer after n *)
(* steps.  A cycle shows as a chain with a repeated element.               *)
Chain(first) ==
  LET at[n \in 0 .. Cardinality(Task)] ==
        IF n = 0 THEN first ELSE IF at[n - 1] = NoTask THEN NoTask ELSE next[at[n - 1]]
      length == Cardinality({n \in DOMAIN at : at[n] # NoTask})
  IN  [i \in 1 .. length |-> at[i - 1]]

Elems(s) == {s[i] : i \in DOMAIN s}

Linked == Elems(Chain(head)) \cup UNION {Elems(Chain(todo[d])) : d \in Drainer}

Init ==
  /\ lock = NoThread
  /\ head = NoTask
  /\ next = [t \in Task |-> NoTask]
  /\ todo = [d \in Drainer |-> NoTask]
  /\ pc = [th \in Thread |-> "idle"]
  /\ kick = FALSE
  /\ func = FALSE /\ sched = FALSE /\ run = FALSE /\ softq = FALSE
  /\ main = "init"

-----------------------------------------------------------------------------
(* The kernel's tasklet_schedule: only the caller that sets SCHED queues   *)
(* the tasklet on its softirq list.                                        *)
TaskletSchedule ==
  /\ sched' = TRUE
  /\ softq' = (softq \/ ~sched)

(* Entering and leaving the critical section.                              *)
Acquire(th, at) ==
  /\ lock = NoThread
  /\ lock' = th
  /\ pc' = [pc EXCEPT ![th] = at]

(* The mid layer has no command for the host, and no process an ioctl,     *)
(* until hpt_detect has returned.                                          *)
Serving == main \notin {"init", "inited", "store_pending"}

Enter(th) ==
  /\ th \in Irq \/ (th \in Resetter /\ Serving)
  /\ pc[th] = "idle"
  /\ Acquire(th, "ldm")
  /\ UNCHANGED <<head, next, todo, kick, func, sched, run, softq, main>>

(* __hpt_do_tasks takes the whole list; the list is then open for new      *)
(* tasks while the old ones run.                                           *)
Detach(th) ==
  /\ todo' = [todo EXCEPT ![th] = head]
  /\ head' = NoTask

QueueCommand(th) ==
  /\ th \in Queuer /\ Serving
  /\ pc[th] = "idle"
  /\ Acquire(th, "drain")
  /\ Detach(th)
  /\ UNCHANGED <<next, kick, func, sched, run, softq, main>>

DoTasks ==
  /\ pc[Worker] = "called"
  /\ Acquire(Worker, "drain")
  /\ Detach(Worker)
  /\ UNCHANGED <<next, kick, func, sched, run, softq, main>>

IoctlDoTasks(th) ==
  /\ th \in Resetter
  /\ pc[th] = "ldm" /\ ~kick
  /\ pc' = [pc EXCEPT ![th] = "drain"]
  /\ Detach(th)
  /\ UNCHANGED <<lock, next, kick, func, sched, run, softq, main>>

(* Mutant of RunTask: t->next = 0 left out.                                *)
RunTaskKeepsNext(th) ==
  /\ th \in Drainer
  /\ pc[th] = "drain" /\ todo[th] # NoTask
  /\ todo' = [todo EXCEPT ![th] = next[todo[th]]]
  /\ pc' = [pc EXCEPT ![th] = "task"]
  /\ UNCHANGED <<lock, head, next, kick, func, sched, run, softq, main>>

(* One turn of the loop: unlink the task, then call it.                    *)
RunTask(th) ==
  /\ th \in Drainer
  /\ pc[th] = "drain" /\ todo[th] # NoTask
  /\ LET t == todo[th]
     IN  /\ todo' = [todo EXCEPT ![th] = next[t]]
         /\ next' = [next EXCEPT ![t] = NoTask]
  /\ pc' = [pc EXCEPT ![th] = "task"]
  /\ UNCHANGED <<lock, head, kick, func, sched, run, softq, main>>

TaskReturn(th) ==
  /\ th \in Drainer
  /\ pc[th] = "task" /\ ~kick
  /\ pc' = [pc EXCEPT ![th] = "drain"]
  /\ UNCHANGED <<lock, head, next, todo, kick, func, sched, run, softq, main>>

(* Mutant of ScheduleTask: the task is pushed at the head of the list.     *)
ScheduleTaskAtHead(th, t) ==
  /\ pc[th] \in {"ldm", "task"} /\ ~kick
  /\ t \notin Linked
  /\ head' = t
  /\ next' = [next EXCEPT ![t] = head]
  /\ kick' = TRUE
  /\ UNCHANGED <<lock, todo, pc, func, sched, run, softq, main>>

(* os_schedule_task: the LDM, or a task being run, appends a task that is  *)
(* in no list.  Then, still under the lock, it looks at worker.func.       *)
ScheduleTask(th, t) ==
  /\ pc[th] \in {"ldm", "task"} /\ ~kick
  /\ t \notin Linked
  /\ IF head = NoTask
     THEN head' = t /\ UNCHANGED next
     ELSE LET c == Chain(head)
          IN  next' = [next EXCEPT ![c[Len(c)]] = t] /\ UNCHANGED head
  /\ kick' = TRUE
  /\ UNCHANGED <<lock, todo, pc, func, sched, run, softq, main>>

(* Mutant of KickWorker: a worker that is running is trusted to see the    *)
(* new task.                                                               *)
KickIdleWorker ==
  /\ kick
  /\ IF func /\ ~run THEN TaskletSchedule ELSE UNCHANGED <<sched, softq>>
  /\ kick' = FALSE
  /\ UNCHANGED <<lock, head, next, todo, pc, func, run, main>>

KickWorker ==
  /\ kick
  /\ IF func THEN TaskletSchedule ELSE UNCHANGED <<sched, softq>>
  /\ kick' = FALSE
  /\ UNCHANGED <<lock, head, next, todo, pc, func, run, main>>

(* The end of the critical section.  After the drain hpt_queuecommand goes *)
(* on into the LDM; the others unlock.                                     *)
DrainDone(th) ==
  /\ th \in Queuer
  /\ pc[th] = "drain" /\ todo[th] = NoTask
  /\ pc' = [pc EXCEPT ![th] = "ldm"]
  /\ UNCHANGED <<lock, head, next, todo, kick, func, sched, run, softq, main>>

Leave(th) ==
  /\ \/ th \in Irq \cup Queuer /\ pc[th] = "ldm" /\ ~kick
     \/ th \in Resetter \cup {Worker} /\ pc[th] = "drain" /\ todo[th] = NoTask
  /\ lock' = NoThread
  /\ pc' = [pc EXCEPT ![th] = "idle"]
  /\ run' = (run /\ th # Worker)
  /\ UNCHANGED <<head, next, todo, kick, func, sched, softq, main>>

(* The kernel's tasklet_action: RUN is set, SCHED is cleared, and then     *)
(* worker.func is called, whatever it is.                                  *)
TaskletAction ==
  /\ softq /\ ~run
  /\ softq' = FALSE /\ sched' = FALSE /\ run' = TRUE
  /\ pc' = [pc EXCEPT ![Worker] = IF func THEN "called" ELSE "null_call"]
  /\ UNCHANGED <<lock, head, next, todo, kick, func, main>>

-----------------------------------------------------------------------------
(* The end of hpt_detect: tasklet_init, then the tasks queued before it.   *)
TaskletInit ==
  /\ main = "init"
  /\ func' = TRUE
  /\ main' = "inited"
  /\ UNCHANGED <<lock, head, next, todo, pc, kick, sched, run, softq>>

(* Mutant of CheckTasks: tasks queued before tasklet_init are forgotten.   *)
ForgetTasks ==
  /\ main = "inited"
  /\ main' = "ready"
  /\ UNCHANGED <<lock, head, next, todo, pc, kick, func, sched, run, softq>>

CheckTasks ==
  /\ main = "inited"
  /\ IF head # NoTask THEN TaskletSchedule ELSE UNCHANGED <<sched, softq>>
  /\ main' = "ready"
  /\ UNCHANGED <<lock, head, next, todo, pc, kick, func, run>>

(* The same two statements when the store to worker.func is still in the   *)
(* store buffer at the time of the load, as x86 allows: with an empty list *)
(* nothing is scheduled, and the store becomes visible later.              *)
CheckTasksEarly ==
  /\ main = "init"
  /\ head = NoTask
  /\ main' = "store_pending"
  /\ UNCHANGED <<lock, head, next, todo, pc, kick, func, sched, run, softq>>

StoreVisible ==
  /\ main = "store_pending"
  /\ func' = TRUE
  /\ main' = "ready_late"
  /\ UNCHANGED <<lock, head, next, todo, pc, kick, sched, run, softq>>

(* tasklet_kill: take SCHED from its owner, then wait for RUN to go.       *)
KillTakeSched ==
  /\ main \in {"ready", "ready_late"}
  /\ ~sched
  /\ sched' = TRUE
  /\ main' = "killing"
  /\ UNCHANGED <<lock, head, next, todo, pc, kick, func, run, softq>>

KillWaitRun ==
  /\ main = "killing"
  /\ ~run
  /\ sched' = FALSE
  /\ main' = "killed"
  /\ UNCHANGED <<lock, head, next, todo, pc, kick, func, run, softq>>

(* vbus_ext->worker.func = 0                                               *)
DisableWorker ==
  /\ main = "killed"
  /\ func' = FALSE
  /\ main' = "disabled"
  /\ UNCHANGED <<lock, head, next, todo, pc, kick, sched, run, softq>>

-----------------------------------------------------------------------------
ThreadStep(th) ==
  \/ Enter(th) \/ QueueCommand(th) \/ IoctlDoTasks(th)
  \/ RunTask(th) \/ TaskReturn(th) \/ DrainDone(th) \/ Leave(th)
  \/ \E t \in Task : ScheduleTask(th, t)

MainStep ==
  \/ TaskletInit \/ CheckTasks \/ CheckTasksEarly \/ StoreVisible
  \/ KillTakeSched \/ KillWaitRun \/ DisableWorker

Next ==
  \/ \E th \in Thread : ThreadStep(th)
  \/ DoTasks \/ KickWorker \/ TaskletAction
  \/ MainStep

Spec == Init /\ [][Next]_vars

(* Fairness.  A critical section ends (spinlock holders do not sleep and   *)
(* LDM calls return), softirqs are run, hpt_detect goes on; the worker     *)
(* gets the lock because the kernel's spinlock is a ticket lock.  Nothing  *)
(* makes interrupts, commands or ioctls happen.                            *)
Fairness ==
  /\ \A th \in Thread : /\ WF_vars(RunTask(th)) /\ WF_vars(TaskReturn(th))
                        /\ WF_vars(DrainDone(th)) /\ WF_vars(Leave(th))
                        /\ WF_vars(IoctlDoTasks(th))
  /\ WF_vars(KickWorker) /\ WF_vars(TaskletAction) /\ SF_vars(DoTasks)
  /\ WF_vars(TaskletInit) /\ WF_vars(CheckTasks) /\ WF_vars(StoreVisible)

FairSpec == Spec /\ Fairness

-----------------------------------------------------------------------------
(* Types.                                                                  *)
TypeOK ==
  /\ lock \in Thread \cup {NoThread}
  /\ head \in MaybeTask
  /\ next \in [Task -> MaybeTask]
  /\ todo \in [Drainer -> MaybeTask]
  /\ pc \in [Thread -> {"idle", "ldm", "called", "drain", "task", "null_call"}]
  /\ \A th \in Irq : pc[th] \in {"idle", "ldm"}
  /\ \A th \in Queuer \cup Resetter : pc[th] \in {"idle", "ldm", "drain", "task"}
  /\ pc[Worker] \in {"idle", "called", "drain", "task", "null_call"}
  /\ kick \in BOOLEAN /\ func \in BOOLEAN /\ sched \in BOOLEAN
  /\ run \in BOOLEAN /\ softq \in BOOLEAN
  /\ main \in {"init", "inited", "store_pending", "ready", "ready_late", "killing",
               "killed", "disabled"}

(* A queued task has a drain coming: its scheduler is about to look at     *)
(* worker.func, or the tasklet is on a softirq list, or it was called and  *)
(* has not detached the list yet.                                          *)
DrainComing == kick \/ softq \/ pc[Worker] = "called"

(* While the worker is in service a queued task always has a drain coming, *)
(* if hpt_detect's store and load were seen in their order.  This is what  *)
(* lets a vbus with no SCSI traffic make progress, although                *)
(* os_schedule_task and hpt_detect decide independently who schedules.     *)
NoStrandedTask == head # NoTask /\ main = "ready" => DrainComing

(* The same whatever order the stores are seen in: what the driver takes   *)
(* for granted when it says that it needs no spinlocks of its own.         *)
NoTaskStrandedAtInit ==
  head # NoTask /\ main \in {"ready", "ready_late"} => DrainComing

(* The intrusive list stays a list: no task is linked twice, in one list   *)
(* or in the list and a batch being drained, and a task in no list has a   *)
(* null next pointer, which is what os_schedule_task asserts of the task   *)
(* it is given and what its append loop relies on to terminate.            *)
ListsWellFormed ==
  LET chains == <<Chain(head)>> \o
                (IF lock \in Drainer THEN <<Chain(todo[lock])>> ELSE <<>>)
  IN  /\ \A i, j \in DOMAIN chains : \A m \in DOMAIN chains[i], n \in DOMAIN chains[j] :
           chains[i][m] = chains[j][n] => i = j /\ m = n
      /\ \A d \in Drainer : d # lock => todo[d] = NoTask
      /\ \A t \in Task \ Linked : next[t] = NoTask

(* The batch being drained followed by the list is one FIFO queue: tasks   *)
(* run exactly once, in the order they were scheduled, whichever context   *)
(* drains them and whatever the tasks themselves schedule meanwhile.       *)
Queue == Chain(IF lock \in Drainer THEN todo[lock] ELSE NoTask) \o Chain(head)

Abstract == INSTANCE Fifo WITH queue <- Queue

ImplementsFifo == Abstract!Spec

(* A scheduled task is run, with no help from SCSI commands or ioctls,     *)
(* unless the worker is stopped first or was started unseen.               *)
InOrder == main \in {"init", "inited", "ready"}

EveryTaskRuns ==
  \A t \in Task : t \in Linked /\ InOrder ~> t \notin Linked \/ ~InOrder

(* "disable the worker tasklet" (hpt_cleanup, hpt_halt): after func = 0    *)
(* the tasklet does not run any more.                                      *)
DisabledWorkerNotCalled == pc[Worker] # "null_call"
=============================================================================
