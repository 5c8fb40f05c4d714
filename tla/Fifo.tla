-------------------------------- MODULE Fifo --------------------------------
(***************************************************************************)
(* What the deferred-task interface of a vbus promises its caller, the     *)
(* LDM: a task handed over with os_schedule_task is run exactly once, and  *)
(* tasks are run in the order in which they were handed over.              *)
(* TaskQueue implements it with an intrusive list and several drainers.    *)
(***************************************************************************)
EXTENDS Sequences

CONSTANT Task

VARIABLE queue      \* the tasks accepted and not yet run, oldest first

Init == queue = <<>>

(* A task is accepted; a task waits in the queue at most once.             *)
Submit(t) == /\ \A i \in DOMAIN queue : queue[i] # t
             /\ queue' = Append(queue, t)

(* The oldest task is taken out to be run.                                 *)
Run == /\ queue # <<>>
       /\ queue' = Tail(queue)

Next == Run \/ \E t \in Task : Submit(t)

Spec == Init /\ [][Next]_queue
=============================================================================
