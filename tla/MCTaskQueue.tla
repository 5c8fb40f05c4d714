---------------------------- MODULE MCTaskQueue ----------------------------
(* The instance of TaskQueue that TLC checks: one context of each kind     *)
(* (the lock makes further ones of a kind indistinguishable) and three     *)
(* tasks, so that a batch of two can be interrupted by a third task.       *)
EXTENDS TaskQueue

MCTask == {"t1", "t2", "t3"}
MCIrq == {"intr"}
MCQueuer == {"queuecommand"}
MCResetter == {"ioctl"}
MCWorker == "tasklet"
MCNoTask == "no_task"
MCNoThread == "no_thread"
=============================================================================
