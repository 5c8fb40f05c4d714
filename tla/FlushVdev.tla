----------------------------- MODULE FlushVdev -----------------------------
(***************************************************************************)
(* The flush of all devices when a vbus is released or the machine stops:  *)
(* the loop of hpt_cleanup and hpt_halt ("retry once"), hpt_flush_vdev,    *)
(* which sends one flush command and waits for it, and hpt_flush_done,     *)
(* which sends the command of an array under transformation on from the    *)
(* source to the target.                                                   *)
(*                                                                         *)
(* The wait is the one of SyncRequest (semaphore and timer on the stack,   *)
(* reset after 20 s), here with fewer steps: down_trylock and add_timer    *)
(* are one, and so are down and del_timer.                                 *)
(***************************************************************************)
EXTENDS Naturals

CONSTANTS
  N,             \* devices ldm_find_target finds
  Transforming,  \* those of them that are arrays with a transform
  MaxLate        \* bound: timer callbacks started and not yet at up()

ASSUME FlushVdevAssumption ==
  /\ N \in Nat \ {0}
  /\ Transforming \in SUBSET (1 .. N)
  /\ MaxLate \in Nat

VARIABLES
  i,         \* the device the loop has come to; N + 1: the loop has ended
  tries,     \* calls of hpt_flush_vdev made for each device
  at,        \* "call", or inside hpt_flush_vdev "trylock", "down", "check"
  vd,        \* pCmd->target: "source" or "target" (a plain device: "target")
  Result,    \* pCmd->Result
  ldm,       \* the command is "no"(t there), "working" or "stuck" in the LDM
  sem, timer, late,   \* as in SyncRequest
  flushed    \* history: the <<device, vd>> that were flushed successfully

flushVars == <<i, tries, at, vd, Result, ldm, sem, timer, late, flushed>>

FlushInit ==
  /\ i = 1 /\ tries = [d \in 1 .. N |-> 0]
  /\ at = "call" /\ vd = "target" /\ Result = "failed"
  /\ ldm = "no" /\ sem = 0 /\ timer = FALSE /\ late = 0
  /\ flushed = {}

-----------------------------------------------------------------------------
(* The loop after hpt_flush_vdev has returned r for the n-th time.         *)
AfterFlush(r, n) ==
  /\ at' = "call"
  /\ i' = IF r = "failed" /\ n = 1 THEN i ELSE i + 1

(* hpt_flush_vdev finds no free COMMANDs.                                  *)
Refused ==
  /\ at = "call" /\ i <= N
  /\ tries' = [tries EXCEPT ![i] = tries[i] + 1]
  /\ AfterFlush("failed", tries[i] + 1)
  /\ UNCHANGED <<vd, Result, ldm, sem, timer, late, flushed>>

(* It sends the command; an array under transformation begins with its     *)
(* source.                                                                 *)
Submit ==
  /\ at = "call" /\ i <= N
  /\ tries' = [tries EXCEPT ![i] = tries[i] + 1]
  /\ vd' = IF i \in Transforming THEN "source" ELSE "target"
  /\ Result' = "pending"
  /\ ldm' \in {"working", "stuck"}
  /\ sem' = 0
  /\ at' = "trylock"
  /\ UNCHANGED <<i, timer, late, flushed>>

(* hpt_flush_done for a command that ended with r; base is the semaphore   *)
(* before.                                                                 *)
FlushDone(r, base) ==
  /\ flushed' = IF r = "ok" THEN flushed \cup {<<i, vd>>} ELSE flushed
  /\ IF vd = "source"
     THEN /\ vd' = "target" /\ Result' = "pending" /\ sem' = base
          /\ ldm' \in {"working", "stuck"}
     ELSE /\ Result' = r /\ sem' = base + 1 /\ ldm' = "no"
          /\ UNCHANGED vd

Complete ==
  /\ ldm = "working"
  /\ \E r \in {"ok", "failed"} : FlushDone(r, sem)
  /\ UNCHANGED <<i, tries, at, timer, late>>

(* Mutant of Trylock: the timer is not armed.                              *)
TrylockNoTimer ==
  /\ at = "trylock"
  /\ IF sem > 0 THEN sem' = sem - 1 /\ at' = "check"
                ELSE UNCHANGED sem /\ at' = "down"
  /\ UNCHANGED <<i, tries, vd, Result, ldm, timer, late, flushed>>

Trylock ==
  /\ at = "trylock"
  /\ IF sem > 0 THEN sem' = sem - 1 /\ at' = "check" /\ UNCHANGED timer
                ELSE UNCHANGED sem /\ at' = "down" /\ timer' = TRUE
  /\ UNCHANGED <<i, tries, vd, Result, ldm, late, flushed>>

(* down_interruptible, after a signal down; then del_timer.                *)
Down ==
  /\ at = "down" /\ sem > 0
  /\ sem' = sem - 1
  /\ timer' = FALSE
  /\ at' = "check"
  /\ UNCHANGED <<i, tries, vd, Result, ldm, late, flushed>>

TimerExpires ==
  /\ timer /\ late < MaxLate
  /\ timer' = FALSE
  /\ late' = late + 1
  /\ UNCHANGED <<i, tries, at, vd, Result, ldm, sem, flushed>>

(* cmd_timeout_sem, perhaps only when the next call has its semaphore in   *)
(* the same place.                                                         *)
TimeoutSem ==
  /\ late > 0
  /\ late' = late - 1
  /\ sem' = IF at = "call" THEN sem ELSE sem + 1
  /\ UNCHANGED <<i, tries, at, vd, Result, ldm, timer, flushed>>

(* Still pending: sema_init and reset; the reset may leave the command     *)
(* stuck, set it going or end it.                                          *)
Reset ==
  /\ at = "check" /\ Result = "pending"
  /\ \/ /\ ldm' \in {"working", ldm}
        /\ sem' = 0
        /\ UNCHANGED <<vd, Result, flushed>>
     \/ \E r \in {"ok", "failed"} : FlushDone(r, 0)
  /\ at' = "trylock"
  /\ UNCHANGED <<i, tries, timer, late>>

(* Mutants of Return: the command is freed whatever its Result; the result *)
(* of the flush is not looked at.                                          *)
ReturnAnyway ==
  /\ at = "check"
  /\ AfterFlush(Result, tries[i])
  /\ UNCHANGED <<tries, vd, Result, ldm, sem, timer, late, flushed>>

ReturnNoRetry ==
  /\ at = "check" /\ Result # "pending"
  /\ AfterFlush("ok", tries[i])
  /\ UNCHANGED <<tries, vd, Result, ldm, sem, timer, late, flushed>>

(* ldm_free_cmds and return.                                               *)
Return ==
  /\ at = "check" /\ Result # "pending"
  /\ AfterFlush(Result, tries[i])
  /\ UNCHANGED <<tries, vd, Result, ldm, sem, timer, late, flushed>>

(* The loop has ended and nothing is left to happen.                       *)
Finished == i = N + 1 /\ late = 0 /\ UNCHANGED flushVars

-----------------------------------------------------------------------------
Flusher == Refused \/ Submit \/ Trylock \/ Down \/ Reset \/ Return

FlushNext == Flusher \/ Complete \/ TimerExpires \/ TimeoutSem \/ Finished

FlushSpec == FlushInit /\ [][FlushNext]_flushVars

(* The process and the timers run, the LDM completes what it works on, and *)
(* of infinitely many resets one gets the command going.                   *)
FlushFairness ==
  /\ WF_flushVars(Flusher) /\ WF_flushVars(Complete)
  /\ WF_flushVars(TimerExpires) /\ WF_flushVars(TimeoutSem)
  /\ SF_flushVars(Reset /\ ldm' # "stuck")

FairFlushSpec == FlushSpec /\ FlushFairness

-----------------------------------------------------------------------------
(* Types.                                                                  *)
FlushTypeOK ==
  /\ i \in 1 .. N + 1
  /\ tries \in [1 .. N -> 0 .. 2]
  /\ at \in {"call", "trylock", "down", "check"}
  /\ vd \in {"source", "target"}
  /\ Result \in {"pending", "ok", "failed"}
  /\ ldm \in {"no", "working", "stuck"}
  /\ sem \in Nat /\ timer \in BOOLEAN /\ late \in 0 .. MaxLate
  /\ flushed \in SUBSET ((1 .. N) \X {"source", "target"})

(* The COMMAND is the LDM's exactly as long as Result is RETURN_PENDING,   *)
(* also while it goes from the source to the target, and hpt_flush_vdev    *)
(* does not free it or return before that is over.                         *)
FreedOnlyWhenDone ==
  /\ ldm # "no" <=> Result = "pending"
  /\ at = "call" => ldm = "no"

(* A finished flush never finds the process asleep with nothing to wake it.*)
NoLostWakeup == at \in {"trylock", "down"} /\ Result # "pending" => sem > 0

(* A device the loop has left was flushed or was tried twice.  For an      *)
(* array under transformation this is said of the target only: what became *)
(* of the source is forgotten when the command is sent on.                 *)
FlushedOrRetried ==
  \A d \in 1 .. i - 1 : <<d, "target">> \in flushed \/ tries[d] = 2

(* The loop comes to its end.                                              *)
AllTried == <>(i = N + 1)
=============================================================================
