---------------------------- MODULE ScsiCommand ----------------------------
(***************************************************************************)
(* The life of a SCSI command in the driver: hpt_queuecommand, which       *)
(* answers it at once, refuses it (SCSI_MLQUEUE_HOST_BUSY) or gives it to  *)
(* the LDM; os_buildsgl, which maps its buffer for DMA when the LDM first  *)
(* asks for physical addresses; os_cmddone and hpt_scsi_start_stop_done,   *)
(* which unmap it, free its COMMANDs and call scsi_done; and hpt_reset,    *)
(* the error handler that takes timed-out commands back.                   *)
(*                                                                         *)
(* All of it runs under host_lock, so each handler is one action.  The     *)
(* completions that happen inside hpt_queuecommand (its drain of the       *)
(* deferred tasks, an ldm_queue_cmd that finishes at once) are Complete    *)
(* steps just before and after it.  The mid layer is external: its states  *)
(* of a command are "idle", "queued" (to be given to the driver),          *)
(* "requeued" (the driver was busy), "active" and "timed_out".             *)
(***************************************************************************)
EXTENDS Naturals, FiniteSets

CONSTANTS
  Cmd,          \* Scsi_Cmnd objects; one is used again and again
  Pool,         \* COMMANDs in the vbus's list (CmdPool)
  MaxNeed,      \* the largest cmds_per_request
  MaxRetries    \* bound: how often the mid layer retries after a reset

ASSUME ScsiCommandAssumption ==
  /\ IsFiniteSet(Cmd)
  /\ MaxNeed \in Nat \ {0}
  /\ Pool \in Nat /\ Pool >= MaxNeed
  /\ MaxRetries \in Nat

(* The ways hpt_queuecommand handles a command:                            *)
(*   "answer"  done in the call (INQUIRY, capacities, mode sense, ...)     *)
(*   "start"   START_STOP with the start bit: resets the device            *)
(*   "data"    read, write, verify and ATA pass-through                    *)
(*   "reject"  ATA pass-through whose registers are refused                *)
(*   "flush"   SYNCHRONIZE_CACHE, START_STOP without the start bit         *)
Kinds == {"answer", "start", "data", "reject", "flush"}

VARIABLES
  mid,       \* the mid layer's state of the command
  kind,      \* its CDB
  need,      \* cmds_per_request of its device, or of the transform's
  retries,   \* retries the mid layer has made
  ldm,       \* "none", "held", or "dma": the adapter transfers its data
  cmds,      \* COMMANDs it has reserved
  avail,     \* count of the vbus's freelist
  mapped,    \* HPT_SCP(SCpnt)->mapped
  dma,       \* its buffer is mapped for DMA
  eh         \* the error handler is in hpt_reset

vars == <<mid, kind, need, retries, ldm, cmds, avail, mapped, dma, eh>>

Init ==
  /\ mid = [c \in Cmd |-> "idle"]
  /\ kind = [c \in Cmd |-> "answer"]
  /\ need = [c \in Cmd |-> 1]
  /\ retries = [c \in Cmd |-> 0]
  /\ ldm = [c \in Cmd |-> "none"]
  /\ cmds = [c \in Cmd |-> 0]
  /\ avail = Pool
  /\ mapped \in [Cmd -> BOOLEAN]      \* whatever the memory held
  /\ dma = [c \in Cmd |-> FALSE]
  /\ eh = FALSE

Total(f, S) == LET sum[T \in SUBSET S] ==
                     IF T = {} THEN 0
                     ELSE LET c == CHOOSE x \in T : TRUE IN f[c] + sum[T \ {c}]
               IN  sum[S]

-----------------------------------------------------------------------------
(* The mid layer has a new command.                                        *)
Issue(c) ==
  /\ mid[c] = "idle"
  /\ mid' = [mid EXCEPT ![c] = "queued"]
  /\ \E k \in Kinds : kind' = [kind EXCEPT ![c] = k]
  /\ \E n \in 1 .. MaxNeed : need' = [need EXCEPT ![c] = n]
  /\ retries' = [retries EXCEPT ![c] = 0]
  /\ UNCHANGED <<ldm, cmds, avail, mapped, dma, eh>>

(* os_cmddone for every command in S.  The mapped flag is left as it is.   *)
(* scsi_done of a command that has timed out is ignored by the block layer.*)
CmdDone(S) ==
  /\ dma' = [c \in Cmd |-> dma[c] /\ ~(c \in S /\ mapped[c])]
  /\ avail' = avail + Total(cmds, S)
  /\ cmds' = [c \in Cmd |-> IF c \in S THEN 0 ELSE cmds[c]]
  /\ ldm' = [c \in Cmd |-> IF c \in S THEN "none" ELSE ldm[c]]

ScsiDone(S) ==
  [c \in Cmd |-> IF c \in S /\ mid[c] # "timed_out" THEN "idle" ELSE mid[c]]

InLdm == {c \in Cmd : ldm[c] # "none"}

(* The mid layer sends nothing from a timeout to the end of the recovery.  *)
Sent(c) == /\ mid[c] \in {"queued", "requeued"}
           /\ \A d \in Cmd : mid[d] # "timed_out"

(* Commands hpt_queuecommand completes itself.                             *)
Answer(c) ==
  /\ Sent(c) /\ kind[c] = "answer"
  /\ mid' = ScsiDone({c})
  /\ UNCHANGED <<kind, need, retries, ldm, cmds, avail, mapped, dma, eh>>

(* Start the device by resetting it: commands on it may be completed.      *)
Start(c) ==
  /\ Sent(c) /\ kind[c] = "start"
  /\ \E S \in SUBSET InLdm : CmdDone(S) /\ mid' = ScsiDone(S \cup {c})
  /\ UNCHANGED <<kind, need, retries, mapped, eh>>

NeedsCommands(c) == kind[c] \in {"data", "reject", "flush"}

(* ldm_alloc_cmds fails: SCSI_MLQUEUE_HOST_BUSY.                           *)
Busy(c) ==
  /\ Sent(c) /\ NeedsCommands(c)
  /\ avail < need[c]
  /\ mid' = [mid EXCEPT ![c] = "requeued"]
  /\ UNCHANGED <<kind, need, retries, ldm, cmds, avail, mapped, dma, eh>>

(* Mutant of Reject: the COMMANDs are not freed on the error path.         *)
RejectLeaks(c) ==
  /\ Sent(c) /\ kind[c] = "reject"
  /\ avail >= need[c]
  /\ avail' = avail - need[c]
  /\ cmds' = [cmds EXCEPT ![c] = need[c]]
  /\ mid' = ScsiDone({c})
  /\ UNCHANGED <<kind, need, retries, ldm, mapped, dma, eh>>

(* ATA pass-through that is refused after its COMMANDs were allocated:     *)
(* they are freed again.                                                   *)
Reject(c) ==
  /\ Sent(c) /\ kind[c] = "reject"
  /\ avail >= need[c]
  /\ mid' = ScsiDone({c})
  /\ UNCHANGED <<kind, need, retries, ldm, cmds, avail, mapped, dma, eh>>

(* Mutant of Queue: mapped is not cleared.                                 *)
QueueKeepsMapped(c) ==
  /\ Sent(c) /\ kind[c] \in {"data", "flush"}
  /\ avail >= need[c]
  /\ avail' = avail - need[c]
  /\ cmds' = [cmds EXCEPT ![c] = need[c]]
  /\ ldm' = [ldm EXCEPT ![c] = "held"]
  /\ mid' = [mid EXCEPT ![c] = "active"]
  /\ UNCHANGED <<kind, need, retries, mapped, dma, eh>>

(* The command goes to the LDM.                                            *)
Queue(c) ==
  /\ Sent(c) /\ kind[c] \in {"data", "flush"}
  /\ avail >= need[c]
  /\ avail' = avail - need[c]
  /\ cmds' = [cmds EXCEPT ![c] = need[c]]
  /\ mapped' = [mapped EXCEPT ![c] = FALSE]
  /\ ldm' = [ldm EXCEPT ![c] = "held"]
  /\ mid' = [mid EXCEPT ![c] = "active"]
  /\ UNCHANGED <<kind, need, retries, dma, eh>>

(* os_buildsgl(cmd, sg, 0), at the first attempt on a member disk and at   *)
(* every later one; if it returns 1 the adapter transfers.  It returns 0   *)
(* for a buffer without segments, which it does not mark as mapped, and    *)
(* for an odd address or length, which it sees only after the mapping.     *)
BuildSgl(c) ==
  /\ ldm[c] # "none" /\ kind[c] = "data"
  /\ \/ /\ mapped' = [mapped EXCEPT ![c] = TRUE]
        /\ dma' = [dma EXCEPT ![c] = dma[c] \/ ~mapped[c]]
        /\ ldm' \in {ldm, [ldm EXCEPT ![c] = "dma"]}
     \/ ~mapped[c] /\ UNCHANGED <<ldm, mapped, dma>>
  /\ UNCHANGED <<mid, kind, need, retries, cmds, avail, eh>>

(* The transfer ends and the LDM may try again on another member.          *)
TransferEnds(c) ==
  /\ ldm[c] = "dma"
  /\ ldm' = [ldm EXCEPT ![c] = "held"]
  /\ UNCHANGED <<mid, kind, need, retries, cmds, avail, mapped, dma, eh>>

(* os_cmddone, or for a stopped device hpt_scsi_start_stop_done.           *)
Complete(c) ==
  /\ ldm[c] = "held"
  /\ CmdDone({c})
  /\ mid' = ScsiDone({c})
  /\ UNCHANGED <<kind, need, retries, mapped, eh>>

-----------------------------------------------------------------------------
(* The mid layer: a command times out; when every command it has given to  *)
(* the driver is back or has timed out, the error handler calls hpt_reset. *)
TimeOut(c) ==
  /\ mid[c] = "active"
  /\ mid' = [mid EXCEPT ![c] = "timed_out"]
  /\ UNCHANGED <<kind, need, retries, ldm, cmds, avail, mapped, dma, eh>>

StartRecovery ==
  /\ ~eh
  /\ \E c \in Cmd : mid[c] = "timed_out"
  /\ \A c \in Cmd : mid[c] # "active"
  /\ eh' = TRUE
  /\ UNCHANGED <<mid, kind, need, retries, ldm, cmds, avail, mapped, dma>>

(* hpt_reset calls ldm_reset_vbus, which completes commands, until it      *)
(* says that nothing is left to reset; in between it sleeps unlocked.      *)
ResetVbus ==
  /\ eh
  /\ \E S \in SUBSET InLdm : S # InLdm /\ CmdDone(S) /\ mid' = ScsiDone(S)
  /\ UNCHANGED <<kind, need, retries, mapped, eh>>

(* The mid layer retries what had timed out, or gives it up.               *)
TakeBack ==
  /\ mid' \in [Cmd -> {"idle", "queued", "requeued"}]
  /\ \A c \in Cmd :
       IF mid[c] = "timed_out"
       THEN mid'[c] = "idle" \/ (mid'[c] = "queued" /\ retries[c] < MaxRetries)
       ELSE mid'[c] = mid[c]
  /\ retries' = [c \in Cmd |-> IF mid[c] = "timed_out" /\ mid'[c] = "queued"
                               THEN retries[c] + 1 ELSE retries[c]]
  /\ eh' = FALSE

(* Mutant of ResetSucceeds: the reset is called once, not in a loop.       *)
ResetOnce ==
  /\ eh
  /\ \E S \in SUBSET InLdm : CmdDone(S)
  /\ TakeBack
  /\ UNCHANGED <<kind, need, mapped>>

ResetSucceeds ==
  /\ eh
  /\ CmdDone(InLdm)
  /\ TakeBack
  /\ UNCHANGED <<kind, need, mapped>>

-----------------------------------------------------------------------------
QueueCommand(c) == Answer(c) \/ Start(c) \/ Busy(c) \/ Reject(c) \/ Queue(c)

Next ==
  \/ \E c \in Cmd : \/ Issue(c) \/ QueueCommand(c) \/ BuildSgl(c)
                    \/ TransferEnds(c) \/ Complete(c) \/ TimeOut(c)
  \/ StartRecovery \/ ResetVbus \/ ResetSucceeds

Spec == Init /\ [][Next]_vars

(* Fairness: the mid layer sends what it has and its timers run, also for  *)
(* a command that was refused; a reset succeeds in the end.  Nothing is    *)
(* asked of the LDM outside of a reset.                                    *)
Fairness ==
  /\ \A c \in Cmd : /\ SF_vars(Answer(c) \/ Start(c) \/ Reject(c) \/ Queue(c))
                    /\ WF_vars(TimeOut(c))
  /\ WF_vars(StartRecovery) /\ WF_vars(ResetSucceeds)

FairSpec == Spec /\ Fairness

-----------------------------------------------------------------------------
(* Types.                                                                  *)
TypeOK ==
  /\ mid \in [Cmd -> {"idle", "queued", "requeued", "active", "timed_out"}]
  /\ kind \in [Cmd -> Kinds]
  /\ need \in [Cmd -> 1 .. MaxNeed]
  /\ retries \in [Cmd -> 0 .. MaxRetries]
  /\ ldm \in [Cmd -> {"none", "held", "dma"}]
  /\ cmds \in [Cmd -> 0 .. MaxNeed]
  /\ avail \in 0 .. Pool
  /\ mapped \in [Cmd -> BOOLEAN]
  /\ dma \in [Cmd -> BOOLEAN]
  /\ eh \in BOOLEAN

(* A command the driver took is with the LDM until scsi_done: it is not    *)
(* forgotten on any of the paths through hpt_queuecommand, and not         *)
(* completed for the mid layer while the LDM still has it.  After a reset  *)
(* the LDM does not have a command that is being retried, so it cannot be  *)
(* completed on behalf of its earlier life.                                *)
Accounted ==
  \A c \in Cmd : /\ mid[c] = "active" => ldm[c] # "none"
                 /\ ldm[c] # "none" => mid[c] \in {"active", "timed_out"}

(* Every way out gives back what the command had: a command that is not    *)
(* with the LDM, be it answered, refused, rejected, completed or reset,    *)
(* has no COMMANDs and no DMA mapping, and no COMMAND is ever lost.        *)
NothingLeaks ==
  /\ \A c \in Cmd : ldm[c] = "none" => cmds[c] = 0 /\ ~dma[c]
  /\ avail + Total(cmds, Cmd) = Pool

(* The adapter transfers only into a buffer that is mapped, although the   *)
(* flag that says so survives in the Scsi_Cmnd from its earlier lives; and *)
(* the flag and the mapping agree as long as os_cmddone may look at it.    *)
DmaOnlyMapped ==
  \A c \in Cmd : /\ ldm[c] = "dma" => dma[c]
                 /\ ldm[c] # "none" => mapped[c] = dma[c]

(* Every command the mid layer has is finished, also those that are        *)
(* refused while others hold the COMMANDs ("Rely on the SCSI mid layer to  *)
(* requeue the request") and those the LDM never completes.                *)
EveryCommandFinishes == \A c \in Cmd : mid[c] = "queued" ~> mid[c] = "idle"
=============================================================================
