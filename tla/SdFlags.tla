------------------------------ MODULE SdFlags ------------------------------
(***************************************************************************)
(* The disks of a vbus as the block layer sees them: refresh_sd_flags,     *)
(* which an ioctl calls without the lock to find out which disks are open  *)
(* and to give expanded disks their new size; os_revalidate_device, which  *)
(* the LDM calls with the lock when an array was expanded;                 *)
(* and os_query_remove_device, on which the LDM decides a removal.         *)
(*                                                                         *)
(* sd_flags[id] is changed by "|=" and "&=", by refresh_sd_flags without   *)
(* the lock: another processor may change it between the load and the      *)
(* store.  Nothing keeps two refreshes from running at the same time.      *)
(***************************************************************************)
EXTENDS Naturals, FiniteSets

CONSTANTS
  Targets,     \* osm_max_targets: the ids are 1 .. Targets
  Managers     \* processes in __hpt_do_ioctl

ASSUME SdFlagsAssumption == Targets \in Nat \ {0}

Ids == 1 .. Targets

VARIABLES
  needs_refresh,
  sd_flags,      \* for each id the set of "IN_USE" and "REVALIDATE" that are set
  present,       \* the SCSI layer has a disk with this id
  stale,         \* its i_size is not the LDM's capacity of the array
  open,          \* somebody (a file system) has it open
  mgr,           \* the managers, see Init
  ldm,           \* the LDM inside os_revalidate_device, which holds the lock
  held, ever,    \* history: the disk was there and open all, some of the call
  overlapped,    \* history: another call ran during some of the call
  misled,        \* history: the call could not open the disk, or its store was
                 \*   overwritten, see OpenFails and Revalidate
  lost           \* history: the new size of a disk was lost, see Store,
                 \*   OpenFails, Resize and Revalidate

disks == <<present, stale, open>>
history == <<held, ever, overlapped, misled, lost>>
vars == <<needs_refresh, sd_flags, disks, mgr, ldm, history>>

Init ==
  /\ needs_refresh = FALSE /\ sd_flags = [d \in Ids |-> {}]
  /\ present = [d \in Ids |-> TRUE]
  /\ stale = [d \in Ids |-> FALSE]
  /\ open \in [Ids -> BOOLEAN]
  /\ mgr = [m \in Managers |->
              [pc |-> "idle", target |-> 1, id |-> 1, at |-> 1, seen |-> {}, result |-> "none"]]
  /\ ldm = [pc |-> "idle", id |-> 1, seen |-> {}]
  /\ held = [m \in Managers |-> FALSE] /\ ever = held
  /\ overlapped = held /\ misled = held
  /\ lost = [d \in Ids |-> FALSE]

-----------------------------------------------------------------------------
Goto(m, pc) == mgr' = [mgr EXCEPT ![m].pc = pc]

(* The store of a read-modify-write of a refresh.  lost: it overwrites a   *)
(* REVALIDATE that was set since the load.                                 *)
Store(id, flags) ==
  /\ sd_flags' = [sd_flags EXCEPT ![id] = flags]
  /\ lost' = [lost EXCEPT ![id] = @ \/ "REVALIDATE" \in sd_flags[id] \ flags]

(* __hpt_do_ioctl with a code that asks for a refresh, about target; or    *)
(* with any other code if needs_refresh is set.                            *)
Call(m, target, remove) ==
  /\ mgr[m].pc = "idle" /\ mgr[m].result = "none"
  /\ remove \/ needs_refresh
  /\ mgr' = [mgr EXCEPT ![m] =
               [@ EXCEPT !.pc = "start", !.target = IF remove THEN target ELSE 0]]
  /\ held' = [held EXCEPT ![m] = remove /\ open[target] /\ present[target]]
  /\ ever' = [ever EXCEPT ![m] = remove /\ open[target]]
  /\ LET others == {n \in Managers : mgr[n].pc # "idle"}
     IN  overlapped' = [n \in Managers |-> IF n = m THEN others # {}
                                           ELSE overlapped[n] \/ n \in others]
  /\ misled' = [misled EXCEPT ![m] = FALSE]
  /\ UNCHANGED <<needs_refresh, sd_flags, disks, ldm, lost>>

RefreshStart(m) ==
  /\ mgr[m].pc = "start"
  /\ needs_refresh' = FALSE
  /\ mgr' = [mgr EXCEPT ![m] = [@ EXCEPT !.pc = "lookup", !.id = 1]]
  /\ UNCHANGED <<sd_flags, disks, ldm, history>>

(* scsi_device_lookup, and IN_USE is about to be cleared.                  *)
Lookup(m) ==
  /\ mgr[m].pc = "lookup"
  /\ mgr' = [mgr EXCEPT ![m] =
               [@ EXCEPT !.pc = "clear", !.seen = sd_flags[mgr[m].id],
                         !.at = IF present[mgr[m].id] THEN 0 ELSE Targets + 1]]
  /\ UNCHANGED <<needs_refresh, sd_flags, disks, ldm, history>>

ClearInUse(m) ==
  LET id == mgr[m].id
  IN  /\ mgr[m].pc = "clear"
      /\ Store(id, mgr[m].seen \ {"IN_USE"})
      /\ Goto(m, "scan")
      /\ UNCHANGED <<needs_refresh, disks, ldm, held, ever, overlapped, misled>>

(* Mutant of NextId: needs_refresh is cleared when the refresh is done.    *)
NextIdClears(m) ==
  /\ mgr' = [mgr EXCEPT ![m] =
               [@ EXCEPT !.pc = IF mgr[m].id = Targets THEN "ioctl" ELSE "lookup",
                         !.id = IF mgr[m].id = Targets THEN 1 ELSE mgr[m].id + 1]]
  /\ needs_refresh' = IF mgr[m].id = Targets THEN FALSE ELSE needs_refresh

(* The next id, or the end of refresh_sd_flags.                            *)
NextId(m) ==
  /\ mgr' = [mgr EXCEPT ![m] =
               [@ EXCEPT !.pc = IF mgr[m].id = Targets THEN "ioctl" ELSE "lookup",
                         !.id = IF mgr[m].id = Targets THEN 1 ELSE mgr[m].id + 1]]
  /\ UNCHANGED needs_refresh

(* One block device after the other is opened until it is the one of id;   *)
(* bd_openers counts this open.  "peek" is the open of another disk.  The  *)
(* first, 0, stands for the disks of other hosts.                          *)
Scan(m) ==
  LET at == mgr[m].at
  IN  /\ mgr[m].pc = "scan"
      /\ IF at > Targets THEN NextId(m)
         ELSE /\ at # 0 => present[at]
              /\ Goto(m, IF at = mgr[m].id THEN "opened" ELSE "peek")
              /\ UNCHANGED needs_refresh
      /\ UNCHANGED <<sd_flags, disks, ldm, history>>

(* blkdev_get fails, as it does where there is no disk, and the next block *)
(* device is tried.  If it was the one of id, the flags of id stay as they *)
(* are: lost, if REVALIDATE is set; misled, if id is asked about.          *)
OpenFails(m) ==
  LET at == mgr[m].at
      id == mgr[m].id
      passed == at = id /\ present[id]
  IN  /\ mgr[m].pc = "scan" /\ at <= Targets
      /\ mgr' = [mgr EXCEPT ![m].at = at + 1]
      /\ lost' = [lost EXCEPT ![id] = @ \/ (passed /\ "REVALIDATE" \in sd_flags[id])]
      /\ misled' = [misled EXCEPT ![m] = @ \/ (passed /\ id = mgr[m].target)]
      /\ UNCHANGED <<needs_refresh, sd_flags, disks, ldm, held, ever, overlapped>>

PutOther(m) ==
  /\ mgr[m].pc = "peek"
  /\ mgr' = [mgr EXCEPT ![m] = [@ EXCEPT !.pc = "scan", !.at = mgr[m].at + 1]]
  /\ UNCHANGED <<needs_refresh, sd_flags, disks, ldm, history>>

Holding(d) ==
  {m \in Managers : mgr[m].at = d /\ mgr[m].pc \in {"peek", "opened", "resized", "count", "set"}}

bd_openers(d) == Cardinality(Holding(d)) + IF open[d] THEN 1 ELSE 0

(* revalidate_disk and i_size_write if REVALIDATE is set.  revalidate_disk *)
(* may be missing or fail, which is not noticed: the size then stays.      *)
Resize(m) ==
  LET id == mgr[m].id
  IN  /\ mgr[m].pc = "opened"
      /\ IF "REVALIDATE" \in sd_flags[id]
         THEN /\ \E fails \in BOOLEAN :
                   /\ stale' = [stale EXCEPT ![id] = @ /\ fails]
                   /\ lost' = [lost EXCEPT ![id] = stale[id] /\ fails]
              /\ mgr' = [mgr EXCEPT ![m] = [@ EXCEPT !.pc = "resized", !.seen = sd_flags[id]]]
         ELSE Goto(m, "count") /\ UNCHANGED <<stale, lost>>
      /\ UNCHANGED <<needs_refresh, sd_flags, present, open, ldm, held, ever, overlapped, misled>>

ClearRevalidate(m) ==
  LET id == mgr[m].id
  IN  /\ mgr[m].pc = "resized"
      /\ sd_flags' = [sd_flags EXCEPT ![id] = mgr[m].seen \ {"REVALIDATE"}]
      /\ Goto(m, "count")
      /\ UNCHANGED <<needs_refresh, disks, ldm, history>>

(* Mutant of OthersHaveItOpen: the refresh's own open is not counted out.  *)
AnybodyHasItOpen(d) == bd_openers(d) > 0

OthersHaveItOpen(d) == bd_openers(d) > 1

(* The test of bd_openers; then IN_USE is set and the disk is put.         *)
CountOpeners(m) ==
  /\ mgr[m].pc = "count"
  /\ IF OthersHaveItOpen(mgr[m].id)
     THEN /\ mgr' = [mgr EXCEPT ![m] =
                    [@ EXCEPT !.pc = "set", !.seen = sd_flags[mgr[m].id]]]
          /\ UNCHANGED needs_refresh
     ELSE NextId(m)
  /\ UNCHANGED <<sd_flags, disks, ldm, history>>

SetInUse(m) ==
  LET id == mgr[m].id
  IN  /\ mgr[m].pc = "set"
      /\ Store(id, mgr[m].seen \cup {"IN_USE"})
      /\ NextId(m)
      /\ UNCHANGED <<disks, ldm, held, ever, overlapped, misled>>

-----------------------------------------------------------------------------
Back(m, result) ==
  [mgr EXCEPT ![m] = [@ EXCEPT !.pc = "idle", !.at = 1, !.seen = {}, !.result = result]]

(* ldm_ioctl, with the lock: the answer to a query or a removal of target. *)
LdmIoctl(m) ==
  /\ mgr[m].pc = "ioctl" /\ ldm.pc = "idle"
  /\ mgr' = Back(m, IF mgr[m].target = 0 THEN "none"
                    ELSE IF "IN_USE" \in sd_flags[mgr[m].target] THEN "in_use" ELSE "ok")
  /\ UNCHANGED <<needs_refresh, sd_flags, disks, ldm, history>>

(* The manager takes note of the result.                                   *)
Noted(m) ==
  /\ mgr[m].result # "none"
  /\ mgr' = [mgr EXCEPT ![m].result = "none"]
  /\ UNCHANGED <<needs_refresh, sd_flags, disks, ldm, history>>

(* An expansion of an array is done; os_revalidate_device begins.          *)
Expand(id) ==
  /\ ldm.pc = "idle"
  /\ stale' = [stale EXCEPT ![id] = TRUE]
  /\ lost' = [lost EXCEPT ![id] = FALSE]
  /\ ldm' = [pc |-> "revalidate", id |-> id, seen |-> sd_flags[id]]
  /\ UNCHANGED <<needs_refresh, sd_flags, present, open, mgr, held, ever, overlapped, misled>>

(* REVALIDATE is set.  lost: when a refresh has given the disk its size    *)
(* and is about to clear REVALIDATE.  misled: when the store overwrites    *)
(* what a refresh has stored.                                              *)
Revalidate ==
  /\ ldm.pc = "revalidate"
  /\ sd_flags' = [sd_flags EXCEPT ![ldm.id] = ldm.seen \cup {"REVALIDATE"}]
  /\ lost' = [lost EXCEPT ![ldm.id] =
       @ \/ \E m \in Managers : mgr[m].pc = "resized" /\ mgr[m].id = ldm.id]
  /\ misled' = [m \in Managers |->
       misled[m] \/ (mgr[m].target = ldm.id /\ ldm.seen # sd_flags[ldm.id])]
  /\ ldm' = [ldm EXCEPT !.pc = "needs_refresh"]
  /\ UNCHANGED <<needs_refresh, disks, mgr, held, ever, overlapped>>

AskForRefresh ==
  /\ ldm.pc = "needs_refresh"
  /\ needs_refresh' = TRUE
  /\ ldm' = [pc |-> "idle", id |-> 1, seen |-> {}]
  /\ UNCHANGED <<sd_flags, disks, mgr, history>>

(* A disk comes or goes (hot plug).  One that comes is asked its capacity. *)
ComeOrGo(d) ==
  /\ present' = [present EXCEPT ![d] = ~present[d]]
  /\ stale' = [stale EXCEPT ![d] = stale[d] /\ present[d]]
  /\ held' = [m \in Managers |-> held[m] /\ mgr[m].target # d]
  /\ UNCHANGED <<needs_refresh, sd_flags, open, mgr, ldm, ever, overlapped, misled, lost>>

(* A file system is mounted on a disk, or unmounted.                       *)
OpenOrClose(d) ==
  /\ open[d] \/ present[d]
  /\ open' = [open EXCEPT ![d] = ~open[d]]
  /\ held' = [m \in Managers |-> held[m] /\ (mgr[m].target = d => ~open[d])]
  /\ ever' = [m \in Managers |-> ever[m] \/ mgr[m].target = d]
  /\ UNCHANGED <<needs_refresh, sd_flags, present, stale, mgr, ldm, overlapped, misled, lost>>

-----------------------------------------------------------------------------
Refresh(m) ==
  \/ RefreshStart(m) \/ Lookup(m) \/ ClearInUse(m) \/ Scan(m) \/ OpenFails(m)
  \/ PutOther(m) \/ Resize(m) \/ ClearRevalidate(m) \/ CountOpeners(m) \/ SetInUse(m)

Next ==
  \/ \E m \in Managers :
       \/ \E target \in Ids, remove \in BOOLEAN : Call(m, target, remove)
       \/ Refresh(m) \/ LdmIoctl(m) \/ Noted(m)
  \/ \E id \in Ids : Expand(id) \/ OpenOrClose(id) \/ ComeOrGo(id)
  \/ Revalidate \/ AskForRefresh

Spec == Init /\ [][Next]_vars

-----------------------------------------------------------------------------
AnswerIsTrue(m) ==
  /\ mgr[m].result = "ok" => ~held[m]
  /\ mgr[m].result = "in_use" => ever[m]

(* A query or removal is refused for a disk that somebody has had open     *)
(* during the whole call, and is not refused for one that nobody had open  *)
(* at any time of it, if the disk can be opened and no store of            *)
(* os_revalidate_device overwrites that of the call: hptintf.h has         *)
(* hpt_query_remove "check if device can be removed safely".  It does not  *)
(* hold: two calls mislead each other.                                     *)
QueryTellsTheTruth == \A m \in Managers : ~misled[m] => AnswerIsTrue(m)

(* It holds for a call that no other one overlaps, although other calls    *)
(* come before and after it, and disks are mounted, come, go and are       *)
(* expanded during it.                                                     *)
LoneQueryTellsTheTruth ==
  \A m \in Managers : ~overlapped[m] /\ ~misled[m] => AnswerIsTrue(m)

(* A refresh that has not yet come to the test of REVALIDATE for id.       *)
WillLookAt(id) ==
  \E m \in Managers :
    \/ mgr[m].pc = "start"
    \/ mgr[m].id < id /\ mgr[m].pc \notin {"idle", "ioctl"}
    \/ mgr[m].id = id /\ mgr[m].pc \in {"lookup", "opened"}
    \/ mgr[m].id = id /\ mgr[m].pc \in {"clear", "scan", "peek"} /\ mgr[m].at <= id

(* A disk that has not got its new size will get it, with any number of    *)
(* refreshes at the same time: REVALIDATE is set and a refresh is asked    *)
(* for or on its way.  Four things lose it (lost): a store that overwrites *)
(* the flag, an expansion reported between the resize and the clearing of  *)
(* REVALIDATE, a disk that cannot be opened, a revalidation that fails.    *)
RevalidationKept ==
  \A id \in Ids :
    stale[id] /\ present[id] /\ ~lost[id] =>
      \/ ldm.pc # "idle" /\ ldm.id = id
      \/ "REVALIDATE" \in sd_flags[id] /\ (needs_refresh \/ WillLookAt(id))
=============================================================================
