--------------------------- MODULE SdFlags_proofs ---------------------------
(***************************************************************************)
(* Proofs about SdFlags, for any number of disks and of managers.  That    *)
(* REVALIDATE is set and a refresh is to come is not inductive: a refresh  *)
(* under way must also be one that will find the disk among the block      *)
(* devices, and none may be about to clear the flag of a disk that waits   *)
(* for its size.                                                           *)
(***************************************************************************)
EXTENDS SdFlags, FiniteSetTheorems, TLAPS

Places == {"idle", "start", "lookup", "clear", "scan", "peek", "opened",
           "resized", "count", "set", "ioctl"}

(* What a manager is made of.                                              *)
Flags == {"IN_USE", "REVALIDATE"}

Manager ==
  [pc : Places, target : 0 .. Targets, id : Ids, at : Nat,
   seen : SUBSET Flags, result : {"none", "ok", "in_use"}]

(* Types of the variables the argument is about.                           *)
FlagsTyped ==
  /\ needs_refresh \in BOOLEAN
  /\ sd_flags \in [Ids -> SUBSET Flags]
  /\ present \in [Ids -> BOOLEAN] /\ stale \in [Ids -> BOOLEAN]
  /\ lost \in [Ids -> BOOLEAN]
  /\ mgr \in [Managers -> Manager]
  /\ ldm \in [pc : {"idle", "revalidate", "needs_refresh"}, id : Ids,
              seen : SUBSET Flags]

(* Manager m will find disk id, if it stays, and test REVALIDATE.          *)
WillFind(m, id) ==
  \/ mgr[m].pc = "start"
  \/ mgr[m].id < id /\ mgr[m].pc \notin {"idle", "ioctl"}
  \/ mgr[m].id = id /\ \/ mgr[m].pc \in {"lookup", "opened"}
                       \/ mgr[m].pc = "clear" /\ mgr[m].at <= id
                       \/ mgr[m].pc = "scan" /\ mgr[m].at <= id
                       \/ mgr[m].pc = "peek" /\ mgr[m].at < id

(* A refresh of the disk is asked for, about to be, or under way.          *)
Asked(id) ==
  \/ needs_refresh
  \/ ldm.pc = "needs_refresh" /\ ldm.id = id
  \/ \E m \in Managers : WillFind(m, id)

(* The disk waits for its new size.                                        *)
Waiting(id) == stale[id] /\ present[id] /\ ~lost[id]

(* Its expansion is being reported.                                        *)
Reported(id) == ldm.pc = "revalidate" /\ ldm.id = id

(* Its expansion is on record.                                             *)
Kept(id) == Reported(id) \/ ("REVALIDATE" \in sd_flags[id] /\ Asked(id))

(* The strengthened property, and what ClearRevalidate relies on: after a  *)
(* resize the disk waits only if it has been expanded again.               *)
NothingForgotten == \A id \in Ids : Waiting(id) => Kept(id)
NothingToClear ==
  \A m \in Managers, id \in Ids :
    mgr[m].pc = "resized" /\ mgr[m].id = id /\ Waiting(id) => Reported(id)

FlagsInv == FlagsTyped /\ NothingForgotten /\ NothingToClear

-----------------------------------------------------------------------------
(* The ids are the numbers from 1 to Targets.                              *)
LEMMA IdsAre ==
  /\ Targets \in Nat \ {0} /\ 1 \in Ids
  /\ \A id : id \in Ids <=> id \in Nat /\ 1 <= id /\ id <= Targets
BY SdFlagsAssumption DEF SdFlagsAssumption, Ids

(* One manager moves.                                                      *)
LEMMA OneMoves ==
  ASSUME mgr \in [Managers -> Manager], NEW m \in Managers, NEW r \in Manager,
         mgr' = [mgr EXCEPT ![m] = r]
  PROVE  /\ mgr' \in [Managers -> Manager] /\ mgr'[m] = r
         /\ \A n \in Managers : n # m => mgr'[n] = mgr[n]
OBVIOUS

(* What a step of one manager must keep.                                   *)
LEMMA ManagerKeeps ==
  ASSUME FlagsInv, NEW m \in Managers, NEW r \in Manager,
         mgr' = [mgr EXCEPT ![m] = r], ldm' = ldm,
         needs_refresh' \in BOOLEAN, sd_flags' \in [Ids -> SUBSET Flags],
         present' = present, stale' \in [Ids -> BOOLEAN], lost' \in [Ids -> BOOLEAN],
         \A id \in Ids : r.pc = "resized" /\ r.id = id /\ Waiting(id)' =>
                         mgr[m].pc = "resized" /\ mgr[m].id = id,
         \A id \in Ids : Waiting(id)' =>
           /\ Waiting(id)
           /\ ~Reported(id) /\ "REVALIDATE" \in sd_flags[id] =>
                /\ "REVALIDATE" \in sd_flags'[id]
                /\ needs_refresh \/ WillFind(m, id) => needs_refresh' \/ WillFind(m, id)'
  PROVE  FlagsInv'
<1>1. /\ mgr' \in [Managers -> Manager] /\ mgr'[m] = r
      /\ \A n \in Managers : n # m => mgr'[n] = mgr[n]
  BY OneMoves DEF FlagsInv, FlagsTyped
<1>2. FlagsTyped'
  BY <1>1 DEF FlagsInv, FlagsTyped
<1>3. ASSUME NEW id \in Ids, Waiting(id)' PROVE Kept(id)'
  <2>1. Kept(id) /\ (Reported(id) <=> Reported(id)')
    BY <1>3 DEF FlagsInv, NothingForgotten, Reported
  <2>2. CASE Reported(id)
    BY <2>1, <2>2 DEF Kept
  <2>3. CASE ~Reported(id)
    <3>1. /\ Asked(id) /\ "REVALIDATE" \in sd_flags'[id]
          /\ needs_refresh \/ WillFind(m, id) => needs_refresh' \/ WillFind(m, id)'
      BY <1>3, <2>1, <2>3 DEF Kept
    <3>2. ASSUME NEW n \in Managers, n # m, WillFind(n, id) PROVE WillFind(n, id)'
      BY <1>1, <3>2 DEF WillFind
    <3> QED
      BY <3>1, <3>2 DEF Kept, Asked
  <2> QED
    BY <2>2, <2>3
<1>4. ASSUME NEW n \in Managers, NEW id \in Ids,
             mgr'[n].pc = "resized", mgr'[n].id = id, Waiting(id)'
      PROVE  Reported(id)'
  <2>1. mgr[n].pc = "resized" /\ mgr[n].id = id
    <3>1. CASE n = m
      BY <1>1, <1>4, <3>1
    <3>2. CASE n # m
      BY <1>1, <1>4, <3>2
    <3> QED
      BY <3>1, <3>2
  <2>2. Reported(id)
    BY <1>4, <2>1 DEF FlagsInv, NothingToClear
  <2> QED
    BY <2>2 DEF Reported
<1> QED
  BY <1>2, <1>3, <1>4 DEF FlagsInv, NothingForgotten, NothingToClear

(* The step to the next disk, after the test of REVALIDATE for this one or *)
(* after the last disk was looked at.                                      *)
LEMMA NextIdMoves ==
  ASSUME FlagsTyped, NEW m \in Managers, NextId(m)
  PROVE  \E r \in Manager :
           /\ mgr' = [mgr EXCEPT ![m] = r] /\ needs_refresh' = needs_refresh
           /\ r.pc \in {"lookup", "ioctl"}
           /\ r.pc = "lookup" => r.id = mgr[m].id + 1
           /\ r.pc = "ioctl" => mgr[m].id = Targets
<1> DEFINE r == [mgr[m] EXCEPT !.pc = IF mgr[m].id = Targets THEN "ioctl" ELSE "lookup",
                               !.id = IF mgr[m].id = Targets THEN 1 ELSE mgr[m].id + 1]
<1>0. mgr[m] \in Manager /\ mgr[m].id \in Ids
  BY DEF FlagsTyped, Manager
<1>1. (IF mgr[m].id = Targets THEN 1 ELSE mgr[m].id + 1) \in Ids
  BY <1>0, IdsAre
<1>2. (IF mgr[m].id = Targets THEN "ioctl" ELSE "lookup") \in Places
  BY DEF Places
<1>3. r \in Manager
  BY <1>0, <1>1, <1>2 DEF Manager
<1>4. /\ r.pc = (IF mgr[m].id = Targets THEN "ioctl" ELSE "lookup")
      /\ r.id = (IF mgr[m].id = Targets THEN 1 ELSE mgr[m].id + 1)
  BY <1>0 DEF Manager
<1>5. mgr' = [mgr EXCEPT ![m] = r] /\ needs_refresh' = needs_refresh
  BY DEF NextId
<1> HIDE DEF r
<1> QED
  BY <1>3, <1>4, <1>5

(* A step that moves one manager, and changes neither the disks nor the    *)
(* flags.                                                                  *)
LEMMA QuietMove ==
  ASSUME FlagsInv, NEW m \in Managers, NEW r \in Manager,
         mgr' = [mgr EXCEPT ![m] = r], UNCHANGED <<sd_flags, disks, ldm, lost>>,
         needs_refresh' \in BOOLEAN,
         r.pc = "resized" => mgr[m].pc = "resized" /\ r.id = mgr[m].id,
         \A id \in Ids : present[id] =>
           (needs_refresh \/ WillFind(m, id) => needs_refresh' \/ WillFind(m, id)')
            \/ "REVALIDATE" \notin sd_flags[id]
  PROVE  FlagsInv'
<1>1. /\ sd_flags' \in [Ids -> SUBSET Flags] /\ stale' \in [Ids -> BOOLEAN]
      /\ lost' \in [Ids -> BOOLEAN] /\ present' = present /\ ldm' = ldm
  BY DEF FlagsInv, FlagsTyped, disks
<1>2. \A id \in Ids : Waiting(id)' =>
        /\ Waiting(id)
        /\ ~Reported(id) /\ "REVALIDATE" \in sd_flags[id] =>
             /\ "REVALIDATE" \in sd_flags'[id]
             /\ needs_refresh \/ WillFind(m, id) => needs_refresh' \/ WillFind(m, id)'
  BY DEF Waiting, disks
<1> QED
  BY <1>1, <1>2, ManagerKeeps

(* A step of a refresh that stores the flags of the disk it looks at.      *)
LEMMA FlagMove ==
  ASSUME FlagsInv, NEW m \in Managers, NEW r \in Manager, NEW flags \in SUBSET Flags,
         mgr' = [mgr EXCEPT ![m] = r], UNCHANGED <<needs_refresh, disks, ldm>>,
         sd_flags' = [sd_flags EXCEPT ![mgr[m].id] = flags], r.pc # "resized",
         lost' \in [Ids -> BOOLEAN], \A id \in Ids : lost[id] => lost'[id],
         \A id \in Ids : id = mgr[m].id /\ Waiting(id)' =>
           \/ Reported(id)
           \/ "REVALIDATE" \in sd_flags[id] => "REVALIDATE" \in flags,
         \A id \in Ids : WillFind(m, id) => WillFind(m, id)'
  PROVE  FlagsInv'
<1>0. mgr[m].id \in Ids
  BY DEF FlagsInv, FlagsTyped, Manager
<1>1. /\ sd_flags' \in [Ids -> SUBSET Flags]
      /\ sd_flags'[mgr[m].id] = flags
      /\ \A id \in Ids : id # mgr[m].id => sd_flags'[id] = sd_flags[id]
  BY <1>0 DEF FlagsInv, FlagsTyped
<1>2. /\ stale' \in [Ids -> BOOLEAN] /\ present' = present /\ ldm' = ldm
      /\ needs_refresh' = needs_refresh /\ needs_refresh' \in BOOLEAN
  BY DEF FlagsInv, FlagsTyped, disks
<1>3. ASSUME NEW id \in Ids, Waiting(id)'
      PROVE  /\ Waiting(id)
             /\ ~Reported(id) /\ "REVALIDATE" \in sd_flags[id] =>
                  "REVALIDATE" \in sd_flags'[id]
  <2>1. Waiting(id)
    BY <1>3 DEF Waiting, disks
  <2>2. CASE id = mgr[m].id
    BY <1>1, <1>3, <2>1, <2>2
  <2>3. CASE id # mgr[m].id
    BY <1>1, <2>1, <2>3
  <2> QED
    BY <2>2, <2>3
<1>4. \A id \in Ids : Waiting(id)' =>
        /\ Waiting(id)
        /\ ~Reported(id) /\ "REVALIDATE" \in sd_flags[id] =>
             /\ "REVALIDATE" \in sd_flags'[id]
             /\ needs_refresh \/ WillFind(m, id) => needs_refresh' \/ WillFind(m, id)'
  BY <1>2, <1>3
<1> QED
  BY <1>1, <1>2, <1>4, ManagerKeeps

(* What Store does.                                                        *)
LEMMA StoreDoes ==
  ASSUME FlagsTyped, NEW d \in Ids, NEW flags \in SUBSET Flags, Store(d, flags)
  PROVE  /\ sd_flags' = [sd_flags EXCEPT ![d] = flags]
         /\ lost' \in [Ids -> BOOLEAN] /\ \A id \in Ids : lost[id] => lost'[id]
         /\ ~lost'[d] => ("REVALIDATE" \in sd_flags[d] => "REVALIDATE" \in flags)
<1>1. (lost[d] \/ "REVALIDATE" \in sd_flags[d] \ flags) \in BOOLEAN
  BY Zenon
<1>2. /\ sd_flags' = [sd_flags EXCEPT ![d] = flags]
      /\ lost' = [lost EXCEPT ![d] = lost[d] \/ "REVALIDATE" \in sd_flags[d] \ flags]
  BY DEF Store
<1>3. /\ lost'[d] = (lost[d] \/ "REVALIDATE" \in sd_flags[d] \ flags)
      /\ \A id \in Ids : id # d => lost'[id] = lost[id]
      /\ lost' \in [Ids -> BOOLEAN]
  BY <1>1, <1>2 DEF FlagsTyped
<1>4. ~lost'[d] => ("REVALIDATE" \in sd_flags[d] => "REVALIDATE" \in flags)
  BY <1>3
<1>5. \A id \in Ids : lost[id] => lost'[id]
  BY <1>3
<1> QED
  BY <1>2, <1>3, <1>4, <1>5

-----------------------------------------------------------------------------
(* Every step keeps it.                                                    *)
LEMMA FlagsInvKept == ASSUME FlagsInv, [Next]_vars PROVE FlagsInv'
<1>0. /\ FlagsTyped /\ NothingForgotten /\ NothingToClear
      /\ \A m \in Managers : mgr[m] \in Manager /\ mgr[m].id \in Ids /\ mgr[m].at \in Nat
  BY DEF FlagsInv, FlagsTyped, Manager
<1>1. ASSUME NEW m \in Managers, NEW target \in Ids, NEW remove \in BOOLEAN,
             Call(m, target, remove)
      PROVE  FlagsInv'
  <2> DEFINE r == [mgr[m] EXCEPT !.pc = "start", !.target = IF remove THEN target ELSE 0]
  <2>1. r \in Manager /\ r.pc = "start"
    <3>1. (IF remove THEN target ELSE 0) \in 0 .. Targets
      BY IdsAre
    <3> QED
      BY <1>0, <3>1 DEF Manager, Places
  <2>2. /\ mgr' = [mgr EXCEPT ![m] = r]
        /\ UNCHANGED <<needs_refresh, sd_flags, disks, ldm, lost>>
    BY <1>1 DEF Call
  <2> HIDE DEF r
  <2>3. mgr'[m] = r
    BY <1>0, <2>1, <2>2, OneMoves DEF FlagsTyped
  <2>4. \A id \in Ids : WillFind(m, id)'
    BY <2>1, <2>3 DEF WillFind
  <2> QED
    BY <1>0, <2>1, <2>2, <2>4, QuietMove DEF FlagsTyped
<1>2. ASSUME NEW m \in Managers, RefreshStart(m) PROVE FlagsInv'
  <2> DEFINE r == [mgr[m] EXCEPT !.pc = "lookup", !.id = 1]
  <2>1. r \in Manager /\ r.pc = "lookup" /\ r.id = 1
    BY <1>0, IdsAre DEF Manager, Places
  <2>2. /\ mgr' = [mgr EXCEPT ![m] = r] /\ needs_refresh' = FALSE
        /\ UNCHANGED <<sd_flags, disks, ldm, lost>>
    BY <1>2 DEF RefreshStart, history
  <2> HIDE DEF r
  <2>3. mgr'[m] = r
    BY <1>0, <2>1, <2>2, OneMoves DEF FlagsTyped
  <2>4. \A id \in Ids : WillFind(m, id)'
    BY <2>1, <2>3, IdsAre DEF WillFind
  <2> QED
    BY <1>0, <2>1, <2>2, <2>4, QuietMove
<1>3. ASSUME NEW m \in Managers, Lookup(m) PROVE FlagsInv'
  <2> DEFINE r == [mgr[m] EXCEPT !.pc = "clear", !.seen = sd_flags[mgr[m].id],
                                 !.at = IF present[mgr[m].id] THEN 0 ELSE Targets + 1]
  <2>1. r \in Manager /\ r.pc = "clear" /\ r.id = mgr[m].id
        /\ (present[mgr[m].id] => r.at = 0)
    <3>1. (IF present[mgr[m].id] THEN 0 ELSE Targets + 1) \in Nat /\ sd_flags[mgr[m].id] \in SUBSET Flags
      BY <1>0, IdsAre DEF FlagsTyped
    <3> QED
      BY <1>0, <3>1 DEF Manager, Places
  <2>2. /\ mgr' = [mgr EXCEPT ![m] = r] /\ mgr[m].pc = "lookup"
        /\ UNCHANGED <<needs_refresh, sd_flags, disks, ldm, lost>>
    BY <1>3 DEF Lookup, history
  <2> HIDE DEF r
  <2>3. mgr'[m] = r
    BY <1>0, <2>1, <2>2, OneMoves DEF FlagsTyped
  <2>4. \A id \in Ids : present[id] /\ WillFind(m, id) => WillFind(m, id)'
    BY <1>0, <2>1, <2>2, <2>3, IdsAre DEF WillFind
  <2> QED
    BY <1>0, <2>1, <2>2, <2>4, QuietMove DEF FlagsTyped
<1>4. ASSUME NEW m \in Managers, ClearInUse(m) PROVE FlagsInv'
  <2> DEFINE r == [mgr[m] EXCEPT !.pc = "scan"]
             flags == mgr[m].seen \ {"IN_USE"}
  <2>1. r \in Manager /\ r.pc = "scan" /\ r.id = mgr[m].id /\ r.at = mgr[m].at
    BY <1>0 DEF Manager, Places
  <2>2. /\ mgr' = [mgr EXCEPT ![m] = r] /\ mgr[m].pc = "clear"
        /\ Store(mgr[m].id, flags)
        /\ UNCHANGED <<needs_refresh, disks, ldm>>
    BY <1>4 DEF ClearInUse, Goto
  <2>3. flags \in SUBSET Flags
    BY <1>0 DEF Manager
  <2> HIDE DEF r, flags
  <2>4. mgr'[m] = r
    BY <1>0, <2>1, <2>2, OneMoves DEF FlagsTyped
  <2>5. \A id \in Ids : WillFind(m, id) => WillFind(m, id)'
    BY <1>0, <2>1, <2>2, <2>4, IdsAre DEF WillFind
  <2>6. /\ sd_flags' = [sd_flags EXCEPT ![mgr[m].id] = flags]
        /\ lost' \in [Ids -> BOOLEAN] /\ \A id \in Ids : lost[id] => lost'[id]
        /\ ~lost'[mgr[m].id] =>
             ("REVALIDATE" \in sd_flags[mgr[m].id] => "REVALIDATE" \in flags)
    BY <1>0, <2>2, <2>3, StoreDoes
  <2>7. \A id \in Ids : id = mgr[m].id /\ Waiting(id)' =>
          ("REVALIDATE" \in sd_flags[id] => "REVALIDATE" \in flags)
    BY <2>6 DEF Waiting
  <2> QED
    BY <2>1, <2>2, <2>3, <2>5, <2>6, <2>7, FlagMove
<1>5. ASSUME NEW m \in Managers, NextId(m), UNCHANGED <<sd_flags, disks, ldm, lost>>,
             \A id \in Ids : present[id] /\ WillFind(m, id) => mgr[m].id < id
      PROVE  FlagsInv'
  <2>1. PICK r \in Manager :
           /\ mgr' = [mgr EXCEPT ![m] = r] /\ needs_refresh' = needs_refresh
           /\ r.pc \in {"lookup", "ioctl"}
           /\ r.pc = "lookup" => r.id = mgr[m].id + 1
           /\ r.pc = "ioctl" => mgr[m].id = Targets
    BY <1>0, <1>5, NextIdMoves
  <2>2. mgr'[m] = r
    BY <1>0, <2>1, OneMoves DEF FlagsTyped
  <2>3. \A id \in Ids : present[id] /\ WillFind(m, id) => WillFind(m, id)'
    BY <1>0, <1>5, <2>1, <2>2, IdsAre DEF WillFind
  <2> QED
    BY <1>0, <1>5, <2>1, <2>3, QuietMove DEF FlagsTyped
<1>6. ASSUME NEW m \in Managers, Scan(m) PROVE FlagsInv'
  <2>1. CASE mgr[m].at > Targets
    <3>1. NextId(m) /\ mgr[m].pc = "scan" /\ UNCHANGED <<sd_flags, disks, ldm, lost>>
      BY <1>6, <2>1 DEF Scan, history
    <3>2. \A id \in Ids : WillFind(m, id) => mgr[m].id < id
      BY <1>0, <2>1, <3>1, IdsAre DEF WillFind
    <3> QED
      BY <1>5, <3>1, <3>2
  <2>2. CASE ~(mgr[m].at > Targets)
    <3> DEFINE pc == IF mgr[m].at = mgr[m].id THEN "opened" ELSE "peek"
               r == [mgr[m] EXCEPT !.pc = pc]
    <3>1. pc \in Places
      BY DEF Places
    <3>2. /\ mgr' = [mgr EXCEPT ![m] = r] /\ mgr[m].pc = "scan"
          /\ UNCHANGED <<needs_refresh, sd_flags, disks, ldm, lost>>
      BY <1>6, <2>2 DEF Scan, Goto, history
    <3> HIDE DEF pc
    <3>3. r \in Manager /\ r.id = mgr[m].id /\ r.pc = pc /\ r.at = mgr[m].at
      BY <1>0, <3>1 DEF Manager
    <3> HIDE DEF r
    <3>4. mgr'[m] = r
      BY <1>0, <3>2, <3>3, OneMoves DEF FlagsTyped
    <3>5. ASSUME NEW id \in Ids, WillFind(m, id) PROVE WillFind(m, id)'
      BY <1>0, <3>2, <3>3, <3>4, <3>5, IdsAre DEF WillFind, pc
    <3>6. r.pc # "resized"
      BY <3>3 DEF pc
    <3> QED
      BY <1>0, <3>2, <3>3, <3>5, <3>6, QuietMove DEF FlagsTyped
  <2> QED
    BY <2>1, <2>2
<1>20. ASSUME NEW m \in Managers, OpenFails(m) PROVE FlagsInv'
  <2> DEFINE at == mgr[m].at
             d == mgr[m].id
             r == [mgr[m] EXCEPT !.at = at + 1]
             loses == at = d /\ present[d] /\ "REVALIDATE" \in sd_flags[d]
  <2>1. at + 1 \in Nat /\ d \in Ids /\ mgr[m].pc = "scan"
    BY <1>0, <1>20 DEF OpenFails
  <2>2. r \in Manager /\ r.pc = "scan" /\ r.id = d /\ r.at = at + 1
    BY <1>0, <2>1 DEF Manager
  <2>3. /\ mgr' = [mgr EXCEPT ![m] = r]
        /\ lost' = [lost EXCEPT ![d] = lost[d] \/ loses]
        /\ present' = present /\ stale' = stale
        /\ UNCHANGED <<needs_refresh, sd_flags, ldm>>
    BY <1>20 DEF OpenFails, disks
  <2>4. (lost[d] \/ loses) \in BOOLEAN
    BY Zenon
  <2>5. mgr'[m] = r
    BY <1>0, <2>2, <2>3, OneMoves DEF FlagsTyped
  <2> HIDE DEF r
  <2>6. /\ lost' \in [Ids -> BOOLEAN] /\ \A id \in Ids : lost[id] => lost'[id]
        /\ ~lost'[d] => ~loses
    <3> HIDE DEF loses
    <3> QED
      BY <1>0, <2>1, <2>3, <2>4 DEF FlagsTyped
  <2>7. ASSUME NEW id \in Ids, Waiting(id)'
        PROVE  /\ Waiting(id)
               /\ "REVALIDATE" \in sd_flags[id] => (WillFind(m, id) => WillFind(m, id)')
    <3>1. Waiting(id)
      BY <2>3, <2>6, <2>7 DEF Waiting
    <3>2. ASSUME "REVALIDATE" \in sd_flags[id], id = d PROVE at # id
      BY <2>6, <2>7, <3>1, <3>2 DEF Waiting
    <3>3. ASSUME "REVALIDATE" \in sd_flags[id], WillFind(m, id) PROVE WillFind(m, id)'
      <4>1. id = d => at # id
        BY <3>2, <3>3
      <4> QED
        BY <1>0, <2>1, <2>2, <2>5, <3>3, <4>1, IdsAre DEF WillFind
    <3> QED
      BY <3>1, <3>3
  <2>8. /\ needs_refresh' = needs_refresh /\ sd_flags' = sd_flags /\ ldm' = ldm
        /\ needs_refresh' \in BOOLEAN /\ sd_flags' \in [Ids -> SUBSET Flags]
        /\ stale' \in [Ids -> BOOLEAN]
    BY <1>0, <2>3 DEF FlagsTyped
  <2>9. \A id \in Ids : Waiting(id)' =>
          /\ Waiting(id)
          /\ "REVALIDATE" \in sd_flags[id] => "REVALIDATE" \in sd_flags'[id]
          /\ "REVALIDATE" \in sd_flags[id] =>
               (needs_refresh \/ WillFind(m, id) => needs_refresh' \/ WillFind(m, id)')
    BY <2>7, <2>8
  <2>10. r.pc # "resized"
    BY <2>2
  <2> HIDE DEF at, d, loses
  <2> QED
    BY <2>2, <2>3, <2>6, <2>8, <2>9, <2>10, ManagerKeeps
<1>7. ASSUME NEW m \in Managers, PutOther(m) PROVE FlagsInv'
  <2> DEFINE r == [mgr[m] EXCEPT !.pc = "scan", !.at = mgr[m].at + 1]
  <2>1. r \in Manager /\ r.pc = "scan" /\ r.id = mgr[m].id /\ r.at = mgr[m].at + 1
    <3>1. mgr[m].at + 1 \in Nat
      BY <1>0
    <3> QED
      BY <1>0, <3>1 DEF Manager, Places
  <2>2. /\ mgr' = [mgr EXCEPT ![m] = r] /\ mgr[m].pc = "peek"
        /\ UNCHANGED <<needs_refresh, sd_flags, disks, ldm, lost>>
    BY <1>7 DEF PutOther, history
  <2> HIDE DEF r
  <2>3. mgr'[m] = r
    BY <1>0, <2>1, <2>2, OneMoves DEF FlagsTyped
  <2>4. ASSUME NEW id \in Ids, WillFind(m, id) PROVE WillFind(m, id)'
    BY <1>0, <2>1, <2>2, <2>3, <2>4, IdsAre DEF WillFind
  <2> QED
    BY <1>0, <2>1, <2>2, <2>4, QuietMove DEF FlagsTyped
<1>8. ASSUME NEW m \in Managers, Resize(m) PROVE FlagsInv'
  <2>1. CASE "REVALIDATE" \in sd_flags[mgr[m].id]
    <3> DEFINE r == [mgr[m] EXCEPT !.pc = "resized", !.seen = sd_flags[mgr[m].id]]
    <3>1. r \in Manager /\ r.pc = "resized" /\ r.id = mgr[m].id
      <4>1. sd_flags[mgr[m].id] \in SUBSET Flags
        BY <1>0 DEF FlagsTyped
      <4> QED
        BY <1>0, <4>1 DEF Manager, Places
    <3>2. /\ mgr' = [mgr EXCEPT ![m] = r] /\ mgr[m].pc = "opened"
          /\ UNCHANGED <<needs_refresh, sd_flags, present, ldm>>
      BY <1>8, <2>1 DEF Resize
    <3>3. PICK fails \in BOOLEAN :
            /\ stale' = [stale EXCEPT ![mgr[m].id] = @ /\ fails]
            /\ lost' = [lost EXCEPT ![mgr[m].id] = stale[mgr[m].id] /\ fails]
      BY <1>8, <2>1 DEF Resize
    <3> HIDE DEF r
    <3>4. mgr'[m] = r
      BY <1>0, <3>1, <3>2, OneMoves DEF FlagsTyped
    <3>5. (stale[mgr[m].id] /\ fails) \in BOOLEAN
      BY Zenon
    <3>6. /\ stale' \in [Ids -> BOOLEAN] /\ lost' \in [Ids -> BOOLEAN]
          /\ stale'[mgr[m].id] = lost'[mgr[m].id]
          /\ \A id \in Ids : id # mgr[m].id => stale'[id] = stale[id] /\ lost'[id] = lost[id]
      BY <1>0, <3>3, <3>5 DEF FlagsTyped
    <3>7. ASSUME NEW id \in Ids, Waiting(id)'
          PROVE  Waiting(id) /\ id # mgr[m].id /\ (WillFind(m, id) => WillFind(m, id)')
      <4>1. id # mgr[m].id /\ Waiting(id)
        BY <3>2, <3>6, <3>7 DEF Waiting
      <4> QED
        BY <3>1, <3>2, <3>4, <4>1 DEF WillFind
    <3>8. \A id \in Ids : Waiting(id)' =>
            /\ Waiting(id) /\ r.id # id
            /\ "REVALIDATE" \in sd_flags[id] => "REVALIDATE" \in sd_flags'[id]
            /\ needs_refresh \/ WillFind(m, id) => needs_refresh' \/ WillFind(m, id)'
      BY <3>1, <3>2, <3>7
    <3>9. needs_refresh' = needs_refresh /\ needs_refresh' \in BOOLEAN
          /\ sd_flags' = sd_flags /\ sd_flags' \in [Ids -> SUBSET Flags]
          /\ present' = present /\ ldm' = ldm
      BY <1>0, <3>2 DEF FlagsTyped
    <3> QED
      BY <3>1, <3>2, <3>6, <3>8, <3>9, ManagerKeeps
  <2>2. CASE "REVALIDATE" \notin sd_flags[mgr[m].id]
    <3> DEFINE r == [mgr[m] EXCEPT !.pc = "count"]
    <3>1. r \in Manager /\ r.pc = "count" /\ r.id = mgr[m].id
      BY <1>0 DEF Manager, Places
    <3>2. /\ mgr' = [mgr EXCEPT ![m] = r] /\ mgr[m].pc = "opened"
          /\ UNCHANGED <<needs_refresh, sd_flags, disks, ldm, lost>>
      BY <1>8, <2>2 DEF Resize, Goto, disks
    <3> HIDE DEF r
    <3>3. mgr'[m] = r
      BY <1>0, <3>1, <3>2, OneMoves DEF FlagsTyped
    <3>4. ASSUME NEW id \in Ids, WillFind(m, id)
          PROVE  WillFind(m, id)' \/ "REVALIDATE" \notin sd_flags[id]
      BY <2>2, <3>1, <3>2, <3>3, <3>4 DEF WillFind
    <3> QED
      BY <1>0, <3>1, <3>2, <3>4, QuietMove DEF FlagsTyped
  <2> QED
    BY <2>1, <2>2
<1>9. ASSUME NEW m \in Managers, ClearRevalidate(m) PROVE FlagsInv'
  <2> DEFINE r == [mgr[m] EXCEPT !.pc = "count"]
             flags == mgr[m].seen \ {"REVALIDATE"}
  <2>1. r \in Manager /\ r.pc = "count" /\ r.id = mgr[m].id
    BY <1>0 DEF Manager, Places
  <2>2. /\ mgr' = [mgr EXCEPT ![m] = r] /\ mgr[m].pc = "resized"
        /\ sd_flags' = [sd_flags EXCEPT ![mgr[m].id] = flags]
        /\ UNCHANGED <<needs_refresh, disks, ldm, lost>>
    BY <1>9 DEF ClearRevalidate, Goto, history
  <2>3. flags \in SUBSET Flags
    BY <1>0 DEF Manager
  <2> HIDE DEF r, flags
  <2>4. mgr'[m] = r
    BY <1>0, <2>1, <2>2, OneMoves DEF FlagsTyped
  <2>5. \A id \in Ids : WillFind(m, id) => WillFind(m, id)'
    BY <1>0, <2>1, <2>2, <2>4 DEF WillFind
  <2>6. \A id \in Ids : id = mgr[m].id /\ Waiting(id)' => Reported(id)
    BY <1>0, <2>2 DEF NothingToClear, Waiting, disks
  <2>7. lost' \in [Ids -> BOOLEAN] /\ \A id \in Ids : lost[id] => lost'[id]
    BY <1>0, <2>2 DEF FlagsTyped
  <2> QED
    BY <2>1, <2>2, <2>3, <2>5, <2>6, <2>7, FlagMove
<1>10. ASSUME NEW m \in Managers, CountOpeners(m) PROVE FlagsInv'
  <2>1. mgr[m].pc = "count" /\ UNCHANGED <<sd_flags, disks, ldm, lost>>
    BY <1>10 DEF CountOpeners, history
  <2>2. \A id \in Ids : WillFind(m, id) => mgr[m].id < id
    BY <2>1 DEF WillFind
  <2>3. CASE OthersHaveItOpen(mgr[m].id)
    <3> DEFINE r == [mgr[m] EXCEPT !.pc = "set", !.seen = sd_flags[mgr[m].id]]
    <3>1. r \in Manager /\ r.pc = "set" /\ r.id = mgr[m].id
      <4>1. sd_flags[mgr[m].id] \in SUBSET Flags
        BY <1>0 DEF FlagsTyped
      <4> QED
        BY <1>0, <4>1 DEF Manager, Places
    <3>2. mgr' = [mgr EXCEPT ![m] = r] /\ needs_refresh' = needs_refresh
      BY <1>10, <2>3 DEF CountOpeners
    <3> HIDE DEF r
    <3>3. mgr'[m] = r
      BY <1>0, <3>1, <3>2, OneMoves DEF FlagsTyped
    <3>4. ASSUME NEW id \in Ids, WillFind(m, id) PROVE WillFind(m, id)'
      BY <2>2, <3>1, <3>3, <3>4 DEF WillFind
    <3> QED
      BY <1>0, <2>1, <3>1, <3>2, <3>4, QuietMove DEF FlagsTyped
  <2>4. CASE ~OthersHaveItOpen(mgr[m].id)
    <3>1. NextId(m)
      BY <1>10, <2>4 DEF CountOpeners
    <3> QED
      BY <1>5, <2>1, <2>2, <3>1
  <2> QED
    BY <2>3, <2>4
<1>11. ASSUME NEW m \in Managers, SetInUse(m) PROVE FlagsInv'
  <2> DEFINE flags == mgr[m].seen \cup {"IN_USE"}
  <2>1. /\ mgr[m].pc = "set" /\ NextId(m)
        /\ Store(mgr[m].id, flags)
        /\ UNCHANGED <<disks, ldm>>
    BY <1>11 DEF SetInUse
  <2>2. flags \in SUBSET Flags
    BY <1>0 DEF Manager, Flags
  <2> HIDE DEF flags
  <2>3. PICK r \in Manager :
           /\ mgr' = [mgr EXCEPT ![m] = r] /\ needs_refresh' = needs_refresh
           /\ r.pc \in {"lookup", "ioctl"}
           /\ r.pc = "lookup" => r.id = mgr[m].id + 1
           /\ r.pc = "ioctl" => mgr[m].id = Targets
    BY <1>0, <2>1, NextIdMoves
  <2>4. mgr'[m] = r
    BY <1>0, <2>3, OneMoves DEF FlagsTyped
  <2>5. ASSUME NEW id \in Ids, WillFind(m, id) PROVE WillFind(m, id)'
    BY <1>0, <2>1, <2>3, <2>4, <2>5, IdsAre DEF WillFind
  <2>6. /\ sd_flags' = [sd_flags EXCEPT ![mgr[m].id] = flags]
        /\ lost' \in [Ids -> BOOLEAN] /\ \A id \in Ids : lost[id] => lost'[id]
        /\ ~lost'[mgr[m].id] =>
             ("REVALIDATE" \in sd_flags[mgr[m].id] => "REVALIDATE" \in flags)
    BY <1>0, <2>1, <2>2, StoreDoes
  <2>7. \A id \in Ids : id = mgr[m].id /\ Waiting(id)' =>
          ("REVALIDATE" \in sd_flags[id] => "REVALIDATE" \in flags)
    BY <2>6 DEF Waiting
  <2>8. r.pc # "resized"
    BY <2>3
  <2> QED
    BY <2>1, <2>2, <2>3, <2>5, <2>6, <2>7, <2>8, FlagMove
<1>12. ASSUME NEW m \in Managers, LdmIoctl(m) PROVE FlagsInv'
  <2> DEFINE result == IF mgr[m].target = 0 THEN "none"
                       ELSE IF "IN_USE" \in sd_flags[mgr[m].target] THEN "in_use" ELSE "ok"
             r == [mgr[m] EXCEPT !.pc = "idle", !.at = 1, !.seen = {}, !.result = result]
  <2>1. r \in Manager /\ r.pc = "idle"
    BY <1>0 DEF Manager, Places
  <2>2. /\ mgr' = [mgr EXCEPT ![m] = r] /\ mgr[m].pc = "ioctl"
        /\ UNCHANGED <<needs_refresh, sd_flags, disks, ldm, lost>>
    BY <1>12 DEF LdmIoctl, history, Back
  <2> HIDE DEF r
  <2>3. \A id \in Ids : ~WillFind(m, id)
    BY <2>2 DEF WillFind
  <2> QED
    BY <1>0, <2>1, <2>2, <2>3, QuietMove DEF FlagsTyped
<1>13. ASSUME NEW m \in Managers, Noted(m) PROVE FlagsInv'
  <2> DEFINE r == [mgr[m] EXCEPT !.result = "none"]
  <2>1. r \in Manager /\ r.pc = mgr[m].pc /\ r.id = mgr[m].id /\ r.at = mgr[m].at
    BY <1>0 DEF Manager
  <2>2. /\ mgr' = [mgr EXCEPT ![m] = r]
        /\ UNCHANGED <<needs_refresh, sd_flags, disks, ldm, lost>>
    BY <1>13 DEF Noted, history
  <2> HIDE DEF r
  <2>3. mgr'[m] = r
    BY <1>0, <2>1, <2>2, OneMoves DEF FlagsTyped
  <2>4. ASSUME NEW id \in Ids, WillFind(m, id) PROVE WillFind(m, id)'
    BY <2>1, <2>3, <2>4 DEF WillFind
  <2> QED
    BY <1>0, <2>1, <2>2, <2>4, QuietMove DEF FlagsTyped
<1>14. ASSUME NEW e \in Ids, Expand(e) PROVE FlagsInv'
  <2>1. /\ ldm.pc = "idle" /\ ldm'.pc = "revalidate" /\ ldm'.id = e
        /\ stale' = [stale EXCEPT ![e] = TRUE] /\ lost' = [lost EXCEPT ![e] = FALSE]
        /\ UNCHANGED <<needs_refresh, sd_flags, present, mgr>>
    BY <1>14 DEF Expand
  <2>2. FlagsTyped'
    BY <1>0, <1>14 DEF Expand, FlagsTyped
  <2>3. ASSUME NEW id \in Ids, Waiting(id)', id # e PROVE Waiting(id)
    BY <1>0, <2>1, <2>3 DEF FlagsTyped, Waiting
  <2>4. ASSUME NEW id \in Ids, Waiting(id)' PROVE Kept(id)'
    <3>1. CASE id = e
      BY <2>1, <3>1 DEF Kept, Reported
    <3>2. CASE id # e
      <4>1. Kept(id)
        BY <1>0, <2>3, <2>4, <3>2 DEF NothingForgotten
      <4> QED
        BY <2>1, <4>1 DEF Kept, Asked, Reported, WillFind
    <3> QED
      BY <3>1, <3>2
  <2>5. ASSUME NEW m \in Managers, NEW id \in Ids,
               mgr'[m].pc = "resized", mgr'[m].id = id, Waiting(id)'
        PROVE  Reported(id)'
    <3>1. CASE id = e
      BY <2>1, <3>1 DEF Reported
    <3>2. CASE id # e
      BY <1>0, <2>1, <2>3, <2>5, <3>2 DEF Reported, NothingToClear
    <3> QED
      BY <3>1, <3>2
  <2> QED
    BY <2>2, <2>4, <2>5 DEF FlagsInv, NothingForgotten, NothingToClear
<1>15. ASSUME NEW d \in Ids, OpenOrClose(d) PROVE FlagsInv'
  BY <1>0, <1>15 DEF OpenOrClose, FlagsInv, FlagsTyped, NothingForgotten, NothingToClear,
     Waiting, Reported, Kept, Asked, WillFind
<1>16. ASSUME NEW d \in Ids, ComeOrGo(d) PROVE FlagsInv'
  <2>1. /\ present' = [present EXCEPT ![d] = ~present[d]]
        /\ stale' = [stale EXCEPT ![d] = stale[d] /\ present[d]]
        /\ UNCHANGED <<needs_refresh, sd_flags, mgr, ldm, lost>>
    BY <1>16 DEF ComeOrGo
  <2>2. present' \in [Ids -> BOOLEAN]
    BY <1>0, <2>1 DEF FlagsTyped
  <2>3. stale' \in [Ids -> BOOLEAN]
    BY <1>0, <2>1 DEF FlagsTyped
  <2>4. FlagsTyped'
    BY <1>0, <2>1, <2>2, <2>3 DEF FlagsTyped
  <2>5. \A id \in Ids : Waiting(id)' => Waiting(id)
    BY <1>0, <2>1 DEF FlagsTyped, Waiting
  <2>6. NothingForgotten'
    BY <1>0, <2>1, <2>5 DEF NothingForgotten, Kept, Reported, Asked, WillFind
  <2>7. NothingToClear'
    BY <1>0, <2>1, <2>5 DEF NothingToClear, Reported
  <2> QED
    BY <2>4, <2>6, <2>7 DEF FlagsInv
<1>17. CASE Revalidate
  <2> DEFINE racing == \E m \in Managers : mgr[m].pc = "resized" /\ mgr[m].id = ldm.id
  <2>1. /\ ldm.pc = "revalidate" /\ ldm.id \in Ids
        /\ ldm'.pc = "needs_refresh" /\ ldm'.id = ldm.id
        /\ ldm' \in [pc : {"idle", "revalidate", "needs_refresh"}, id : Ids, seen : SUBSET Flags]
    BY <1>0, <1>17 DEF Revalidate, FlagsTyped
  <2>2. /\ sd_flags' = [sd_flags EXCEPT ![ldm.id] = ldm.seen \cup {"REVALIDATE"}]
        /\ lost' = [lost EXCEPT ![ldm.id] = lost[ldm.id] \/ racing]
        /\ UNCHANGED <<needs_refresh, disks, mgr>>
    BY <1>17 DEF Revalidate
  <2>3. (lost[ldm.id] \/ racing) \in BOOLEAN
    BY Zenon
  <2> HIDE DEF racing
  <2>4. /\ sd_flags' \in [Ids -> SUBSET Flags]
        /\ "REVALIDATE" \in sd_flags'[ldm.id]
        /\ \A id \in Ids : id # ldm.id => sd_flags'[id] = sd_flags[id]
    BY <1>0, <2>1, <2>2 DEF FlagsTyped, Flags
  <2>5. /\ lost' \in [Ids -> BOOLEAN]
        /\ lost'[ldm.id] = (lost[ldm.id] \/ racing)
        /\ \A id \in Ids : id # ldm.id => lost'[id] = lost[id]
    BY <1>0, <2>1, <2>2, <2>3 DEF FlagsTyped
  <2>6. FlagsTyped'
    BY <1>0, <2>1, <2>2, <2>4, <2>5 DEF FlagsTyped, disks
  <2>7. ASSUME NEW id \in Ids, Waiting(id)' PROVE Waiting(id)
    BY <2>2, <2>5, <2>7 DEF Waiting, disks
  <2>8. ASSUME NEW id \in Ids, Waiting(id)' PROVE Kept(id)'
    <3>1. CASE id = ldm.id
      BY <2>1, <2>4, <3>1 DEF Kept, Asked
    <3>2. CASE id # ldm.id
      <4>1. Kept(id)
        BY <1>0, <2>7, <2>8 DEF NothingForgotten
      <4> QED
        BY <2>1, <2>2, <2>4, <3>2, <4>1 DEF Kept, Asked, Reported, WillFind
    <3> QED
      BY <3>1, <3>2
  <2>9. ASSUME NEW m \in Managers, NEW id \in Ids,
               mgr'[m].pc = "resized", mgr'[m].id = id, Waiting(id)'
        PROVE  FALSE
    <3>1. mgr[m].pc = "resized" /\ mgr[m].id = id
      BY <2>2, <2>9
    <3>2. id = ldm.id
      BY <1>0, <2>7, <2>9, <3>1 DEF NothingToClear, Reported
    <3>3. racing
      BY <3>1, <3>2 DEF racing
    <3> QED
      BY <2>5, <2>9, <3>2, <3>3 DEF Waiting
  <2> QED
    BY <2>6, <2>8, <2>9 DEF FlagsInv, NothingForgotten, NothingToClear
<1>18. CASE AskForRefresh
  <2>1. /\ ldm.pc = "needs_refresh" /\ needs_refresh' = TRUE /\ ldm'.pc = "idle"
        /\ ldm' \in [pc : {"idle", "revalidate", "needs_refresh"}, id : Ids, seen : SUBSET Flags]
        /\ UNCHANGED <<sd_flags, disks, mgr, lost>>
    BY <1>18, IdsAre DEF AskForRefresh, history
  <2>2. FlagsTyped'
    BY <1>0, <2>1 DEF FlagsTyped, disks
  <2>3. NothingForgotten'
    BY <1>0, <2>1 DEF NothingForgotten, Kept, Reported, Asked, Waiting, disks
  <2>4. NothingToClear'
    BY <1>0, <2>1 DEF NothingToClear, Reported, Waiting, disks
  <2> QED
    BY <2>2, <2>3, <2>4 DEF FlagsInv
<1>19. CASE UNCHANGED vars
  BY <1>0, <1>19 DEF vars, disks, history, FlagsInv, FlagsTyped, NothingForgotten, NothingToClear,
     Waiting, Reported, Kept, Asked, WillFind
<1> QED
  BY <1>1, <1>2, <1>3, <1>4, <1>6, <1>7, <1>8, <1>9, <1>10, <1>11, <1>12, <1>13, <1>14,
     <1>15, <1>16, <1>17, <1>18, <1>19, <1>20 DEF Next, Refresh

(* It holds before anything happens.                                       *)
LEMMA FlagsStart == Init => FlagsInv
<1> SUFFICES ASSUME Init PROVE FlagsInv
  OBVIOUS
<1>1. mgr \in [Managers -> Manager]
  BY IdsAre DEF Init, Manager, Places, Flags
<1>2. ldm \in [pc : {"idle", "revalidate", "needs_refresh"}, id : Ids, seen : SUBSET Flags]
  BY IdsAre DEF Init
<1> QED
  BY <1>1, <1>2 DEF Init, FlagsInv, FlagsTyped, NothingForgotten, NothingToClear, Waiting

(* For any number of disks and of managers: an expanded disk that waits    *)
(* for its size is not forgotten, whatever the refreshes of other          *)
(* processes and hot plug do, unless it is lost in one of the four ways    *)
(* that RevalidationKept names.                                            *)
THEOREM ExpansionsAreNoticed == Spec => []RevalidationKept
<1>1. Init => FlagsInv
  BY FlagsStart
<1>2. FlagsInv /\ [Next]_vars => FlagsInv'
  BY FlagsInvKept
<1>3. FlagsInv => RevalidationKept
  <2> SUFFICES ASSUME FlagsInv, NEW id \in Ids, stale[id] /\ present[id] /\ ~lost[id]
               PROVE  \/ ldm.pc # "idle" /\ ldm.id = id
                      \/ "REVALIDATE" \in sd_flags[id] /\ (needs_refresh \/ WillLookAt(id))
    BY DEF RevalidationKept
  <2>1. Kept(id)
    BY DEF FlagsInv, NothingForgotten, Waiting
  <2>2. (\E m \in Managers : WillFind(m, id)) => WillLookAt(id)
    <3>1. \A m \in Managers : mgr[m].at \in Nat /\ mgr[m].id \in Ids
      BY DEF FlagsInv, FlagsTyped, Manager
    <3> QED
      BY <3>1, IdsAre DEF WillFind, WillLookAt
  <2> QED
    BY <2>1, <2>2 DEF Kept, Reported, Asked
<1> QED
  BY <1>1, <1>2, <1>3, PTL DEF Spec
-----------------------------------------------------------------------------
(* The answers.  While manager m is in a call about a disk t: before the   *)
(* refresh has come to t nothing is known; while it looks at t IN_USE is   *)
(* clear, and if the disk was there from the beginning the scan has not    *)
(* passed it; afterwards IN_USE lies between held and ever.                *)
Called(m) == mgr[m].pc # "idle" \/ mgr[m].result # "none"
Passed(m) == \/ mgr[m].pc = "ioctl"
             \/ mgr[m].pc \notin {"idle", "start"} /\ mgr[m].id > mgr[m].target
Alone(m) == \A n \in Managers : n # m => mgr[n].pc = "idle"

(* What is known of every call.                                            *)
Frame(m) ==
  LET t == mgr[m].target
      pc == mgr[m].pc
  IN  /\ pc # "idle" => mgr[m].result = "none"
      /\ pc = "peek" => mgr[m].at # mgr[m].id
      /\ pc \in {"opened", "resized", "count", "set"} => mgr[m].at = mgr[m].id
      /\ held[m] => t # 0 /\ open[t] /\ present[t]
      /\ t # 0 /\ Called(m) => (open[t] => ever[m])
      /\ pc # "idle" /\ ~overlapped[m] => Alone(m)

(* What is known of a call that no other one overlaps and that opens its   *)
(* disk.                                                                   *)
Truth(m) ==
  LET t == mgr[m].target
      pc == mgr[m].pc
  IN  /\ t # 0 /\ Passed(m) =>
           /\ held[m] => "IN_USE" \in sd_flags[t]
           /\ "IN_USE" \in sd_flags[t] => ever[m]
      /\ t # 0 /\ mgr[m].id = t =>
           /\ pc \in {"scan", "peek", "opened", "resized", "count"} => "IN_USE" \notin sd_flags[t]
           /\ pc = "resized" => "IN_USE" \notin mgr[m].seen
           /\ pc \in {"clear", "scan", "peek"} /\ held[m] => mgr[m].at <= t
           /\ pc = "set" => ever[m]
      /\ mgr[m].result = "ok" => ~held[m]
      /\ mgr[m].result = "in_use" => ever[m]

Undisturbed(m) == ~overlapped[m] /\ ~misled[m]

QueryTyped ==
  /\ open \in [Ids -> BOOLEAN]
  /\ held \in [Managers -> BOOLEAN] /\ ever \in [Managers -> BOOLEAN]
  /\ overlapped \in [Managers -> BOOLEAN] /\ misled \in [Managers -> BOOLEAN]

(* A lone refresh finds its own open in bd_openers, and that of a file     *)
(* system.                                                                 *)
LEMMA OpenersOfOne ==
  ASSUME FlagsTyped, NEW m \in Managers, Alone(m), mgr[m].pc = "count",
         mgr[m].at = mgr[m].id
  PROVE  OthersHaveItOpen(mgr[m].id) <=> open[mgr[m].id]
<1>1. Holding(mgr[m].id) = {m}
  BY DEF Holding, Alone
<1>2. Cardinality(Holding(mgr[m].id)) = 1
  BY <1>1, FS_Singleton
<1> QED
  BY <1>2 DEF OthersHaveItOpen, bd_openers

(* The histories stay Booleans.                                            *)
LEMMA QueryTypedKept ==
  ASSUME FlagsTyped, QueryTyped, [Next]_vars PROVE QueryTyped'
<1>1. ASSUME NEW m \in Managers, NEW target \in Ids, NEW remove \in BOOLEAN,
             Call(m, target, remove)
      PROVE  QueryTyped'
  <2>1. (remove /\ open[target] /\ present[target]) \in BOOLEAN
        /\ (remove /\ open[target]) \in BOOLEAN
    BY Zenon
  <2>2. overlapped' \in [Managers -> BOOLEAN]
    <3> DEFINE others == {n \in Managers : mgr[n].pc # "idle"}
               o(n) == IF n = m THEN others # {} ELSE overlapped[n] \/ n \in others
    <3>1. overlapped' = [n \in Managers |-> o(n)]
      BY <1>1 DEF Call
    <3>2. ASSUME NEW n \in Managers PROVE o(n) \in BOOLEAN
      BY Zenon
    <3> HIDE DEF o
    <3> QED
      BY <3>1, <3>2
  <2> QED
    BY <1>1, <2>1, <2>2 DEF Call, QueryTyped, disks
<1>2. ASSUME NEW d \in Ids, OpenOrClose(d) PROVE QueryTyped'
  <2>1. open' \in [Ids -> BOOLEAN]
    BY <1>2 DEF OpenOrClose, QueryTyped
  <2>2. held' \in [Managers -> BOOLEAN]
    BY <1>2, Zenon DEF OpenOrClose
  <2>3. ever' \in [Managers -> BOOLEAN]
    BY <1>2, Zenon DEF OpenOrClose
  <2> QED
    BY <1>2, <2>1, <2>2, <2>3 DEF QueryTyped, OpenOrClose
<1>3. ASSUME NEW d \in Ids, ComeOrGo(d) PROVE QueryTyped'
  <2>1. held' \in [Managers -> BOOLEAN]
    BY <1>3, Zenon DEF ComeOrGo
  <2> QED
    BY <1>3, <2>1 DEF ComeOrGo, QueryTyped
<1>4. CASE UNCHANGED <<open, held, ever, overlapped, misled>>
  BY <1>4 DEF QueryTyped
<1>5. ASSUME NEW m \in Managers, OpenFails(m) PROVE QueryTyped'
  <2> DEFINE b == misled[m] \/ (mgr[m].at = mgr[m].id /\ present[mgr[m].id]
                                /\ mgr[m].id = mgr[m].target)
  <2>1. b \in BOOLEAN
    BY Zenon
  <2>2. misled' = [misled EXCEPT ![m] = b] /\ UNCHANGED <<open, held, ever, overlapped>>
    BY <1>5 DEF OpenFails, disks
  <2> HIDE DEF b
  <2> QED
    BY <2>1, <2>2 DEF QueryTyped
<1>6. ASSUME NEW m \in Managers, Refresh(m) \/ LdmIoctl(m) \/ Noted(m), ~OpenFails(m)
      PROVE  UNCHANGED <<open, held, ever, overlapped, misled>>
  BY <1>6 DEF Refresh, RefreshStart, Lookup, ClearInUse, Scan, PutOther, Resize,
     ClearRevalidate, CountOpeners, SetInUse, LdmIoctl, Noted, disks, history
<1>7. ASSUME NEW e \in Ids, Expand(e) PROVE UNCHANGED <<open, held, ever, overlapped, misled>>
  BY <1>7 DEF Expand
<1>8. CASE AskForRefresh \/ UNCHANGED vars
  BY <1>4, <1>8 DEF AskForRefresh, vars, disks, history
<1>9. CASE Revalidate
  <2>1. misled' \in [Managers -> BOOLEAN]
    BY <1>9, Zenon DEF Revalidate
  <2> QED
    BY <1>9, <2>1 DEF Revalidate, QueryTyped, disks
<1> QED
  BY <1>1, <1>2, <1>3, <1>4, <1>5, <1>6, <1>7, <1>8, <1>9 DEF Next

(* A step of another manager: if it is inside a call, so is this one in an *)
(* overlapped one, or it is idle.                                          *)
LEMMA OthersKeep ==
  ASSUME FlagsTyped, QueryTyped, NEW m \in Managers, NEW n \in Managers, n # m,
         Frame(m), Undisturbed(m) => Truth(m),
         \/ \E target \in Ids, remove \in BOOLEAN : Call(n, target, remove)
         \/ Refresh(n) \/ LdmIoctl(n) \/ Noted(n)
  PROVE  Frame(m)' /\ (Undisturbed(m)' => Truth(m)')
<1>1. ASSUME NEW target \in Ids, NEW remove \in BOOLEAN, Call(n, target, remove)
      PROVE  Frame(m)' /\ (Undisturbed(m)' => Truth(m)')
  <2>1. /\ mgr'[m] = mgr[m] /\ held'[m] = held[m] /\ ever'[m] = ever[m]
        /\ misled'[m] = misled[m]
        /\ overlapped'[m] <=> overlapped[m] \/ mgr[m].pc # "idle"
        /\ UNCHANGED <<sd_flags, present, open>>
    BY <1>1 DEF Call, disks, FlagsTyped, QueryTyped
  <2> QED
    BY <2>1 DEF Frame, Truth, Undisturbed, Called, Passed
<1>2. ASSUME Refresh(n) \/ LdmIoctl(n) PROVE Frame(m)' /\ (Undisturbed(m)' => Truth(m)')
  <2>1. mgr[n].pc # "idle"
    BY <1>2 DEF Refresh, RefreshStart, Lookup, ClearInUse, Scan, OpenFails, PutOther, Resize,
       ClearRevalidate, CountOpeners, SetInUse, LdmIoctl
  <2>2. mgr[m].pc = "idle" \/ overlapped[m]
    BY <2>1 DEF Frame, Alone
  <2>3. /\ mgr'[m] = mgr[m]
        /\ UNCHANGED <<present, open, held, ever, overlapped>> /\ misled'[m] = misled[m]
    BY <1>2 DEF Refresh, RefreshStart, Lookup, ClearInUse, Scan, OpenFails, PutOther, Resize,
       ClearRevalidate, CountOpeners, SetInUse, LdmIoctl, Back, Goto, NextId, disks, history,
       FlagsTyped, QueryTyped
  <2> QED
    BY <2>2, <2>3 DEF Frame, Truth, Undisturbed, Called, Passed
<1>3. ASSUME Noted(n) PROVE Frame(m)' /\ (Undisturbed(m)' => Truth(m)')
  <2>1. /\ mgr'[m] = mgr[m]
        /\ \A k \in Managers : mgr'[k].pc = mgr[k].pc
        /\ UNCHANGED <<sd_flags, present, open, held, ever, overlapped, misled>>
    BY <1>3 DEF Noted, disks, history, FlagsTyped, Manager
  <2> QED
    BY <2>1 DEF Frame, Truth, Undisturbed, Called, Passed, Alone
<1> QED
  BY <1>1, <1>2, <1>3

(* The manager's own steps change neither the other managers nor, after    *)
(* the call, the histories but one.                                        *)
LEMMA OwnStep ==
  ASSUME FlagsTyped, QueryTyped, NEW m \in Managers, Frame(m),
         Refresh(m) \/ LdmIoctl(m) \/ Noted(m)
  PROVE  /\ UNCHANGED <<present, open, held, ever, overlapped>>
         /\ misled[m] => misled'[m]
         /\ mgr'[m].pc # "idle" => mgr[m].pc # "idle"
         /\ mgr'[m].pc # "idle" /\ ~overlapped'[m] => Alone(m)'
         /\ Undisturbed(m)' => Undisturbed(m) /\ (mgr[m].pc # "idle" => Alone(m))
<1>1. /\ \A n \in Managers : n # m => mgr'[n] = mgr[n]
      /\ UNCHANGED <<present, open, held, ever, overlapped>>
  BY DEF Refresh, RefreshStart, Lookup, ClearInUse, Scan, OpenFails, PutOther, Resize,
     ClearRevalidate, CountOpeners, SetInUse, LdmIoctl, Noted, Back, Goto, NextId, disks, history,
     FlagsTyped
<1>2. misled[m] => misled'[m]
  BY DEF Refresh, RefreshStart, Lookup, ClearInUse, Scan, OpenFails, PutOther, Resize,
     ClearRevalidate, CountOpeners, SetInUse, LdmIoctl, Noted, history, QueryTyped
<1>3. mgr'[m].pc # "idle" => mgr[m].pc # "idle"
  BY DEF Refresh, RefreshStart, Lookup, ClearInUse, Scan, OpenFails, PutOther, Resize,
     ClearRevalidate, CountOpeners, SetInUse, LdmIoctl, Noted, FlagsTyped, Manager
<1>4. mgr'[m].pc # "idle" /\ ~overlapped'[m] => Alone(m)'
  BY <1>1, <1>3 DEF Frame, Alone
<1>5. Undisturbed(m)' => Undisturbed(m) /\ (mgr[m].pc # "idle" => Alone(m))
  BY <1>1, <1>2 DEF Undisturbed, Frame
<1> QED
  BY <1>1, <1>2, <1>3, <1>4, <1>5

(* A call begins.                                                          *)
LEMMA CallKeeps ==
  ASSUME FlagsTyped, QueryTyped, NEW m \in Managers, Frame(m),
         NEW target \in Ids, NEW remove \in BOOLEAN, Call(m, target, remove)
  PROVE  Frame(m)' /\ (Undisturbed(m)' => Truth(m)')
<1> DEFINE g == mgr[m]
<1>0. /\ g \in Manager /\ mgr \in [Managers -> Manager]
      /\ \A t \in Ids : t # 0
  BY IdsAre DEF FlagsTyped
<1>1. /\ g.pc = "idle" /\ g.result = "none"
      /\ mgr'[m].pc = "start" /\ mgr'[m].target = (IF remove THEN target ELSE 0)
      /\ mgr'[m].result = "none"
      /\ UNCHANGED <<sd_flags, present, open>>
  BY <1>0 DEF Call, disks, Manager
<1>2. held'[m] = (remove /\ open[target] /\ present[target])
  BY DEF Call, QueryTyped
<1>3. ever'[m] = (remove /\ open[target])
  BY DEF Call, QueryTyped
<1>4. ~overlapped'[m] => Alone(m)'
  <2>1. overlapped'[m] = ({n \in Managers : mgr[n].pc # "idle"} # {})
    BY DEF Call
  <2>2. \A n \in Managers : n # m => mgr'[n] = mgr[n]
    BY DEF Call
  <2> QED
    BY <2>1, <2>2 DEF Alone
<1>5. Truth(m)'
  BY <1>1 DEF Truth, Passed
<1>6. CASE remove
  <2>1. /\ mgr'[m].target = target
        /\ held'[m] => open[target] /\ present[target]
        /\ open[target] => ever'[m]
    BY <1>1, <1>2, <1>3, <1>6
  <2> QED
    BY <1>0, <1>1, <1>4, <1>5, <2>1 DEF Frame
<1>7. CASE ~remove
  <2>1. mgr'[m].target = 0 /\ ~held'[m]
    BY <1>1, <1>2, <1>7
  <2> QED
    BY <1>1, <1>4, <1>5, <2>1 DEF Frame
<1> QED
  BY <1>6, <1>7

(* Every step of the manager itself in a call, and in one that no other    *)
(* call overlaps.                                                          *)
LEMMA OwnKeeps ==
  ASSUME FlagsTyped, QueryTyped, NEW m \in Managers, Frame(m),
         Undisturbed(m) => Truth(m), Refresh(m) \/ LdmIoctl(m) \/ Noted(m)
  PROVE  Frame(m)' /\ (Undisturbed(m)' => Truth(m)')
<1> DEFINE g == mgr[m]
           kept == Frame(m)' /\ (Undisturbed(m)' => Truth(m)')
<1>a. g \in Manager /\ g.seen \in SUBSET Flags /\ g.target \in 0 .. Targets
  BY DEF FlagsTyped, Manager
<1>b. \A t \in 0 .. Targets : t # 0 <=> t \in Ids
  BY IdsAre
<1>0. /\ g \in Manager /\ g.id \in Ids /\ g.at \in Nat /\ g.target \in 0 .. Targets
      /\ Targets \in Nat /\ g.id \in Nat /\ 1 <= g.id /\ g.id <= Targets
      /\ \A t \in 0 .. Targets : t # 0 <=> t \in Ids
      /\ mgr \in [Managers -> Manager] /\ sd_flags \in [Ids -> SUBSET Flags]
      /\ open \in [Ids -> BOOLEAN] /\ held \in [Managers -> BOOLEAN]
      /\ ever \in [Managers -> BOOLEAN] /\ g.seen \in SUBSET Flags
  BY <1>a, <1>b, IdsAre DEF FlagsTyped, QueryTyped, Manager
<1>1. /\ UNCHANGED <<present, open, held, ever, overlapped>>
      /\ mgr'[m].pc # "idle" => mgr[m].pc # "idle"
      /\ mgr'[m].pc # "idle" /\ ~overlapped'[m] => Alone(m)'
      /\ Undisturbed(m)' => Undisturbed(m) /\ (mgr[m].pc # "idle" => Alone(m))
  BY OwnStep
(* A step that stays at the disk, in the call, and changes no IN_USE.      *)
<1>2. ASSUME mgr'[m].target = g.target, mgr'[m].result = g.result,
             g.pc \notin {"idle", "ioctl", "start"},
             mgr'[m].pc \notin {"idle", "ioctl", "start"}, mgr'[m].id = g.id,
             mgr'[m].pc = "peek" => mgr'[m].at # g.id,
             mgr'[m].pc \in {"opened", "resized", "count", "set"} => mgr'[m].at = g.id,
             mgr'[m].pc \in {"scan", "peek", "opened", "resized", "count"} =>
               g.pc \in {"scan", "peek", "opened", "resized", "count"},
             \A t \in Ids : Undisturbed(m)' /\ t = g.target =>
               /\ "IN_USE" \in sd_flags'[t] <=> "IN_USE" \in sd_flags[t]
               /\ mgr'[m].pc = "resized" /\ g.id = t => "IN_USE" \notin mgr'[m].seen
               /\ mgr'[m].pc = "set" /\ g.id = t => ever[m]
               /\ mgr'[m].pc \in {"clear", "scan", "peek"} /\ held[m] /\ g.id = t =>
                    mgr'[m].at <= g.id
      PROVE  kept
  <2>1. Frame(m)'
    BY <1>0, <1>1, <1>2 DEF Frame, Called
  <2>2. ASSUME Undisturbed(m)' PROVE Truth(m)'
    <3>1. Truth(m)
      BY <1>1, <2>2
    <3> QED
      BY <1>0, <1>1, <1>2, <2>2, <3>1 DEF Truth, Passed
  <2> QED
    BY <2>1, <2>2
<1>3. CASE RefreshStart(m)
  <2>1. /\ g.pc = "start" /\ mgr'[m].pc = "lookup" /\ mgr'[m].id = 1
        /\ mgr'[m].target = g.target /\ mgr'[m].result = g.result /\ mgr'[m].at = g.at
        /\ sd_flags' = sd_flags
    BY <1>0, <1>3, IdsAre DEF RefreshStart, Manager
  <2>2. g.target # 0 => ~(1 > g.target)
    BY <1>0, IdsAre
  <2> HIDE DEF g
  <2>3. Frame(m)'
    BY <1>0, <1>1, <2>1 DEF g, Frame, Called
  <2>4. Undisturbed(m)' => Truth(m)'
    BY <1>0, <1>1, <2>1, <2>2 DEF g, Frame, Truth, Passed
  <2> QED
    BY <2>3, <2>4
<1>4. CASE Lookup(m)
  <2>1. /\ g.pc = "lookup" /\ mgr'[m].pc = "clear" /\ mgr'[m].id = g.id
        /\ mgr'[m].target = g.target /\ mgr'[m].result = g.result
        /\ mgr'[m].at = (IF present[g.id] THEN 0 ELSE Targets + 1)
        /\ sd_flags' = sd_flags
    BY <1>0, <1>4 DEF Lookup, Manager
  <2>2. held[m] /\ g.id = g.target => present[g.id]
    BY DEF Frame
  <2> QED
    BY <1>0, <1>2, <2>1, <2>2
<1>5. CASE ClearInUse(m)
  <2>1. /\ g.pc = "clear" /\ mgr'[m].pc = "scan" /\ mgr'[m].id = g.id
        /\ mgr'[m].target = g.target /\ mgr'[m].result = g.result /\ mgr'[m].at = g.at
        /\ sd_flags' = [sd_flags EXCEPT ![g.id] = g.seen \ {"IN_USE"}]
    BY <1>0, <1>5 DEF ClearInUse, Goto, Store, Manager
  <2>2. /\ "IN_USE" \notin sd_flags'[g.id]
        /\ \A t \in Ids : t # g.id => sd_flags'[t] = sd_flags[t]
    BY <1>0, <2>1
  <2>3. Frame(m)'
    BY <1>0, <1>1, <2>1 DEF Frame, Called
  <2>4. ASSUME Undisturbed(m)' PROVE Truth(m)'
    <3>1. Truth(m)
      BY <1>1, <2>4
    <3> QED
      BY <1>0, <1>1, <2>1, <2>2, <3>1 DEF Frame, Truth, Passed
  <2> QED
    BY <2>3, <2>4
(* A step to the next disk, when this one is decided.                      *)
<1>6. ASSUME NextId(m), g.pc \in {"scan", "count", "set"},
             \A t \in Ids : t # g.id => sd_flags'[t] = sd_flags[t],
             Undisturbed(m)' /\ g.target = g.id => ("IN_USE" \in sd_flags'[g.id] => ever[m]),
             Undisturbed(m)' /\ g.target = g.id => (held[m] => "IN_USE" \in sd_flags'[g.id])
      PROVE  kept
  <2>1. /\ mgr'[m].pc = (IF g.id = Targets THEN "ioctl" ELSE "lookup")
        /\ mgr'[m].id = (IF g.id = Targets THEN 1 ELSE g.id + 1)
        /\ mgr'[m].target = g.target /\ mgr'[m].result = g.result /\ mgr'[m].at = g.at
    BY <1>0, <1>6 DEF NextId, Manager
  <2>2. Frame(m)'
    BY <1>0, <1>1, <1>6, <2>1 DEF Frame, Called
  <2>3. ASSUME g.target # 0, Passed(m)' PROVE g.target = g.id \/ Passed(m)
    BY <1>0, <1>6, <2>1, <2>3 DEF Passed
  <2>4. ASSUME Undisturbed(m)' PROVE Truth(m)'
    <3>1. Truth(m)
      BY <1>1, <2>4
    <3>2. ASSUME g.target # 0, Passed(m)'
          PROVE  /\ held[m] => "IN_USE" \in sd_flags'[g.target]
                 /\ "IN_USE" \in sd_flags'[g.target] => ever[m]
      <4>1. CASE g.target = g.id
        BY <1>6, <2>4, <4>1
      <4>2. CASE g.target # g.id
        BY <1>0, <1>6, <2>3, <3>1, <3>2, <4>2 DEF Truth
      <4> QED
        BY <4>1, <4>2
    <3>3. g.result = "none"
      BY <1>6 DEF Frame
    <3> QED
      BY <1>0, <1>1, <1>6, <2>1, <3>2, <3>3 DEF Truth
  <2> QED
    BY <2>2, <2>4
<1>7. CASE Scan(m)
  <2>1. g.pc = "scan" /\ UNCHANGED sd_flags
    BY <1>7 DEF Scan
  <2>2. CASE g.at > Targets
    <3>1. NextId(m)
      BY <1>7, <2>2 DEF Scan
    <3>2. Undisturbed(m)' /\ g.target = g.id => ~held[m] /\ "IN_USE" \notin sd_flags[g.id]
      BY <1>0, <1>1, <2>1, <2>2, IdsAre DEF Truth
    <3> QED
      BY <1>6, <2>1, <3>1, <3>2
  <2>3. CASE ~(g.at > Targets)
    <3>1. /\ mgr'[m].pc = (IF g.at = g.id THEN "opened" ELSE "peek")
          /\ mgr'[m].at = g.at /\ mgr'[m].id = g.id
          /\ mgr'[m].target = g.target /\ mgr'[m].result = g.result
      BY <1>0, <1>7, <2>3 DEF Scan, Goto, Manager
    <3>2. Undisturbed(m)' /\ held[m] /\ g.id = g.target => g.at <= g.id
      BY <1>0, <1>1, <2>1, IdsAre DEF Truth
    <3> QED
      BY <1>0, <1>2, <2>1, <3>1, <3>2
  <2> QED
    BY <2>2, <2>3
<1>8. CASE OpenFails(m)
  <2>1. /\ g.pc = "scan" /\ mgr'[m].pc = "scan" /\ mgr'[m].id = g.id
        /\ mgr'[m].target = g.target /\ mgr'[m].result = g.result /\ mgr'[m].at = g.at + 1
        /\ UNCHANGED sd_flags
    BY <1>0, <1>8 DEF OpenFails, Manager
  <2>2. misled'[m] <=> misled[m] \/ (g.at = g.id /\ present[g.id] /\ g.id = g.target)
    BY <1>8 DEF OpenFails, QueryTyped
  <2>3. Undisturbed(m)' /\ held[m] /\ g.id = g.target => g.at <= g.id /\ g.at # g.id
    <3> SUFFICES ASSUME Undisturbed(m)', held[m], g.id = g.target
                 PROVE  g.at <= g.id /\ g.at # g.id
      OBVIOUS
    <3>1. Truth(m) /\ present[g.id]
      BY <1>1 DEF Frame
    <3>2. g.at <= g.id
      BY <1>0, <2>1, <3>1, IdsAre DEF Truth
    <3>3. g.at # g.id
      BY <2>2, <3>1 DEF Undisturbed
    <3> QED
      BY <3>2, <3>3
  <2> QED
    BY <1>0, <1>2, <2>1, <2>3
<1>9. CASE PutOther(m)
  <2>1. /\ g.pc = "peek" /\ mgr'[m].pc = "scan" /\ mgr'[m].id = g.id
        /\ mgr'[m].target = g.target /\ mgr'[m].result = g.result /\ mgr'[m].at = g.at + 1
        /\ UNCHANGED sd_flags /\ g.at # g.id
    BY <1>0, <1>9 DEF PutOther, Manager, Frame
  <2>2. Undisturbed(m)' /\ held[m] /\ g.id = g.target => g.at <= g.id
    BY <1>0, <1>1, <2>1, IdsAre DEF Truth
  <2> QED
    BY <1>0, <1>2, <2>1, <2>2
<1>10. CASE Resize(m)
  <2>1. /\ g.pc = "opened" /\ UNCHANGED sd_flags /\ g.at = g.id
    BY <1>10 DEF Resize, Frame
  <2>2. /\ mgr'[m].pc \in {"resized", "count"} /\ mgr'[m].id = g.id
        /\ mgr'[m].target = g.target /\ mgr'[m].result = g.result /\ mgr'[m].at = g.at
        /\ mgr'[m].pc = "resized" => mgr'[m].seen = sd_flags[g.id]
    <3>1. \/ mgr' = [mgr EXCEPT ![m] = [@ EXCEPT !.pc = "resized", !.seen = sd_flags[g.id]]]
          \/ mgr' = [mgr EXCEPT ![m].pc = "count"]
      BY <1>10 DEF Resize, Goto
    <3>2. CASE mgr' = [mgr EXCEPT ![m] = [@ EXCEPT !.pc = "resized", !.seen = sd_flags[g.id]]]
      BY <1>0, <3>2 DEF Manager
    <3>3. CASE mgr' = [mgr EXCEPT ![m].pc = "count"]
      BY <1>0, <3>3 DEF Manager
    <3> QED
      BY <3>1, <3>2, <3>3
  <2>3. Undisturbed(m)' /\ g.id = g.target => "IN_USE" \notin sd_flags[g.id]
    BY <1>0, <1>1, <2>1, IdsAre DEF Truth
  <2> QED
    BY <1>0, <1>2, <2>1, <2>2, <2>3
<1>11. CASE ClearRevalidate(m)
  <2>1. /\ g.pc = "resized" /\ mgr'[m].pc = "count" /\ mgr'[m].id = g.id
        /\ mgr'[m].target = g.target /\ mgr'[m].result = g.result /\ mgr'[m].at = g.at
        /\ sd_flags' = [sd_flags EXCEPT ![g.id] = g.seen \ {"REVALIDATE"}]
        /\ g.at = g.id
    BY <1>0, <1>11 DEF ClearRevalidate, Goto, Manager, Frame
  <2>2. \A t \in Ids : Undisturbed(m)' /\ t = g.target =>
          ("IN_USE" \in sd_flags'[t] <=> "IN_USE" \in sd_flags[t])
    <3> SUFFICES ASSUME NEW t \in Ids, Undisturbed(m)', t = g.target
                 PROVE  "IN_USE" \in sd_flags'[t] <=> "IN_USE" \in sd_flags[t]
      OBVIOUS
    <3>1. CASE t = g.id
      <4>1. "IN_USE" \notin sd_flags[t] /\ "IN_USE" \notin g.seen
        BY <1>0, <1>1, <2>1, <3>1, IdsAre DEF Truth
      <4> QED
        BY <1>0, <2>1, <3>1, <4>1
    <3>2. CASE t # g.id
      BY <1>0, <2>1, <3>2
    <3> QED
      BY <3>1, <3>2
  <2> QED
    BY <1>0, <1>2, <2>1, <2>2
<1>12. CASE CountOpeners(m)
  <2>1. g.pc = "count" /\ g.at = g.id /\ UNCHANGED sd_flags
    BY <1>12 DEF CountOpeners, Frame
  <2>2. Undisturbed(m)' => (OthersHaveItOpen(g.id) <=> open[g.id])
    BY <1>1, <2>1, OpenersOfOne
  <2>3. CASE OthersHaveItOpen(g.id)
    <3>1. /\ mgr'[m].pc = "set" /\ mgr'[m].id = g.id
          /\ mgr'[m].target = g.target /\ mgr'[m].result = g.result /\ mgr'[m].at = g.at
      <4>1. mgr' = [mgr EXCEPT ![m] = [@ EXCEPT !.pc = "set", !.seen = sd_flags[g.id]]]
        BY <1>12, <2>3 DEF CountOpeners
      <4> QED
        BY <1>0, <4>1 DEF Manager
    <3>2. Undisturbed(m)' /\ g.id = g.target => ever[m]
      BY <1>0, <2>1, <2>2, <2>3, IdsAre DEF Frame, Called
    <3> QED
      BY <1>0, <1>2, <2>1, <3>1, <3>2
  <2>4. CASE ~OthersHaveItOpen(g.id)
    <3>1. NextId(m)
      BY <1>12, <2>4 DEF CountOpeners
    <3>2. Undisturbed(m)' /\ g.target = g.id => ~held[m] /\ "IN_USE" \notin sd_flags[g.id]
      BY <1>0, <1>1, <2>1, <2>2, <2>4, IdsAre DEF Truth, Frame
    <3> QED
      BY <1>6, <2>1, <3>1, <3>2
  <2> QED
    BY <2>3, <2>4
<1>13. CASE SetInUse(m)
  <2>1. /\ g.pc = "set" /\ NextId(m)
        /\ sd_flags' = [sd_flags EXCEPT ![g.id] = g.seen \cup {"IN_USE"}]
    BY <1>13 DEF SetInUse, Store
  <2>2. /\ "IN_USE" \in sd_flags'[g.id]
        /\ \A t \in Ids : t # g.id => sd_flags'[t] = sd_flags[t]
    BY <1>0, <2>1
  <2>3. Undisturbed(m)' /\ g.target = g.id => ever[m]
    BY <1>0, <1>1, <2>1, IdsAre DEF Truth
  <2> QED
    BY <1>6, <2>1, <2>2, <2>3
<1>14. CASE LdmIoctl(m)
  <2>1. /\ g.pc = "ioctl" /\ mgr'[m].pc = "idle" /\ mgr'[m].target = g.target
        /\ mgr'[m].result = (IF g.target = 0 THEN "none"
                             ELSE IF "IN_USE" \in sd_flags[g.target] THEN "in_use" ELSE "ok")
        /\ UNCHANGED sd_flags
    BY <1>0, <1>14 DEF LdmIoctl, Back, Manager
  <2>2. /\ held[m] => g.target # 0 /\ open[g.target] /\ present[g.target]
        /\ g.target # 0 => (open[g.target] => ever[m])
    BY <2>1 DEF Frame, Called
  <2>3. Undisturbed(m)' /\ g.target # 0 =>
          /\ held[m] => "IN_USE" \in sd_flags[g.target]
          /\ "IN_USE" \in sd_flags[g.target] => ever[m]
    BY <1>1, <2>1 DEF Truth, Passed
  <2>4. Frame(m)'
    BY <1>0, <1>1, <2>1, <2>2 DEF Frame
  <2>5. Undisturbed(m)' => Truth(m)'
    BY <1>0, <1>1, <2>1, <2>2, <2>3 DEF Truth, Passed
  <2> QED
    BY <2>4, <2>5
<1>15. CASE Noted(m)
  <2>1. /\ mgr'[m].pc = g.pc /\ mgr'[m].id = g.id /\ mgr'[m].at = g.at
        /\ mgr'[m].target = g.target /\ mgr'[m].result = "none" /\ g.result # "none"
        /\ UNCHANGED sd_flags
    BY <1>0, <1>15 DEF Noted, Manager
  <2>2. mgr'[m].pc = "idle"
    BY <2>1 DEF Frame
  <2> QED
    BY <1>0, <1>1, <2>1, <2>2 DEF Frame, Truth, Passed, Called
<1> QED
  BY <1>3, <1>4, <1>5, <1>7, <1>8, <1>9, <1>10, <1>11, <1>12, <1>13, <1>14, <1>15 DEF Refresh

(* A disk that is opened, closed, comes or goes, and the steps of the LDM. *)
LEMMA DisksKeep ==
  ASSUME FlagsTyped, QueryTyped, NEW m \in Managers, Frame(m),
         Undisturbed(m) => Truth(m),
         \/ \E d \in Ids : Expand(d) \/ OpenOrClose(d) \/ ComeOrGo(d)
         \/ Revalidate \/ AskForRefresh \/ UNCHANGED vars
  PROVE  Frame(m)' /\ (Undisturbed(m)' => Truth(m)')
<1> DEFINE g == mgr[m]
<1>a. g.target \in 0 .. Targets
  BY DEF FlagsTyped, Manager
<1>b. \A t \in 0 .. Targets : t # 0 <=> t \in Ids
  BY IdsAre
<1>0. /\ g.target \in 0 .. Targets /\ \A t \in 0 .. Targets : t # 0 <=> t \in Ids
      /\ open \in [Ids -> BOOLEAN] /\ present \in [Ids -> BOOLEAN]
      /\ sd_flags \in [Ids -> SUBSET Flags]
  BY <1>a, <1>b DEF FlagsTyped, QueryTyped
<1>1. ASSUME NEW d \in Ids, OpenOrClose(d) PROVE Frame(m)' /\ (Undisturbed(m)' => Truth(m)')
  <2>1. /\ UNCHANGED <<sd_flags, present, mgr, overlapped, misled>>
        /\ open' = [open EXCEPT ![d] = ~open[d]]
    BY <1>1 DEF OpenOrClose
  <2>2. held'[m] => held[m] /\ (g.target = d => ~open[d])
    BY <1>1 DEF OpenOrClose
  <2>3. ever'[m] <=> ever[m] \/ g.target = d
    BY <1>1 DEF OpenOrClose
  <2>4. /\ open'[d] = ~open[d] /\ \A t \in Ids : t # d => open'[t] = open[t]
    BY <1>0, <2>1
  <2>5. held'[m] => g.target # 0 /\ open'[g.target] /\ present[g.target]
    BY <1>0, <2>2, <2>4 DEF Frame
  <2>6. g.target # 0 /\ Called(m) => (open'[g.target] => ever'[m])
    BY <1>0, <2>3, <2>4 DEF Frame
  <2>7. Frame(m)'
    BY <1>0, <2>1, <2>5, <2>6 DEF Frame, Called, Alone
  <2>8. Undisturbed(m)' => Truth(m)'
    BY <1>0, <2>1, <2>2, <2>3 DEF Undisturbed, Truth, Passed
  <2> QED
    BY <2>7, <2>8
<1>2. ASSUME NEW d \in Ids, ComeOrGo(d) PROVE Frame(m)' /\ (Undisturbed(m)' => Truth(m)')
  <2>1. /\ UNCHANGED <<sd_flags, open, mgr, ever, overlapped, misled>>
        /\ present' = [present EXCEPT ![d] = ~present[d]]
    BY <1>2 DEF ComeOrGo
  <2>2. held'[m] => held[m] /\ g.target # d
    BY <1>2 DEF ComeOrGo
  <2>3. held'[m] => g.target # 0 /\ open[g.target] /\ present'[g.target]
    BY <1>0, <2>1, <2>2 DEF Frame
  <2>4. Frame(m)'
    BY <1>0, <2>1, <2>3 DEF Frame, Called, Alone
  <2>5. Undisturbed(m)' => Truth(m)'
    BY <1>0, <2>1, <2>2 DEF Undisturbed, Truth, Passed
  <2> QED
    BY <2>4, <2>5
<1>3. CASE Revalidate
  <2>1. /\ UNCHANGED <<present, open, mgr, held, ever, overlapped>> /\ ldm.id \in Ids
        /\ sd_flags' = [sd_flags EXCEPT ![ldm.id] = ldm.seen \cup {"REVALIDATE"}]
    BY <1>3 DEF Revalidate, disks, FlagsTyped
  <2>2. misled'[m] <=> misled[m] \/ (g.target = ldm.id /\ ldm.seen # sd_flags[ldm.id])
    BY <1>3 DEF Revalidate
  <2>3. Frame(m)'
    BY <2>1 DEF Frame, Called, Alone
  <2>4. ASSUME Undisturbed(m)' PROVE Truth(m)'
    <3>1. Truth(m) /\ (g.target = ldm.id => ldm.seen = sd_flags[ldm.id])
      BY <2>1, <2>2, <2>4 DEF Undisturbed
    <3>2. g.target # 0 => ("IN_USE" \in sd_flags'[g.target] <=> "IN_USE" \in sd_flags[g.target])
      BY <1>0, <2>1, <3>1
    <3> QED
      BY <1>0, <2>1, <3>1, <3>2 DEF Truth, Passed
  <2> QED
    BY <2>3, <2>4
<1>4. CASE (\E d \in Ids : Expand(d)) \/ AskForRefresh \/ UNCHANGED vars
  <2>1. UNCHANGED <<sd_flags, present, open, mgr, held, ever, overlapped, misled>>
    BY <1>4 DEF Expand, AskForRefresh, vars, disks, history
  <2> QED
    BY <2>1 DEF Frame, Truth, Undisturbed, Called, Passed, Alone
<1> QED
  BY <1>1, <1>2, <1>3, <1>4

(* For any number of disks and of managers, whatever is opened, closed,    *)
(* plugged or expanded meanwhile and whatever was asked before and is      *)
(* asked afterwards: a removal is refused if the disk was open from the    *)
(* call to the answer, and is not refused if it was open at no time        *)
(* between, unless another call ran at the same time, the disk could not   *)
(* be opened, or os_revalidate_device overwrote the flags.                 *)
THEOREM QueriesAreTrue == Spec => []LoneQueryTellsTheTruth
<1> DEFINE QueryInv == /\ FlagsInv /\ QueryTyped
                       /\ \A m \in Managers : Frame(m) /\ (Undisturbed(m) => Truth(m))
<1>1. Init => QueryInv
  <2> SUFFICES ASSUME Init PROVE QueryInv
    OBVIOUS
  <2>1. FlagsInv
    BY FlagsStart
  <2>2. QueryTyped
    BY DEF Init, QueryTyped
  <2>3. ASSUME NEW m \in Managers PROVE Frame(m) /\ Truth(m)
    BY DEF Init, Frame, Truth, Passed, Called
  <2> QED
    BY <2>1, <2>2, <2>3
<1>2. QueryInv /\ [Next]_vars => QueryInv'
  <2> SUFFICES ASSUME QueryInv, [Next]_vars PROVE QueryInv'
    OBVIOUS
  <2>1. FlagsTyped /\ FlagsInv'
    BY FlagsInvKept DEF FlagsInv
  <2>2. QueryTyped'
    BY <2>1, QueryTypedKept
  <2>3. ASSUME NEW m \in Managers PROVE Frame(m)' /\ (Undisturbed(m)' => Truth(m)')
    <3>1. ASSUME NEW n \in Managers,
                 \/ \E target \in Ids, remove \in BOOLEAN : Call(n, target, remove)
                 \/ Refresh(n) \/ LdmIoctl(n) \/ Noted(n)
          PROVE  Frame(m)' /\ (Undisturbed(m)' => Truth(m)')
      <4>1. CASE n # m
        BY <2>1, <3>1, <4>1, OthersKeep
      <4>2. CASE n = m /\ (Refresh(n) \/ LdmIoctl(n) \/ Noted(n))
        BY <2>1, <4>2, OwnKeeps
      <4>3. ASSUME n = m, NEW target \in Ids, NEW remove \in BOOLEAN, Call(n, target, remove)
            PROVE  Frame(m)' /\ (Undisturbed(m)' => Truth(m)')
        BY <2>1, <4>3, CallKeeps
      <4> QED
        BY <3>1, <4>1, <4>2, <4>3
    <3>2. CASE \/ \E d \in Ids : Expand(d) \/ OpenOrClose(d) \/ ComeOrGo(d)
               \/ Revalidate \/ AskForRefresh \/ UNCHANGED vars
      BY <2>1, <3>2, DisksKeep
    <3> QED
      BY <3>1, <3>2 DEF Next
  <2> QED
    BY <2>1, <2>2, <2>3
<1>3. QueryInv => LoneQueryTellsTheTruth
  BY DEF Undisturbed, Truth, LoneQueryTellsTheTruth, AnswerIsTrue
<1> HIDE DEF QueryInv
<1> QED
  BY <1>1, <1>2, <1>3, PTL DEF Spec
=============================================================================
