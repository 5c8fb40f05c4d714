------------------------------ MODULE CmdPool ------------------------------
(***************************************************************************)
(* A command pool: struct freelist (freelist_reserve, freelist_get,        *)
(* freelist_put), its filling and freeing by hpt_alloc_mem and             *)
(* hpt_free_mem, and the reservation protocol of ldm.h on top of it.  A    *)
(* request allocates one COMMAND and reserves the further ones it may      *)
(* need (ldm_alloc_cmds); it takes them later, in a completion or a task,  *)
(* with CMD_GROUP_GET, where there is no error path.                       *)
(*                                                                         *)
(* All operations run under vbus_ext->lock, or before and after the vbus   *)
(* is in service, so each is one action.  count is lowered when commands   *)
(* are reserved, the list itself when they are taken.                      *)
(***************************************************************************)
EXTENDS Naturals, FiniteSets

CONSTANTS
  Block,       \* the memory blocks kmalloc may return for this list
  Reserved,    \* the count given to freelist_reserve
  Group,       \* requests that may be outstanding at a time
  MaxPerRequest  \* the largest cmds_per_request of a device

ASSUME CmdPoolAssumption ==
  /\ IsFiniteSet(Block) /\ IsFiniteSet(Group)
  /\ Reserved \in Nat
  /\ MaxPerRequest \in Nat \ {0}

VARIABLES
  phase,     \* "filling" (hpt_alloc_mem), "out_of_memory", "in_service", "freed"
  count,     \* list->count
  list,      \* the blocks linked from list->head
  held,      \* the blocks each request holds
  grpcnt,    \* cmd->grpcnt of its first command; 0: the request is not there
  filled     \* the loop counter i of hpt_alloc_mem

vars == <<phase, count, list, held, grpcnt, filled>>

HeldBlocks == UNION {held[g] : g \in Group}

(* freelist_reserve: the count is set before there is any block.           *)
Init ==
  /\ phase = "filling"
  /\ count = Reserved
  /\ list = {}
  /\ held = [g \in Group |-> {}]
  /\ grpcnt = [g \in Group |-> 0]
  /\ filled = 0

-----------------------------------------------------------------------------
(* hpt_alloc_mem: one kmalloc, which may fail.                             *)
Fill ==
  /\ phase = "filling" /\ filled < count
  /\ \/ \E b \in Block \ list :
          /\ list' = list \cup {b}
          /\ filled' = filled + 1
          /\ UNCHANGED phase
     \/ /\ phase' = "out_of_memory"
        /\ UNCHANGED <<list, filled>>
  /\ UNCHANGED <<count, held, grpcnt>>

StartService ==
  /\ phase = "filling" /\ filled = count
  /\ phase' = "in_service"
  /\ UNCHANGED <<count, list, held, grpcnt, filled>>

(* Mutants of AllocCmds: one command too few is reserved; one free command *)
(* is taken to be enough for n; the block stays at list->head.             *)
AllocReservesLess(g, n) ==
  /\ phase = "in_service" /\ grpcnt[g] = 0 /\ count >= n
  /\ \E b \in list : list' = list \ {b} /\ held' = [held EXCEPT ![g] = {b}]
  /\ grpcnt' = [grpcnt EXCEPT ![g] = n]
  /\ count' = count - (n - 1)
  /\ UNCHANGED <<phase, filled>>

AllocLooksForOne(g, n) ==
  /\ phase = "in_service" /\ grpcnt[g] = 0 /\ count >= 1
  /\ \E b \in list : list' = list \ {b} /\ held' = [held EXCEPT ![g] = {b}]
  /\ grpcnt' = [grpcnt EXCEPT ![g] = n]
  /\ count' = IF count >= n THEN count - n ELSE 0
  /\ UNCHANGED <<phase, filled>>

AllocKeepsHead(g, n) ==
  /\ phase = "in_service" /\ grpcnt[g] = 0 /\ count >= n
  /\ \E b \in list : held' = [held EXCEPT ![g] = {b}]
  /\ grpcnt' = [grpcnt EXCEPT ![g] = n]
  /\ count' = count - n
  /\ UNCHANGED <<phase, list, filled>>

(* ldm_alloc_cmds(vbus, n), all or nothing: with too few commands that are *)
(* not reserved it returns 0 and its caller reports the host busy.  The    *)
(* block taken is the one at list->head.                                   *)
AllocCmds(g, n) ==
  /\ phase = "in_service"
  /\ grpcnt[g] = 0
  /\ count >= n
  /\ \E b \in list :
       /\ list' = list \ {b}
       /\ held' = [held EXCEPT ![g] = {b}]
  /\ grpcnt' = [grpcnt EXCEPT ![g] = n]
  /\ count' = count - n
  /\ UNCHANGED <<phase, filled>>

(* CMD_GROUP_GET: count++, then freelist_get, which lowers it again.       *)
GroupGet(g) ==
  /\ phase = "in_service"
  /\ grpcnt[g] > Cardinality(held[g])
  /\ \E b \in list :
       /\ list' = list \ {b}
       /\ held' = [held EXCEPT ![g] = held[g] \cup {b}]
  /\ UNCHANGED <<phase, count, grpcnt, filled>>

(* CMD_GROUP_PUT: freelist_put, then count--.                              *)
GroupPut(g) ==
  /\ phase = "in_service"
  /\ Cardinality(held[g]) > 1
  /\ \E b \in held[g] :
       /\ list' = list \cup {b}
       /\ held' = [held EXCEPT ![g] = held[g] \ {b}]
  /\ UNCHANGED <<phase, count, grpcnt, filled>>

(* Mutant of FreeCmds: only the command itself is counted again.           *)
FreeCountsOne(g) ==
  /\ phase = "in_service"
  /\ Cardinality(held[g]) = 1
  /\ list' = list \cup held[g]
  /\ held' = [held EXCEPT ![g] = {}]
  /\ count' = count + 1
  /\ grpcnt' = [grpcnt EXCEPT ![g] = 0]
  /\ UNCHANGED <<phase, filled>>

(* ldm_free_cmds: the reservation goes back with the last command.         *)
FreeCmds(g) ==
  /\ phase = "in_service"
  /\ Cardinality(held[g]) = 1
  /\ list' = list \cup held[g]
  /\ held' = [held EXCEPT ![g] = {}]
  /\ count' = count + grpcnt[g]
  /\ grpcnt' = [grpcnt EXCEPT ![g] = 0]
  /\ UNCHANGED <<phase, filled>>

(* hpt_free_mem: blocks are freed as long as count allows, so those        *)
(* reserved by a request that is still there stay in the list.             *)
FreeMem ==
  /\ phase = "in_service"
  /\ \E F \in SUBSET list : /\ Cardinality(F) = count
                            /\ list' = list \ F
  /\ count' = 0
  /\ phase' = "freed"
  /\ UNCHANGED <<held, grpcnt, filled>>

Next ==
  \/ Fill \/ StartService \/ FreeMem
  \/ \E g \in Group : \/ GroupGet(g) \/ GroupPut(g) \/ FreeCmds(g)
                      \/ \E n \in 1 .. MaxPerRequest : AllocCmds(g, n)

Spec == Init /\ [][Next]_vars

-----------------------------------------------------------------------------
(* Types.                                                                  *)
TypeOK ==
  /\ phase \in {"filling", "out_of_memory", "in_service", "freed"}
  /\ count \in 0 .. Reserved
  /\ list \in SUBSET Block
  /\ held \in [Group -> SUBSET Block]
  /\ grpcnt \in [Group -> 0 .. MaxPerRequest]
  /\ filled \in 0 .. Reserved

(* freelist_get asserts list->head when count is not 0 and would follow a  *)
(* null pointer otherwise.  In service, a count that is not 0 has a block  *)
(* behind it, ...                                                          *)
HeadBehindCount == phase = "in_service" /\ count > 0 => list # {}

(* ... and so has every command a request has reserved and not taken:      *)
(* CMD_GROUP_GET, which cannot fail, finds a block whatever the others     *)
(* have allocated, taken and put back since the reservation.               *)
ReservationHonoured ==
  phase = "in_service" =>
    \A g \in Group : grpcnt[g] > Cardinality(held[g]) => list # {}

(* A block is in the list or with one request, never in two places.        *)
OneOwner ==
  /\ \A g \in Group : held[g] \cap list = {}
  /\ \A g, h \in Group : g # h => held[g] \cap held[h] = {}

(* hpt_free_mem frees as many blocks as count says: the whole list, if no  *)
(* request is outstanding.                                                 *)
QuietFreeLeaksNothing ==
  phase = "freed" /\ (\A g \in Group : grpcnt[g] = 0) => list = {}
=============================================================================
