----------------------------- MODULE Management -----------------------------
(***************************************************************************)
(* What management tools ask of the driver, next to reading /proc (the     *)
(* window of ProcInfo): the text of /proc itself, made from the devices    *)
(* the LDM knows (hpt_proc_get_info), the ioctls written to /proc          *)
(* (hpt_proc_set_info), the disk ioctls of hdparm and smartctl             *)
(* (hpt_scsi_ioctl), and hpt_stop_tasks, which hpt_cleanup and hpt_halt    *)
(* call.  All of them are loops and recursions around hpt_do_ioctl, which  *)
(* sleeps: between two of its calls devices vanish and tasks end.  The     *)
(* recursion over the members of arrays is a list of work, its head first. *)
(***************************************************************************)
EXTENDS ProcInfo, FiniteSets, TLC

CONSTANTS
  Physical,         \* the ids of the disks, in the LDM's order; 0 is no id
  Members,          \* the arrays, and the ids of their members
  Target,           \* TransformTarget if a is its own TransformSource, or 0
  Logical,          \* what the LDM lists as logical devices, in its order
  Here,             \* devices whose VBusId is this host's
  Controllers,      \* for each controller, is it in this host's hba_list
  Vdevs,            \* the vdevs at the targets, with what they are made of
  Running,          \* the tasks the arrays may be running
  StopIds,          \* the size of ids in hpt_stop_tasks, 32
  Header, Data,     \* sizeof(IDE_PASS_THROUGH_HEADER), and of a sector
  MaxCalls, MaxVanish   \* bounds: calls, and devices that go away

Arrays == DOMAIN Members
Devices == {Physical[k] : k \in DOMAIN Physical} \cup Arrays

Tasks == {"rebuild", "verify", "initialize", "transform"}

ASSUME ManagementAssumption ==
  /\ Physical \in Seq(Devices) /\ Logical \in Seq(Devices) /\ Controllers \in Seq(BOOLEAN)
  /\ Members \in [Arrays -> Seq(Devices \cup {0})]
  /\ Running \subseteq [Arrays -> SUBSET Tasks]
  /\ Target \in [Arrays -> Devices \cup {0}] /\ 0 \notin Devices
  /\ Here \subseteq Devices /\ StopIds \in Nat \ {0}
  /\ Header \in Nat /\ Header >= 8        \* 16 bytes, 8 of them are copied back
  /\ Data \in Nat \ {0} /\ MaxCalls \in Nat /\ MaxVanish \in Nat

VARIABLES
  there, tasks,     \* the LDM's devices, and the tasks on the arrays
  calls, call,      \* calls made so far; the one that runs, and where it is
  work, listed,     \* its recursion; the ids hpt_stop_tasks works from
  lines,            \* the lines of devices printed, and for which
  asked,            \* SET_ARRAY_STATE requests made: array and task
  arg,              \* the ioctl of a tool: sizes and areas
  heap,             \* how many blocks of each kmalloc are allocated
  lost              \* calls that left before kfree(ids)

mvars == <<there, tasks, calls, call, work, listed, lines, asked, arg, heap, lost>>

NoArg == [nIn |-> 0, nOut |-> 0, size |-> 0, copydata |-> 0, protocol |-> "none",
          lpIn |-> FALSE, lpOut |-> FALSE]

ManagementInit ==
  /\ Init
  /\ there = Devices /\ tasks \in Running
  /\ calls = 0 /\ call = "none" /\ work = <<>> /\ listed = <<>> /\ lines = <<>>
  /\ asked = {} /\ arg = NoArg /\ lost = 0
  /\ heap = [b \in {"ids", "in", "out", "buff"} |-> 0]

Item(do, id, indent) == [do |-> do, id |-> id, indent |-> indent]
Items(do, ids, indent) == [k \in DOMAIN ids |-> Item(do, ids[k], indent)]
FirstOf(ids, n) == SubSeq(ids, 1, Smaller(n, Len(ids)))

(* Those of the ids that are in S, in their order: the j-th is the one     *)
(* that j of them do not come after.                                       *)
Those(ids, S) ==
  LET at == {k \in DOMAIN ids : ids[k] \in S}
  IN  [j \in 1 .. Cardinality(at) |->
         ids[CHOOSE k \in at : Cardinality({i \in at : i <= k}) = j]]

There(ids) == Those(ids, there)
DEVICEID_VALID(ids) == Those(ids, Devices)

(* The LDM between two requests: a device goes away, a task ends.          *)
Vanish ==
  /\ call \in {"dump", "stop"} /\ Cardinality(Devices \ there) < MaxVanish
  /\ \E d \in there : there' = there \ {d}
  /\ UNCHANGED <<tasks, calls, call, work, listed, lines, asked, arg, heap, lost>>

TaskEnds ==
  /\ call = "stop"
  /\ \E a \in Arrays : \E t \in tasks[a] : tasks' = [tasks EXCEPT ![a] = @ \ {t}]
  /\ UNCHANGED <<there, calls, call, work, listed, lines, asked, arg, heap, lost>>

Return ==
  /\ call' = "none" /\ arg' = NoArg
  /\ work' = <<>> /\ listed' = <<>> /\ lines' = <<>> /\ asked' = {}
Enter(c) == call = "none" /\ calls < MaxCalls /\ calls' = calls + 1 /\ call' = c

-----------------------------------------------------------------------------
(* hpt_proc_get_info, with a controller and memory for ids.                *)
GetInfo ==
  /\ Enter("dump")
  /\ heap' = [heap EXCEPT !["ids"] = @ + 1]
  /\ work' = <<Item("physical", 0, 0)>>
  /\ UNCHANGED <<there, tasks, listed, lines, asked, arg, lost>>

Doing(do) == work # <<>> /\ Head(work).do = do

(* hpt_get_physical_devices.  If it fails the function returns at once.    *)
GetPhysicalDevices ==
  /\ Doing("physical")
  /\ work' = Items("con", [j \in DOMAIN Controllers |-> j], 0) \o <<Item("logical", 0, 0)>>
  /\ listed' = There(Physical)
  /\ UNCHANGED <<there, tasks, calls, call, lines, asked, arg, heap, lost>>

GetPhysicalDevicesFails ==
  /\ Doing("physical")
  /\ Return
  /\ lost' = lost + 1
  /\ UNCHANGED <<there, tasks, calls, heap>>

(* One turn of the loop over the controllers; info may fail.               *)
GetControllerInfo ==
  /\ Doing("con")
  /\ \E found \in {FALSE, Controllers[Head(work).id]} :
       work' = (IF found THEN Items("phys", listed, 0) ELSE <<>>) \o Tail(work)
  /\ UNCHANGED <<there, tasks, calls, call, listed, lines, asked, arg, heap, lost>>

GetLogicalDevices ==
  /\ Doing("logical")
  /\ \E got0 \in {<<>>, There(Logical)} :     \* count = -1: nothing is printed
       work' = Items("log", got0, 0) \o Tail(work)
  /\ UNCHANGED <<there, tasks, calls, call, listed, lines, asked, arg, heap, lost>>

(* The loops' own look at a device, for the bus it is on.                  *)
GetDeviceInfo ==
  /\ Doing("phys") \/ Doing("log")
  /\ LET id == Head(work).id
     IN  /\ work' = (IF id \in there \cap Here THEN <<Item("dev", id, 0)>> ELSE <<>>) \o Tail(work)
         /\ lines' = IF id \notin there /\ Doing("log")
                     THEN Append(lines, [id |-> id, indent |-> 0, known |-> FALSE]) ELSE lines
  /\ UNCHANGED <<there, tasks, calls, call, listed, asked, arg, heap, lost>>

Children(id) == DEVICEID_VALID(Members[id])
                \o (IF Target[id] # 0 THEN <<Target[id]>> ELSE <<>>)

(* Mutant of DumpDevinfo: the members wait until the others are printed.   *)
DumpMembersLast ==
  /\ Doing("dev")
  /\ LET id == Head(work).id  indent == Head(work).indent
     IN  /\ lines' = Append(lines, [id |-> id, indent |-> indent, known |-> id \in there])
         /\ work' = Tail(work)
                    \o (IF id \in there \cap Arrays THEN Items("dev", Children(id), indent + 1) ELSE <<>>)
  /\ UNCHANGED <<there, tasks, calls, call, listed, asked, arg, heap, lost>>

(* hpt_dump_devinfo: the line of a device, then its members and, for the   *)
(* source of a transformation, the target; "Missing" names no device.      *)
DumpDevinfo ==
  /\ Doing("dev")
  /\ LET id == Head(work).id  indent == Head(work).indent
     IN  /\ lines' = Append(lines, [id |-> id, indent |-> indent, known |-> id \in there])
         /\ work' = (IF id \in there \cap Arrays THEN Items("dev", Children(id), indent + 1) ELSE <<>>)
                    \o Tail(work)
  /\ UNCHANGED <<there, tasks, calls, call, listed, asked, arg, heap, lost>>

FreeIds ==
  /\ call = "dump" /\ work = <<>>
  /\ Return
  /\ heap' = [heap EXCEPT !["ids"] = @ - 1]
  /\ UNCHANGED <<there, tasks, calls, lost>>

-----------------------------------------------------------------------------
(* hpt_stop_tasks: the first StopIds - 1 logical devices, or none.         *)
StopTasks ==
  /\ Enter("stop")
  /\ \E ids \in {<<>>, FirstOf(There(Logical), StopIds - 1)} :
       /\ listed' = ids
       /\ work' = Items("stop", ids, 0)
  /\ UNCHANGED <<there, tasks, lines, asked, arg, heap, lost>>

(* The task __hpt_stop_tasks aborts: one, the first of the flags it tests. *)
RunningTask(id) ==
  LET order == <<"rebuild", "verify", "initialize", "transform">>
      on == {k \in DOMAIN order : order[k] \in tasks[id]}
  IN  IF on = {} THEN "none" ELSE order[CHOOSE k \in on : \A j \in on : k <= j]

(* No device, no array, no task: back to the caller, members not visited.  *)
StopInfo ==
  /\ Doing("stop")
  /\ LET id == Head(work).id
     IN  work' = (IF id \in there \cap Arrays /\ RunningTask(id) # "none"
                  THEN <<Item(RunningTask(id), id, 0)>> ELSE <<>>) \o Tail(work)
  /\ UNCHANGED <<there, tasks, calls, call, listed, lines, asked, arg, heap, lost>>

(* SET_ARRAY_STATE: it aborts the task, or fails; then the members.        *)
SetArrayState ==
  /\ Doing("rebuild") \/ Doing("verify") \/ Doing("initialize") \/ Doing("transform")
  /\ LET id == Head(work).id  task == Head(work).do
     IN  /\ asked' = asked \cup {<<id, task>>}
         /\ tasks' \in {tasks, [tasks EXCEPT ![id] = @ \ {task}]}
         /\ work' = Items("stop", DEVICEID_VALID(Members[id]), 0) \o Tail(work)
  /\ UNCHANGED <<there, calls, call, listed, lines, arg, heap, lost>>

StopReturns ==
  /\ call = "stop" /\ work = <<>>
  /\ Return
  /\ UNCHANGED <<there, tasks, calls, heap, lost>>

-----------------------------------------------------------------------------
(* hpt_proc_set_info, once magic, user buffers and sizes were accepted;    *)
(* everything else is -EINVAL.  memset clears both pointers.  The limit on *)
(* the 32-bit sum of the sizes is not modelled: no property is about it.   *)
SetInfo ==
  /\ Enter("write:in")
  /\ \E nIn, nOut \in {0, Data} : arg' = [NoArg EXCEPT !.nIn = nIn, !.nOut = nOut]
  /\ UNCHANGED <<there, tasks, work, listed, lines, asked, heap, lost>>

(* kmalloc of lpInBuffer, if it has a size, and copy_from_user.            *)
MapIn ==
  /\ call = "write:in"
  /\ \/ /\ arg.nIn = 0 /\ call' = "write:out"
        /\ UNCHANGED <<arg, heap>>
     \/ /\ arg.nIn # 0 /\ call' = "write:invalid"
        /\ UNCHANGED <<arg, heap>>
     \/ /\ arg.nIn # 0 /\ call' \in {"write:out", "write:invalid"}
        /\ arg' = [arg EXCEPT !.lpIn = TRUE]
        /\ heap' = [heap EXCEPT !["in"] = @ + 1]
  /\ UNCHANGED <<there, tasks, calls, work, listed, lines, asked, lost>>

MapOut ==
  /\ call = "write:out"
  /\ \/ /\ arg.nOut = 0 /\ call' = "write:ioctl"
        /\ UNCHANGED <<arg, heap>>
     \/ /\ arg.nOut # 0 /\ call' = "write:invalid"
        /\ UNCHANGED <<arg, heap>>
     \/ /\ arg.nOut # 0 /\ call' = "write:ioctl"
        /\ arg' = [arg EXCEPT !.lpOut = TRUE]
        /\ heap' = [heap EXCEPT !["out"] = @ + 1]
  /\ UNCHANGED <<there, tasks, calls, work, listed, lines, asked, lost>>

(* hpt_do_ioctl and the copies back: all went well, or goto invalid.       *)
WriteIoctl ==
  /\ call = "write:ioctl" /\ call' \in {"write:ok", "write:invalid"}
  /\ UNCHANGED <<there, tasks, calls, work, listed, lines, asked, arg, heap, lost>>

(* Mutant of FreeBuffers: the error path forgets the output buffer.        *)
FreeInputOnly ==
  /\ call \in {"write:ok", "write:invalid"}
  /\ heap' = [heap EXCEPT !["in"] = IF arg.lpIn THEN @ - 1 ELSE @,
                          !["out"] = IF arg.lpOut /\ call = "write:ok" THEN @ - 1 ELSE @]
  /\ Return
  /\ UNCHANGED <<there, tasks, calls, lost>>

FreeBuffers ==
  /\ call \in {"write:ok", "write:invalid"}
  /\ heap' = [heap EXCEPT !["in"] = IF arg.lpIn THEN @ - 1 ELSE @,
                          !["out"] = IF arg.lpOut THEN @ - 1 ELSE @]
  /\ Return
  /\ UNCHANGED <<there, tasks, calls, lost>>

-----------------------------------------------------------------------------
(* hpt_scsi_ioctl_get_diskid for the target of the SCSI device: the raw    *)
(* disk behind an array of one disk and behind a partition.                *)
HasDiskid(vdev) ==
  LET member == IF vdev.type = "array" /\ Len(vdev.of) = 1 THEN vdev.of[1] ELSE vdev
      disk == IF member.type = "partition" THEN member.of[1] ELSE member
  IN  disk.type = "raw"

(* For cmd 0x3ff what the LDM reports at the channel and the index given,  *)
(* counted from 1.  Devices has 15 elements: the 16th may be any number.   *)
HasChannelDisk(index) == index \in 1 .. 16

(* hpt_do_disk_ioctl's table: what is sent and how much comes back.        *)
Command(protocol, copydata, nIn, nOut) ==
  [NoArg EXCEPT !.protocol = protocol, !.copydata = copydata, !.nIn = nIn, !.nOut = nOut]

CommandTable ==
  {Command("read", Data, Header, Data + Header),    \* GET_IDENTITY, IDENTIFY, SMART reads
   Command("none", 0, Header, Header),              \* other DRIVER_CMDs, SMART status
   Command("none", 0, 0, 0),                        \* other DRIVER_TASKs
   Command("write", Data, Data + Header, Header),   \* SMART write log
   Command("write", 0, 0, 0)}                       \* other DRIVER_TASKFILEs

(* Mutant of BuffSize: one header, where the answer has its own.           *)
BuffSizeOneHeader(copydata) == copydata + Header

BuffSize(copydata) == copydata + 2 * Header

(* hpt_scsi_ioctl: without a disk id, or memory, it is -EINVAL.            *)
ScsiIoctl ==
  /\ Enter("disk:in")
  /\ \/ \E vdev \in Vdevs : HasDiskid(vdev)
     \/ \E index \in 0 .. 17 : HasChannelDisk(index)
  /\ \E c \in CommandTable : arg' = [c EXCEPT !.size = BuffSize(c.copydata)]
  /\ heap' = [heap EXCEPT !["buff"] = @ + 1]
  /\ UNCHANGED <<there, tasks, work, listed, lines, asked, lost>>

(* The data to write, at the first header's end, then the header itself.   *)
DiskIn ==
  /\ call = "disk:in"
  /\ call' \in IF arg.protocol = "write" /\ arg.copydata # 0
               THEN {"disk:ioctl", "disk:free"} ELSE {"disk:ioctl"}
  /\ UNCHANGED <<there, tasks, calls, work, listed, lines, asked, arg, heap, lost>>

(* hpt_do_ioctl, and the copies to the user whatever its result is.        *)
DiskIoctl ==
  /\ call = "disk:ioctl" /\ call' \in {"disk:out", "disk:free"}
  /\ UNCHANGED <<there, tasks, calls, work, listed, lines, asked, arg, heap, lost>>

DiskFree ==
  /\ call \in {"disk:out", "disk:free"}
  /\ heap' = [heap EXCEPT !["buff"] = @ - 1]
  /\ Return
  /\ UNCHANGED <<there, tasks, calls, lost>>

-----------------------------------------------------------------------------
(* Bad magic, areas or sizes; no controller; no disk; no memory.           *)
Refused ==
  /\ call = "none" /\ calls < MaxCalls /\ calls' = calls + 1
  /\ UNCHANGED <<there, tasks, call, work, listed, lines, asked, arg, heap, lost>>

Manage ==
  \/ Vanish \/ TaskEnds \/ Refused
  \/ GetInfo \/ GetPhysicalDevices \/ GetPhysicalDevicesFails \/ GetControllerInfo
  \/ GetLogicalDevices \/ GetDeviceInfo \/ DumpDevinfo \/ FreeIds
  \/ StopTasks \/ StopInfo \/ SetArrayState \/ StopReturns
  \/ SetInfo \/ MapIn \/ MapOut \/ WriteIoctl \/ FreeBuffers
  \/ ScsiIoctl \/ DiskIn \/ DiskIoctl \/ DiskFree

(* hpt_proc_info26: a reader's window, or a tool's call.  The reader here  *)
(* begins when the calls are over; they share no state.                    *)
ManagementNext ==
  \/ call = "none" /\ Next /\ UNCHANGED mvars
  \/ ~reading /\ got = <<>> /\ Manage /\ UNCHANGED vars

ManagementSpec ==
  ManagementInit /\ [][ManagementNext]_<<vars, mvars>> /\ WF_<<vars, mvars>>(ManagementNext)

-----------------------------------------------------------------------------
(* When no call runs every block that it allocated has been freed, on the  *)
(* error paths too.  The exception is the code's: hpt_proc_get_info leaves *)
(* without kfree(ids) when hpt_get_physical_devices fails.                 *)
NothingLeftOver ==
  call = "none" => heap = [b \in DOMAIN heap |-> IF b = "ids" THEN lost ELSE 0]

(* What hpt_do_disk_ioctl gives the LDM to read, what it lets it write and *)
(* what it copies to the caller lie in buff, and the data for the caller   *)
(* in the part that the LDM was given to write.                            *)
AreasInBuffer ==
  call = "disk:ioctl" =>
    /\ arg.nIn <= arg.size /\ Header + arg.nOut <= arg.size
    /\ Header + 8 <= arg.size
    /\ arg.protocol = "read" => /\ 2 * Header + arg.copydata <= arg.size
                                /\ Header + arg.copydata <= arg.nOut

(* When hpt_stop_tasks returns, every task that still runs was asked to    *)
(* stop: hpt_cleanup and hpt_halt call it to "stop all ctl tasks".  It     *)
(* does not hold: an array's second task, the members of an array that is  *)
(* not at work and what does not fit into ids are left out.                *)
AllTasksAsked ==
  call = "stop" /\ work = <<>> /\ listed # <<>> =>
    \A id \in there \cap Arrays : \A task \in tasks[id] : <<id, task>> \in asked

(* The text is the forest of the devices: below the line of an array come, *)
(* one level deeper and in their order, all its members and the target of  *)
(* its transformation, each with its own below it.                         *)
ListsTheForest ==
  call = "dump" /\ work = <<>> =>
    \A k \in {j \in DOMAIN lines : lines[j].known /\ lines[j].id \in Arrays} :
      LET below == {j \in k + 1 .. Len(lines) :
                      \A i \in k + 1 .. j : lines[i].indent > lines[k].indent}
          children == DEVICEID_VALID([j \in DOMAIN lines |->
                                   IF j \in below /\ lines[j].indent = lines[k].indent + 1
                                   THEN lines[j].id ELSE 0])
      IN  children = Children(lines[k].id)
=============================================================================
