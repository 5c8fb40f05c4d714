# A verification project for the rr62x driver

This directory holds TLA+ models of the open part of the HighPoint rr62x
driver, the OS-specific module in `src/osm/linux`, with the runs of TLC that
check them and proofs that TLAPS checks.  The RAID core (LDM) and the hardware
module (HIM) come as binary objects; they are external here and modelled from
the way the source uses them.

The code is full of `#if LINUX_VERSION_CODE`.  What is modelled is the build
for a kernel from 2.6.37 up to 3.8 on x86-64 with several CPUs, without `DBG`
(so `HPT_ASSERT` does nothing), and with `queuecommand` called under
`host_lock` (`DEF_SCSI_QCMD`).

## Inventory

| part | source | state | operations |
|---|---|---|---|
| deferred tasks, worker tasklet | `osm_linux.c` 219-261, 394-399, 1563-1566, 1611-1614; `os_linux.c` 586-607 | `vbus_ext->tasks`, `task->next`, `worker` | schedule, drain (worker, SCSI command, timed-out ioctl), start, disable |
| synchronous LDM requests | `osm_linux.c` 1642-1715 | `IOCTL_ARG`, semaphore and timer on the stack | submit, complete, time out, reset and wait again, next vbus |
| command pool | `os_linux.c` 115-192, `ldm.h` 47-84, 445-458, `osm_linux.c` 104-217 | `count` and list of a `struct freelist`, `grpcnt` | reserve, fill, allocate a group, take, put back, free |
| SCSI commands | `osm_linux.c` 608-1453 | the command, `mapped`, its COMMANDs | answer, refuse, queue, map, complete, reset |
| `/proc` output | `hptinfo.c` 11-54, 56-312 | `HPT_GET_INFO`, the id list | start a read, walk the devices, copy a piece, end it |
| flush of devices | `osm_linux.c` 1455-1549, 1568-1576, 1616-1624 | COMMAND, `Result`, semaphore, timer | flush source and target, time out, retry once |
| vbus life cycle | `osm_linux.c` 25-102, 263-402, 1551-1640, 2137-2190 | `vbus_ext->lock`, timer, IRQs, hosts, memory | detect, hand the lock over, halt, clean up |
| device flags, hot plug | `os_linux.c` 328-473, 578-584, `osm_linux.c` 1659-1666 | `sd_flags`, `needs_refresh`, work items | revalidate, refresh, add and remove devices |
| scatter/gather lists | `osm_linux.c` 696-855 | - | build the logical or the physical list |
| answers and decoding | `osm_linux.c` 404-606, 997-1122, 1124-1391 | what the disk driver has learned | INQUIRY, capacities, mode sense, LBA decoding |
| `/proc` commands, background tasks | `osm_linux.c` 1718-1820, `hptinfo.c` 315-358 | buffers, array states | ioctl written to `/proc`; stop rebuild, verify, initialise |
| memory | `osm_linux.c` 104-217, `os_linux.c` 156-192 | DMA lists, page pool | allocate, take, give back, free |
| timers and time | `os_linux.c` 614-640, `ldm.h` 42-43 | `vbus_ext->timer` | request, expire, compare |
| disk ioctl | `osm_linux.c` 1838-2089 | one buffer for header, input and output | ATA pass-through and info ioctls by way of `hpt_do_ioctl` |

How the parts meet: everything that enters the LDM does so under one lock per
vbus, `*vbus_ext->lock`, from six kinds of context: the interrupt handler, the
LDM's timer, the worker tasklet, `queuecommand` and the error handler of the
SCSI mid layer, processes in ioctl or `/proc`, and module load and unload.  The
LDM calls back, also under the lock: `os_schedule_task`, `os_request_timer`,
`os_revalidate_device`, `buildsgl` and `done`.  What is hard in the code is
what happens beside that lock: the thread that starts and stops a vbus does not
take it, processes sleep without it, timers fire without it, and the mid layer
has its own view of what is finished.

What makes each part correct: a task is run once, in order, and never left
behind; an ioctl returns, with its own answer, and the LDM has let go of its
request by then; a command that was allocated can take all the COMMANDs it
reserved, and every one comes back; a SCSI command is completed exactly once
and transfers only to memory that is mapped; the reader of `/proc` sees the
text once, and the devices in it as the tree they are; a flush that failed is
tried again; two contexts are never in the LDM at the same time, and none is
after the vbus is gone; what the disk driver learns from the answers is what
the LDM later understands of its commands; a query about a disk tells whether
it is in use, and an expansion reaches the block device; memory the LDM has
taken lies in pages that are allocated, and an unload frees them all.

## The modules

| module | models | composition |
|---|---|---|
| `TaskQueue` | task list, drainers, tasklet, its start and stop | implements `Fifo` |
| `SyncRequest` | `hpt_do_ioctl`, `__hpt_do_ioctl`, `hpt_ioctl_done`, `hpt_ioctl_timeout` | implements `IoctlCall` |
| `CmdPool` | `struct freelist`, `hpt_alloc_mem`, `hpt_free_mem`, `CMD_GROUP_GET/PUT` | its count is `avail` in `ScsiCommand` |
| `ScsiCommand` | `hpt_queuecommand_lck`, `os_cmddone`, `os_buildsgl` (mapping), `hpt_reset` | |
| `SgList` | `os_buildsgl` (the list) | the step `BuildSgl` of `ScsiCommand` |
| `ProcInfo` | `hpt_proc_get_info` and the window of `hptinfo.c` | |
| `FlushVdev` | `hpt_flush_vdev`, `hpt_flush_done`, the loops of `hpt_cleanup`, `hpt_halt` | |
| `VbusLock` | `vbus_ext->lock` of every vbus from `hpt_detect` to `hpt_cleanup` | the steps around the flush and the tasklet |
| `HostLife` | load, hot-plug work, unload: hosts, interrupts, pages, DMA lists | the same functions as `VbusLock`, with memory and without the lock |
| `SdFlags` | `refresh_sd_flags`, `os_revalidate_device`, `os_query_remove_device` | before the ioctl of `SyncRequest` |
| `ScsiAnswers` | answers and decoding of `hpt_queuecommand_lck`, `do_mode_sense`, with the disk driver | inside `Answer` and `Queue` of `ScsiCommand` |
| `Management` | `hpt_proc_get_info`, `hpt_dump_devinfo`, `hpt_stop_tasks`, `hpt_proc_set_info`, `hpt_scsi_ioctl`, `hpt_do_disk_ioctl` | extends `ProcInfo` |
| `Fifo`, `IoctlCall` | abstract: what the caller is promised | refined by the first two |
| `MCFlush` | the instance of `CmdPool` and `FlushVdev` | composes them: the flush of `hpt_cleanup` is one of the requests of the list |
| `MCScsiCommand` | the instance of the SCSI command path | `ScsiCommand`, `ScsiAnswers` and `SgList`, one at a time |
| `MC...` | the other instances TLC checks | |
| `..._proofs` | theorems and their proofs; `ScsiCommand_proofs` is also about `SgList` and `ScsiAnswers`, `Management_proofs` about `ProcInfo`, `Vbus_proofs` about `VbusLock` and `FlushVdev` | |

`SgList`, `FlushVdev`, `ScsiAnswers` and `Management` name their initial states,
next steps and specifications apart (`SgInit`, `FlushNext`, `AnswersSpec`,
`ManagementSpec`), so that a module of proofs, or an instance, can extend two of
them.

What the definitions stand for, line by line, is in the `map` of
`PROJECT.json`.  The main correspondences:

**TaskQueue.** `head` is `vbus_ext->tasks`, `next` the pointer of each
`OSM_TASK`, `todo` the local `tasks` of `__hpt_do_tasks`. A critical section is
entered by `Enter`, `QueueCommand`, `DoTasks`; inside it the LDM or a task may
call `os_schedule_task` any number of times, which is two steps: link
(`ScheduleTask`), then look at `worker.func` (`KickWorker`), since the thread
that stores `func` does not take the lock. `__hpt_do_tasks` is `Detach`, then
`RunTask` and `TaskReturn` per task. `sched`, `run`, `softq` are the kernel's
state of a tasklet, so that `tasklet_schedule` and `tasklet_kill` do what they
do and not what one would like. On x86 a store may be seen after a later load
by the same CPU: `CheckTasksEarly` and `StoreVisible` are the two statements
that end `hpt_detect` in that order.

**SyncRequest.**  `sem`, `timer` are the objects in the stack frame; `cmnd`,
`result` fields of `IOCTL_ARG`; `held` is what the LDM does with the request.  A
section under the lock is one action (`Submit`, `Reset`, `Finish`); what the
process does outside it is one action per call (`DownTrylock`, `AddTimer`,
`Down`, `DelTimer`), and so are the two halves of the timer callback, which may
run on another CPU and take as long as it likes (`TimerExpires`, `LateUp`).
`Done` is `hpt_ioctl_done`.  A reset may complete requests of other processes.

**CmdPool.**  `count` and `list` are the fields of the freelist; that they are
lowered at different times is the point of the module.  `AllocCmds` and
`FreeCmds` are `ldm_alloc_cmds` and `ldm_free_cmds`, which are in the binary
core: they are modelled as inverse to what `ldm.h` 445-458 does and as
`osm_linux.c` calls them.

**ScsiCommand.**  One action per way through `hpt_queuecommand_lck`: answered
at once, device started by a reset, refused for want of COMMANDs, refused by
the ATA pass-through checks, given to the LDM.  `mapped` is the flag in the
command's private area, `dma` whether the buffer really is mapped.  The mid
layer's side (when it issues, times out, recovers, retries) is external.

**SgList.**  One loop iteration per step; `psg` holds the descriptors.  `last`
is the C variable of that name.

**ProcInfo.**  The variables are the fields of `HPT_GET_INFO`; a character is
its position, so a lost, doubled or misplaced one is seen.

**FlushVdev.**  The wait is that of `SyncRequest`, and its steps are taken
together where `SyncRequest` shows the order not to matter.  In `MCFlush` its
COMMAND comes from the list of `CmdPool` while other requests are still at work:
`Submit` is a step together with `AllocCmds`, `Refused` stands for a list that
has too few, `Return` frees; the LDM takes what the flush has reserved and has
put it back when the flush is done.

**HostLife.**  `main` and `v` are the place of the thread in the loops of
loading and unloading.  Every allocation, registration and `scsi_add_host` may
fail.  `dma` and `pool` are what the free lists hold, `taken` what the LDM has
of them; `DiskChanges` and `SdChanged` are the event and the work item.  Memory
is DMA and cache pages and the vbus; what small blocks `kmalloc` gives are not
counted, apart from those of the tools, which `Management` counts.

**SdFlags.**  Every statement of `refresh_sd_flags` that reads or writes
something another context may change is an action: the flag, `needs_refresh`,
the open of the block device (`bd_openers`), the resize.  A `|=` or `&=` of
`sd_flags[id]` is a load (into `seen`) and a store (`Store`), between which
another processor may change the word.  Opening a block device may fail
(`OpenFails`) and so may the revalidation (in `Resize`); the code takes note of
neither.  `held` and `ever` remember, from the call to its answer, whether the
disk was open all or some of the time, `overlapped` whether another call ran
during it, `misled` whether its view was spoilt by a failed open or an
overwritten store, `lost` whether an expansion was.

**ScsiAnswers.**  `probe` is the disk driver's order of questions, `sd` what it
has learned; the answers and `pCmd` are the driver's.  Bytes have four values,
so that "more than 32 bits" begins at 256.

**Management.**  A call of a tool runs as a sequence of `hpt_do_ioctl` calls,
between which devices vanish and tasks end.  Recursion over the members of an
array is the list `work`.  `heap` counts the blocks of each `kmalloc`.
`SetInfo` takes a request whose lengths have passed the check of line 1756; the
sum in that check, which has 32 bits and may wrap, is not modelled.

**VbusLock.** `lock[v]` is the pointer of vbus `v`, `owner` the spinlocks the
pointers may lead to: one `host_lock` for each vbus, and `initlock`, the one
variable on the stack of `hpt_detect` that all vbuses share while they are
initialised, and that is initialised again for each of them (`InitLock`).
`main` and `cur` are the thread's place in the loops of `hpt_detect` and in
`hpt_cleanup`. A handler reads the pointer when it locks (`Start`, into `spun`)
and again when it unlocks (`Leave`); there are three for each vbus: the timer,
the tasklet, and `intr`, which stands for everything that takes the lock from
outside: `hpt_intr`, `queuecommand`, ioctls. When `hpt_detect` has returned,
who takes `initlock` may find it free whoever has it, since the stack is used
by others. `moved` notes the vbuses whose lock was initialised or moved while a
handler was under way with it, or was left on the stack; `revived` those whose
tasklet was scheduled between `tasklet_kill` and `func = 0`.

## The runs

| run | instance | distinct states | shows |
|---|---|---|---|
| `task_queue` | 3 tasks, 1 context of each kind | 7 598 | the list is well formed, tasks run once and in order, none is stranded while the worker is in service, each one is run |
| `worker_disable` | the same | violation | the tasklet may be called after `func = 0` |
| `ioctl` | 2 processes, 2 vbuses, 1 late callback each | 75 076 | no lost wakeup, no request outlives its frame, no reset without a timeout, every call returns, answers as if atomic |
| `scsi_commands` | 2 commands, 3 COMMANDs, up to 2 each, 1 retry; 6 capacities, 3 sector sizes; up to 3 segments around a 4 GB boundary | 189 687 | no command is lost or completed twice, COMMANDs and mappings come back, DMA only to mapped buffers, every command is finished; the disk driver learns the disk, its requests arrive as it meant them, mode and VPD pages fit their lengths and lists; the descriptors name the same bytes, have one end mark, and none that was merged is over the limit or across the boundary |
| `flush` | list of 4, 2 requests and the flush, up to 3 COMMANDs each; a plain device and a transforming array, 2 late callbacks | 786 445 | a reserved COMMAND is always there, blocks have one owner; the flush's COMMAND is freed when done, a device is flushed or tried twice, the loop ends |
| `vbus_lock` | 2 vbuses | 4 260 000 | one context in each LDM and nobody after the release, but for locks moved under a handler and tasklets revived |
| `vbus_lock_move` | 1 vbus | violation | a timer and an interrupt in the LDM together |
| `disk_flags` | 1 disk and one of another host, 2 managers | 5 918 069 (by symmetry) | a call that no other overlaps is answered truly, an expansion is not forgotten |
| `disk_query_overlap` | 1 disk, 2 managers | violation | a mounted disk is said to be safe to remove |
| `host_life` | 2 vbuses, 2 DMA lists, 1 cache page | 146 413 | what the LDM uses is allocated, unloading leaves nothing, the SCSI layer's disks are the LDM's |
| `management` | 3 disks, 4 arrays, 2 calls, 1 device vanishing | 394 878 | text in order and to its end, the devices as a tree, buffers freed, areas within buffers |
| `management_stop` | the same, none vanishing | violation | `hpt_stop_tasks` leaves arrays at work that it has not asked |

The runs that end in a violation show disagreements of the code with its own
comments, and are listed as findings:

* `worker_disable`: `tasklet_kill` and `worker.func = 0` (1565-1566) are two
  statements without the lock. An interrupt between them schedules a task, sees
  `func`, and schedules the tasklet, which is then called through null.
* `vbus_lock_move`: `hpt_detect` moves `vbus_ext->lock` (366) while an LDM
  timer may hold or wait for the old lock. The timer is then in the LDM under
  `initlock` and an interrupt under `host_lock`, which `osm_linux.h` 265-267
  says protects all entries. The same property fails in two more ways, which
  the run does not show since it stops at the first: line 318 initialises
  `initlock` for the next vbus while a timer of an earlier one holds it or
  waits for it, and where `scsi_register` fails (362) the pointer stays on a
  lock whose stack frame is gone.
* `disk_query_overlap`: nothing keeps the refresh of one ioctl from running
  between the refresh and the `ldm_ioctl` of another, where it clears `IN_USE`;
  `hptintf.h` 1809 has the query "check if device can be removed safely".
* `management_stop`: "stop all ctl tasks" (1563, 1611) does not reach the
  members of an array that is idle itself (`hptinfo.c` 336), nor what is beyond
  the ids that are asked for (351).

What holds beside these has its own properties: `ExclusiveUnlessMoved` and
`NothingAfterFree` for every vbus whose lock was at rest when `hpt_detect`
changed it, `LoneQueryTellsTheTruth` for a call that no other one overlaps.

Type invariants are checked where a proof rests on them, by the proof.

Two things one might expect do not hold.  They are not runs: of the first the
repository says nothing, and of the second no more than that the function is to
"flush, unregister, and free all resources of a vbus_ext" (`osm_linux.c` 1552).
A change of a configuration shows them.

* *A task at start* (`INVARIANT NoTaskStrandedAtInit` in `MCTaskQueue.cfg`).
  `hpt_detect` stores `worker.func` and loads `tasks` (395-398),
  `os_schedule_task` stores `tasks` and loads `func`: without a barrier or a
  common lock both may load the old value and neither schedules the tasklet.
  The task stays until a SCSI command drains the list.
* *The end of a cleanup* (`SPECIFICATION FairSpec`, `Vbuses = 1` and
  `PROPERTY CleanupEnds` in `VbusLock.cfg`).  `hpt_cleanup` calls
  `del_timer_sync` with the lock held (1580); an `os_timer_for_ldm` that has
  started waits for that lock, and neither goes on.

Some properties name exceptions the code has, and cover no more than they say.

* `RevalidationKept` leaves out (`lost`) an expansion whose flag the store of a
  refresh overwrites, one reported between the resize and the clearing of
  `REVALIDATE`, a disk that cannot be opened, and a revalidation that fails.
* `LoneQueryTellsTheTruth` leaves out (`misled`) a disk that cannot be opened
  and a call whose `IN_USE` is overwritten by `os_revalidate_device`.
* `HotPlugFollows` leaves out a lost work item and two changes of one disk that
  wait at the same time (`crossed`).
* `NothingLeftOver` leaves out the way out of `hpt_proc_get_info` at line 261,
  which does not free the ids.
* `FlushedOrRetried` is about the target of a flush: that a flush failed on the
  source of a transformation is forgotten by `hpt_flush_done` (1465).
* `NoDanglingRequest` is about the LDM's hold on a request. A late
  `hpt_ioctl_timeout` that raises a semaphore in a frame that is gone (1688) is
  a step without effect in the model, and nothing is said of it.
* `AllTried` is about a flush the LDM completes without deferred tasks.

### Bounds

Constants bound the number of actors and objects; nothing else is bounded but
`MaxLate` (timer callbacks that have started and not ended), `MaxRetries`
(retries by the mid layer), `MaxText` and `MaxPiece`. The lock makes further
interrupts or commands of the same kind indistinguishable from the first, so
one context of each kind is enough for `TaskQueue`, with three tasks so that
one is scheduled while two are being drained. Two processes are the smallest
number of which one can reset the other's request; two vbuses the smallest with
a next one. In `MCFlush` the two requests and the flush together want nine
COMMANDs and there are four, so that each may be refused for the others. In
`ScsiCommand` a command of size two leaves one COMMAND, so the other is served
or refused. Segments in `SgList` adjoin or not, are odd or even, fit the limit
of 6 or not, and end at, begin at or cross the boundary at 8. The buffer in
`ProcInfo` is shorter than the longest piece, and the text has every length
from 0 to three buffers.

`ScsiAnswers` has capacities just below, at and above the last that READ
CAPACITY (10) can give, and one above twice that; requests begin on both sides
of the limits of READ (6) and (10) and end at the last sector. `SdFlags` is run
with two managers, the smallest number that overlaps, and one disk, which the
scan reaches past a disk of another host; a scan that passes a second disk of
the vbus does the same, and the theorems are for any number of disks.
`VbusLock` has two vbuses, so that one is in service, or has its timer armed,
while the lock is initialised for the next; one is enough for the lock move.
`HostLife` has a list whose last page is not full and one of multi-page blocks;
two vbuses so that a failure of the second leaves the first. `Management` has a
nested array, a missing member, a transformation into another array, a disk of
another host and an array that does not fit into the ids of `hpt_stop_tasks`.
`MaxWork`, `MaxTaken`, `MaxCalls` and `MaxVanish` bound the counters.

Where a theorem exists the property does not depend on these bounds.

Deadlock is checked in most runs (in `MCFlush` and
`MCScsiCommand` a part that has come to its end stutters) and not where the
system may rightly stop: in `VbusLock` when the vbuses are gone or a cleanup
waits for the timer that waits for it, in `HostLife` when the driver is gone,
and in `Management` after the last call and the end of the file.

### Fairness and other assumptions

* Holders of a spinlock go on and leave; softirqs are run; a process that may
  run is scheduled: weak fairness of those steps. A context that waits for a
  spinlock gets it in the end (strong fairness of taking it), since x86 kernels
  of this range use ticket locks. No fairness is given to interrupts, new
  commands, ioctls or signals.
* Armed timers expire and their callbacks end.
* A reader of `/proc` reads on and tools go on calling until their bound is
  reached (weak fairness of the next step); `ReachesEof` needs no more.
* The LDM completes what it works on. A request may be stuck until a reset; of
  infinitely many resets one gets it going or fails it. Without this the loops
  in `__hpt_do_ioctl` and `hpt_flush_vdev` have no end.
* In `MCFlush` the fairness of the wait, the timer and the LDM's completion
  (`FlushFairness`) holds of the composition: `AllTried` is about a driver that
  was loaded, and an LDM that puts back what it took before a flush is done.
* The LDM does not need deferred tasks to complete a flush, which is sent when
  the worker is already stopped; and it arms no timer after `ldm_shutdown`.
* `FairSpec` of `VbusLock`, for `CleanupEnds` only: the cleanup's steps are
  taken when they can be, handlers in the LDM leave it, and who waits for a
  spinlock gets it if it is free again and again.
* `EveryTaskRuns` and `NoStrandedTask` are about a worker whose start was seen
  in order; `NoTaskStrandedAtInit` is the other case.

## What is proved

Every invariant of the passing runs, one action property and both refinements
are theorems, for every value of the constants that the assumptions of the
modules allow. Two have a hypothesis; it stands in the last column.

| module | about | theorem | says | if |
|---|---|---|---|---|
| `TaskQueue_proofs` | `TaskQueue` | `TypeCorrect`, `NoTaskIsStranded` | types; a queued task has a drain coming while the worker is in service | |
| | | `TasksAreListed` | no task is linked twice, and one in no list has a null pointer | |
| | | `Implementation` | `TaskQueue` implements `Fifo` | |
| `SyncRequest_proofs` | `SyncRequest` | `TypeCorrect`, `RequestsAreSafe`, `WakeupsAreKept` | types; no dangling request; no lost wakeup | |
| | | `OnlyTimeoutsReset` | action property: a reset only after a timeout | |
| | | `Implementation` | `SyncRequest` implements `IoctlCall` | |
| `CmdPool_proofs` | `CmdPool` | `ReservationsAreHonoured`, `CountIsBacked`, `BlocksAreOwned`, `QuietReleaseIsComplete` | the two sides of the reservation protocol, and the release | |
| `ScsiCommand_proofs` | `ScsiCommand` | `CommandsAreAccounted`, `CommandsLeakNothing`, `TransfersAreMapped` | a command is completed once; COMMANDs and mappings come back; DMA into mapped buffers only | |
| | `SgList` | `SgTypeCorrect`, `ListIsRight`, `EndIsMarked` | the scatter/gather list for any segments | |
| | `ScsiAnswers` | `PagesAreFilled`, `VpdListHolds` | mode pages and VPD pages are what their lengths and lists say | |
| | | `DisksAreKnown`, `RequestsAreCarried` | the disk driver learns the disk; the LDM gets the bytes that were asked for | `WholeBlocks` |
| `Management_proofs` | `ProcInfo` | `WindowIsRight` | types; the window is the part of the text asked for | |
| | `Management` | `TextInOrder` | the reader has the beginning of the text, also beside the calls of tools | |
| | | `CallsLeaveNothing`, `AreasFit` | buffers are freed; areas lie in the buffer | |
| | | `TheForestIsListed` | every array has its members and its target below its line | |
| `SdFlags_proofs` | `SdFlags` | `ExpansionsAreNoticed` | an expansion is not forgotten, whatever refreshes overlap, but for the four losses | |
| | | `QueriesAreTrue` | a call that no other overlaps refuses a removal if the disk was in use, and only then | |
| `HostLife_proofs` | `HostLife` | `ListsAreBacked` | what is in a list or with the LDM lies in allocated pages | |
| | | `UnloadIsClean`, `PlugFollows` | an unload leaves nothing; the SCSI layer's disks are the LDM's | |
| `Vbus_proofs` | `VbusLock` | `OneAtATime`, `NothingIsLeft` | exclusion and quiet end, for vbuses whose lock was at rest when it was changed | |
| | `FlushVdev` | `CommandIsSafe`, `WakeupIsKept`, `LeftIsFlushed` | the COMMAND is freed when done; no lost wakeup; flushed or tried twice | |

`WholeBlocks` says that no disk is smaller than one block of any of the sizes:
for a smaller one READ CAPACITY would announce block -1 as the last.

The provers have no scheme of induction over data.  Where a proof needs one it
takes a minimal counterexample: `SubsetInduction` (over the subsets of a finite
set, from the library's theorem that their strict order is well founded) and
`SetInduction` (over the numbers, from the first by initial segments).  That is
why the recursive definitions of `ScsiCommand` and `TaskQueue`, the sum over
the commands and the chain of pointers, are in reach.

The arguments:

* *No stranded task.* Inductive with `WorkerFlags`: until the worker is killed
  `TASKLET_STATE_SCHED` is set exactly when the tasklet is on a softirq list.
  So a `tasklet_schedule` that does nothing does so because a run that has not
  detached the list yet is coming. `tasklet_kill` breaks this, and that is
  where the property ends.
* *Lists and the queue.* `ListInv`: there is one sequence of distinct tasks
  whose first `k` hang on `todo` of the holder of the lock and the others on
  `head` (`Queued`). Scheduling adds at its end and leaves the walk from the
  first to the last task as it was; detaching makes `k` its length; running
  takes its first element and only then clears the pointer. `ChainsAre` shows
  that what the model reads off the pointers is this sequence, so there is only
  one; `Holder` (who is in a section holds the lock, and only the holder has a
  batch) is what makes `todo` of the others empty. The refinement maps the
  abstract queue to the sequence: `ScheduleTask` puts, `RunTask` takes, and
  every other step leaves it alone.
* *Requests.* `NoLostWakeup` and `NoDanglingRequest` are inductive together
  with the types: a completion needs a held request, a held request an
  unanswered frame, and the semaphore is initialised before the reset that may
  raise it. `OnlyTheTimerWakes` says that while a request is unanswered only
  the timer can have raised its semaphore.
* *Refinement of the ioctl.* The abstract phase is read off `pc`, `cmnd` and
  `result`; the answer is given at the moment `ioctl_cmnd` is cleared.
  `Complete` and `Reset` map to `Answer`, `Submit` to `Ask`, `Finish` to
  `AskNext` or `Return`, everything else to a stutter. `Answered` (an answered
  request has an answer) is needed for `Finish`.
* *Reservations.* The balance: the length of the list is `count` plus the
  number of reserved commands that were not taken. The sum over the requests is
  the cardinality of a set of tickets (`Between`), which changes for one
  request at a time (`OneRequest`).
* *Commands.* `CmdInv` is the three properties, which hold one another up (a
  command that is sent has no COMMANDs to lose because it is not with the LDM,
  and it is not because what the LDM has is active or timed out), and
  `Recovery`: while the error handler is at work a command has timed out and
  none is active. A reset completes any set of commands at once, so the sum of
  their COMMANDs is shown to change for a set of them.
* *Lists of segments.* `SameBytes`, `EotAtEnd` and `Transferable` are inductive
  with `LastIsEnd`: the variable `last` is the end of the segment before.
* *Answers.* `ValueOfBytes`: a number that `n` bytes can hold comes out of them
  again, so every form of the CDB carries the numbers the disk driver uses it
  for (`Decoded`). `SdInv`: on every step of the dialogue the number of blocks
  and their size are those of the disk as it was asked, and the blocks the
  driver knows are within the disk as it is, since arrays only grow. The length
  of the second MODE SENSE is the one the first announced, which is why the
  caching page fits and the cache policy is read (`LengthKnown`).
* *Lock.* `LockInv`: the pointer of each vbus follows the place of the thread
  in the two loops; for a vbus that is not in `moved`, whoever is under way has
  read the pointer that still holds, and who is in the LDM owns that lock.
  Vbuses that share `initlock` share its owner, which is why a vbus that is at
  rest is safe from the others. `Ended` adds, stage by stage of the cleanup,
  what of a vbus can no longer start.
* *Window.* `ReaderInv`: what the buffer holds is the part of the text from the
  reader's offset on, and the reader's offset is the length of what it has got
  (`ReaderAt`). The other calls of `Management` leave its variables as they
  are, or are a step of `ProcInfo`.
* *Tools.* `ManageInv`: a call has only work of its own (`Calls`), its argument
  is one the call can have at that step (`Argument`), and what is allocated is
  counted at every step (`Heap`).
* *Forest.* The lines printed and the work to come are one sequence (`Tree`),
  and every line of an array has its branch in it (`Branch`, part of `Forest`);
  when no work is left this is what the text is to show, so the recursion needs
  no induction. Printing a line inserts the branch of its array right after it:
  `BranchBegins` says it is one, which needs that what follows is not deeper
  (`Rising`), and `BranchGoesOn` that the branches of the lines before keep
  their lines, only further down. The loops over devices change the work at
  indent 0, where every branch has ended (`BranchEnds`).
* *Flush.* `FlushInv` adds to the properties how often the present device has
  been tried (`LoopOrder`) and that a good result is the target's
  (`OkMeansFlushed`), which is only true because a flush of the source is
  followed by one of the target.
* *Flags.* `NothingForgotten`: "a refresh is under way" is not enough, it must
  be one that has not come to the test of `REVALIDATE` for this disk
  (`WillFind`), and a refresh that has resized a disk and is about to clear
  `REVALIDATE` meets a disk that waits again only while the LDM has still to
  set the flag (`NothingToClear`). For queries `Truth`: before the scan has
  come past the disk its `IN_USE` is clear, and after it the flag lies between
  "open during the whole call" and "open at some time". It is kept for a call
  that is `Undisturbed`; `Frame` says that then no other call is under way, so
  nobody else opens the device or stores its flag.
* *Memory and hosts.* `Places` is where blocks may be: pages of small blocks
  come into the page pool only while `hpt_free_mem` takes a list apart, and
  then the LDM has none of them. `Services` and `Stocks` say for every vbus and
  every stage of loading and unloading which of its host, interrupt and pages
  exist, as long as only failures that `CleanUnload` allows have happened.
  `PlugInv`: of a disk whose changes did not cross at most one piece of work is
  waiting, and it leads to what the LDM has.

Only model-checked: liveness and the fairness it needs, which the provers do not
reach.

## Not modelled

* The LDM and the HIM: binary objects.
* The standard INQUIRY data, the wording of the `/proc` lines, the parsing of
  commands written to `/proc`, layouts in `hptintf.h` and `him.h`, wrappers of
  kernel functions, build scripts: no state changes beside those modelled.
  `div64.c` and `os_query_time` are used by the binary core only.
* Other builds (kernels before 2.6.37, `DBG`, one CPU) differ in the locking.
* What happens after a failed `scsi_add_host`, or after a failed initialisation
  in `hpt_detect`: `HostLife` and `VbusLock` reach these states, and the sources
  say nothing about them that could be checked.

## Plan

The order was: first what every entry to the driver depends on (tasks,
requests), then the resources (COMMANDs, commands, mappings), then the ends of
a vbus's life, then what the rest of the system sees (answers, flags, hot plug,
tools), with the proofs following the modules that the runs had shown to be
right.  What is left:

1. `VbusLock` and `HostLife` as one module, so that the failures of loading meet
   the timers.
2. An abstract SCSI disk that `ScsiCommand` with `ScsiAnswers` implements.
