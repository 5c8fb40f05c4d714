------------------------------ MODULE HostLife ------------------------------
(***************************************************************************)
(* The life of the driver: loading (hpt_init_one, hpt_alloc_mem and the    *)
(* rest of hpt_detect, then init_this_scsi_driver adds the hosts), the hot *)
(* plug work while it is loaded, and unloading (exit_this_scsi_driver,     *)
(* hpt_release, hpt_cleanup, hpt_free_mem), with every failure the code    *)
(* looks for.  VbusLock has the locking of the same functions, FlushVdev   *)
(* the flush, CmdPool the lists of COMMANDs.                               *)
(*                                                                         *)
(* Memory is that for DMA and the cache pages; the blocks of kmalloc (hba, *)
(* vbus_ext, sd_flags, the plain freelists) are not counted.               *)
(*                                                                         *)
(* A page is <<list, number>>: of a DMA freelist, or of list 0, which are  *)
(* the cache pages.  A block of DMA memory is <<list, number, place>>, and *)
(* place 0 is the one aligned to the page.  The lists are LIFO; as the LDM *)
(* gives back in any order, they are sets here.                            *)
(***************************************************************************)
EXTENDS Naturals, Sequences, FiniteSets

CONSTANTS
  N,           \* vbuses, each with one adapter
  Lists,       \* the DMA freelists: count, blocks of a page, order
  CachePages,  \* os_max_cache_pages
  MaxWork,     \* bound: hot plug work that waits
  MaxTaken     \* bound: blocks and pages the LDM has of a vbus

ASSUME HostLifeAssumption ==
  /\ N \in Nat \ {0} /\ CachePages \in Nat /\ MaxWork \in Nat /\ MaxTaken \in Nat
  /\ Lists \in Seq([count : Nat, perpage : Nat \ {0}, order : Nat])
  /\ \A l \in DOMAIN Lists : Lists[l].order > 0 => Lists[l].perpage = 1

Vbus == 1 .. N

VARIABLES
  main,       \* the place of the thread that loads or unloads
  v,          \* the vbus its loop has come to
  known,      \* the vbuses of the LDM (ldm_create_vbus), with their HBAs
  pages,      \* <<vbus, page>>: allocated and not freed
  dma, pool,  \* for each vbus the free blocks, the pages of the dmapool
  taken,      \* for each vbus what the LDM has taken of them
  host,       \* "none", "registered", "added", "removed" or "released"
  irq,        \* the vbuses whose interrupt is requested
  notifier,   \* hpt_notifier is registered
  registered, present,  \* the LDM, the SCSI layer has a disk on the vbus
  work,       \* scheduled sd_change_wrappers
  failed,     \* history: what has failed
  abandoned,  \* history: memory was freed that the LDM had taken
  crossed     \* history: see SchedSdChange

memory == <<pages, dma, pool, taken>>
plug == <<registered, present, work, crossed>>
vars == <<main, v, known, memory, host, irq, notifier, plug, failed, abandoned>>

Init ==
  /\ main = "init_one" /\ v = 1 /\ known = {}
  /\ pages = {} /\ dma = [x \in Vbus |-> {}] /\ pool = dma /\ taken = dma
  /\ host = [x \in Vbus |-> "none"] /\ irq = {} /\ notifier = FALSE
  /\ registered = [x \in Vbus |-> FALSE] /\ present = registered
  /\ work = <<>> /\ crossed = registered
  /\ failed = {} /\ abandoned = FALSE

-----------------------------------------------------------------------------
(* The loops over the vbuses: the next one, or the next loop.              *)
Loop(here, next) ==
  IF v < N THEN main' = here /\ v' = v + 1 ELSE main' = next /\ v' = 1

(* hpt_init_one.  A failure leaves no adapter in a vbus.  What it does     *)
(* leave is not modelled: the device enabled and, if there is no memory    *)
(* for the vbus, an adapter that him->create_adapter made in freed memory. *)
InitOne ==
  /\ main = "init_one"
  /\ \/ known' = known \cup {v} /\ UNCHANGED failed
     \/ failed' = failed \cup {"init_one"} /\ UNCHANGED known
  /\ Loop("init_one", "alloc")
  /\ UNCHANGED <<memory, host, irq, notifier, plug, abandoned>>

(* A DMA list of count blocks, perpage of them on a page.                  *)
ListPages(l) == {<<l, k>> : k \in 0 .. (Lists[l].count - 1) \div Lists[l].perpage}
ListBlocks(l) ==
  {<<l, i \div Lists[l].perpage, i % Lists[l].perpage>> : i \in 0 .. Lists[l].count - 1}
Cache == {<<0, k>> : k \in 1 .. CachePages}
AllPages == Cache \cup UNION {ListPages(l) : l \in DOMAIN Lists}

PageOf(block) == <<block[1], block[2]>>

(* The pages hpt_free_mem finds.                                           *)
FreeablePages(x) == pool[x] \cup {PageOf(b) : b \in {c \in dma[x] : c[3] = 0}}

(* hpt_alloc_mem for every vbus; when memory runs out hpt_detect returns 0 *)
(* and what has been allocated stays.                                      *)
AllocMem ==
  /\ main = "alloc"
  /\ IF v \notin known THEN UNCHANGED <<memory, failed>> /\ Loop("alloc", "initialize")
     ELSE \/ /\ pages' = pages \cup ({v} \X AllPages)
             /\ dma' = [dma EXCEPT ![v] = UNION {ListBlocks(l) : l \in DOMAIN Lists}]
             /\ pool' = [pool EXCEPT ![v] = Cache]
             /\ Loop("alloc", "initialize")
             /\ UNCHANGED <<taken, failed>>
          \/ /\ \E some \in SUBSET AllPages : pages' = pages \cup ({v} \X some)
             /\ failed' = failed \cup {"alloc"}
             /\ main' = "gone" /\ UNCHANGED <<v, dma, pool, taken>>
  /\ UNCHANGED <<known, host, irq, notifier, plug, abandoned>>

(* him->initialize and ldm_initialize_vbus_async; if the one fails or a    *)
(* signal interrupts the wait for the other, the memory of all vbuses is   *)
(* freed, whatever the LDM has taken of it.                                *)
Initialize ==
  /\ main = "initialize"
  /\ \/ /\ known = {} /\ main' = "gone" /\ UNCHANGED <<v, memory, failed, abandoned>>
     \/ /\ known # {} /\ Loop("initialize", "register")
        /\ UNCHANGED <<memory, failed, abandoned>>
     \/ /\ v \in known /\ failed' = failed \cup {"initialize"}
        /\ main' = "gone"
        /\ abandoned' = (\E x \in Vbus : taken[x] # {})
        /\ pages' = {q \in pages : q[2] \notin FreeablePages(q[1])}
        /\ dma' = [x \in Vbus |-> {}] /\ pool' = dma'
        /\ UNCHANGED <<v, taken>>
  /\ UNCHANGED <<known, host, irq, notifier, plug>>

(* scsi_register, request_irq for the adapter; at the end of the loop the  *)
(* notifier.  Without a host the vbus gets no interrupt.                   *)
RegisterHost ==
  /\ main = "register"
  /\ \/ v \notin known /\ UNCHANGED <<host, irq, failed>>
     \/ v \in known /\ failed' = failed \cup {"scsi_register"} /\ UNCHANGED <<host, irq>>
     \/ /\ v \in known /\ host' = [host EXCEPT ![v] = "registered"]
        /\ \/ irq' = irq \cup {v} /\ UNCHANGED failed
           \/ failed' = failed \cup {"request_irq"} /\ UNCHANGED irq
  /\ Loop("register", "add")
  /\ notifier' = (v = N)
  /\ UNCHANGED <<known, memory, plug, abandoned>>

Hosts == {x \in Vbus : host[x] # "none"}

(* init_this_scsi_driver: no host at all, or one after the other is added  *)
(* and scanned; if that fails the ones before are removed, none released.  *)
AddHost ==
  /\ main = "add"
  /\ \/ /\ Hosts = {} /\ main' = "gone" /\ UNCHANGED <<v, host, present, registered, failed>>
     \/ /\ Hosts # {} /\ v \notin Hosts /\ Loop("add", "live")
        /\ UNCHANGED <<host, present, registered, failed>>
     \/ /\ v \in Hosts /\ Loop("add", "live")
        /\ host' = [host EXCEPT ![v] = "added"]
        /\ registered' = [registered EXCEPT ![v] = TRUE]
        /\ present' = [present EXCEPT ![v] = TRUE]
        /\ UNCHANGED failed
     \/ /\ v \in Hosts /\ main' = "gone" /\ failed' = failed \cup {"scsi_add_host"}
        /\ host' = [x \in Vbus |-> IF host[x] = "added" THEN "removed" ELSE host[x]]
        /\ present' = [x \in Vbus |-> FALSE]
        /\ UNCHANGED <<v, registered>>
  /\ UNCHANGED <<known, memory, irq, notifier, work, crossed, abandoned>>

-----------------------------------------------------------------------------
(* The LDM takes memory (freelist_get_dma, dmapool_get_page) once it has   *)
(* begun to initialise the vbus, and gives it back.                        *)
Takes(x) ==
  /\ main \in {"initialize", "register", "add", "live"} /\ x \in known
  /\ Cardinality(taken[x]) < MaxTaken
  /\ \/ \E b \in dma[x] : /\ dma' = [dma EXCEPT ![x] = @ \ {b}]
                          /\ taken' = [taken EXCEPT ![x] = @ \cup {b}]
                          /\ UNCHANGED pool
     \/ \E p \in pool[x] : /\ pool' = [pool EXCEPT ![x] = @ \ {p}]
                           /\ taken' = [taken EXCEPT ![x] = @ \cup {p}]
                           /\ UNCHANGED dma
  /\ UNCHANGED <<main, v, known, pages, host, irq, notifier, plug, failed, abandoned>>

(* freelist_put_dma, dmapool_put_page.                                     *)
GivesBack(x) ==
  /\ main # "gone"
  /\ \E b \in taken[x] :
       /\ taken' = [taken EXCEPT ![x] = @ \ {b}]
       /\ IF Len(b) = 3 THEN dma' = [dma EXCEPT ![x] = @ \cup {b}] /\ UNCHANGED pool
                        ELSE pool' = [pool EXCEPT ![x] = @ \cup {b}] /\ UNCHANGED dma
  /\ UNCHANGED <<main, v, known, pages, host, irq, notifier, plug, failed, abandoned>>

-----------------------------------------------------------------------------
(* Mutant of SchedSdChange: the kind of the change is not noted.           *)
SchedRegister(x, to_register) ==
  /\ work' = Append(work, [vbus |-> x, to_register |-> TRUE])
  /\ crossed' = [crossed EXCEPT ![x] = crossed[x] \/ \E k \in DOMAIN work : work[k].vbus = x]

(* sched_sd_change.  crossed: kmalloc failed, so the change is lost, or a  *)
(* change of this disk is still waiting and may be made after this one.    *)
SchedSdChange(x, to_register) ==
  \/ UNCHANGED work /\ crossed' = [crossed EXCEPT ![x] = TRUE]
  \/ /\ work' = Append(work, [vbus |-> x, to_register |-> to_register])
     /\ crossed' = [crossed EXCEPT ![x] = crossed[x] \/ \E k \in DOMAIN work : work[k].vbus = x]

(* The LDM has a new disk or has lost one: os_register_device,             *)
(* os_unregister_device.                                                   *)
DiskChanges(x) ==
  /\ host[x] = "added" /\ Len(work) < MaxWork
  /\ registered' = [registered EXCEPT ![x] = ~registered[x]]
  /\ SchedSdChange(x, ~registered[x])
  /\ UNCHANGED <<main, v, known, memory, host, irq, notifier, present, failed, abandoned>>

(* os_sd_changed; the workqueue may take any change.  A host that has been *)
(* removed takes no new disk.                                              *)
SdChanged(k) ==
  LET x == work[k].vbus
  IN  /\ work' = SubSeq(work, 1, k - 1) \o SubSeq(work, k + 1, Len(work))
      /\ present' = [present EXCEPT ![x] = host[x] = "added" /\ work[k].to_register]
      /\ UNCHANGED <<main, v, known, memory, host, irq, notifier, registered, crossed,
                     failed, abandoned>>

-----------------------------------------------------------------------------
(* exit_this_scsi_driver: every host is removed, then every one released.  *)
RemoveHosts ==
  /\ main = "live"
  /\ host' = [x \in Vbus |-> IF x \in Hosts THEN "removed" ELSE "none"]
  /\ present' = [x \in Vbus |-> FALSE]
  /\ main' = "release" /\ v' = 1
  /\ UNCHANGED <<known, memory, irq, notifier, registered, work, crossed, failed, abandoned>>

NoHost ==
  /\ main = "release" /\ v \notin Hosts
  /\ Loop("release", "gone")
  /\ UNCHANGED <<known, memory, host, irq, notifier, plug, failed, abandoned>>

(* hpt_cleanup up to ldm_release_vbus; then the LDM has given back all it  *)
(* had.  free_irq is called for every hba; for one whose request_irq       *)
(* failed it frees nothing.  os_max_cache_pages pages of the dmapool are   *)
(* freed.                                                                  *)
Cleanup ==
  /\ main = "release" /\ v \in Hosts /\ taken[v] = {}
  /\ irq' = irq \ {v}
  /\ known' = known \ {v}
  /\ \E some \in SUBSET pool[v] :
       /\ Cardinality(some) = CachePages
       /\ pool' = [pool EXCEPT ![v] = @ \ some]
       /\ pages' = pages \ ({v} \X some)
  /\ main' = "free_dma"
  /\ UNCHANGED <<v, dma, taken, host, notifier, plug, failed, abandoned>>

(* Mutant of FreeBlock: the page is freed at its aligned block.            *)
FreeBlockAtOnce(b) ==
  /\ pages' = IF b[3] = 0 THEN pages \ {<<v, PageOf(b)>>} ELSE pages
  /\ UNCHANGED pool

(* A block of a list of pages goes back to the kernel; a page of blocks    *)
(* must wait, as the other blocks on it may still be in the list.          *)
FreeBlock(b) ==
  IF Lists[b[1]].order > 0
  THEN pages' = pages \ {<<v, PageOf(b)>>} /\ UNCHANGED pool
  ELSE /\ pool' = IF b[3] = 0 THEN [pool EXCEPT ![v] = @ \cup {PageOf(b)}] ELSE pool
       /\ UNCHANGED pages

FreeDma ==
  /\ main = "free_dma"
  /\ \E b \in dma[v] : dma' = [dma EXCEPT ![v] = @ \ {b}] /\ FreeBlock(b)
  /\ UNCHANGED <<main, v, known, taken, host, irq, notifier, plug, failed, abandoned>>

(* Mutant of LastVbus: the vbus that is going is not counted out.          *)
LastVbusBefore == Cardinality(known) = 1

(* ldm_get_next_vbus(0, 0) has none.                                       *)
LastVbus == known = {}

(* The rest of hpt_free_mem, hpt_cleanup and hpt_release.                  *)
Release ==
  /\ main = "free_dma" /\ dma[v] = {}
  /\ pages' = pages \ ({v} \X pool[v])
  /\ pool' = [pool EXCEPT ![v] = {}]
  /\ notifier' = (notifier /\ ~LastVbus)
  /\ host' = [host EXCEPT ![v] = "released"]
  /\ Loop("release", "gone")
  /\ UNCHANGED <<known, dma, taken, irq, plug, failed, abandoned>>

Next ==
  \/ InitOne \/ AllocMem \/ Initialize \/ RegisterHost \/ AddHost
  \/ \E x \in Vbus : Takes(x) \/ GivesBack(x) \/ DiskChanges(x)
  \/ \E k \in DOMAIN work : SdChanged(k)
  \/ RemoveHosts \/ NoHost \/ Cleanup \/ FreeDma \/ Release

Spec == Init /\ [][Next]_vars

-----------------------------------------------------------------------------
(* Whatever is in a list, in the dmapool or in the LDM's hands lies in a   *)
(* page that has not been freed: above all while hpt_free_mem takes the    *)
(* blocks of a page from the list one by one.  The exception is a load     *)
(* that fails or is interrupted after the LDM has taken memory.            *)
ListsLieInPages ==
  ~abandoned =>
    \A x \in Vbus : \A b \in dma[x] \cup pool[x] \cup taken[x] : <<x, PageOf(b)>> \in pages

(* A driver that was loaded leaves none of these when it is unloaded: DMA  *)
(* and cache page, interrupt, notifier, vbus and host, also if adapters or *)
(* interrupts failed.                                                      *)
CleanUnload ==
  main = "gone" /\ failed \subseteq {"init_one", "request_irq"} =>
    /\ pages = {} /\ irq = {} /\ known = {} /\ ~notifier
    /\ \A x \in Vbus : host[x] \in {"none", "released"}

(* When no work is waiting the SCSI layer has the disks of the LDM, except *)
(* where memory ran out or two changes of a disk waited at the same time.  *)
HotPlugFollows ==
  \A x \in Vbus :
    host[x] = "added" /\ ~crossed[x] /\ (\A k \in DOMAIN work : work[k].vbus # x) =>
      (present[x] <=> registered[x])
=============================================================================
