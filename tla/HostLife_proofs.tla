-------------------------- MODULE HostLife_proofs --------------------------
(***************************************************************************)
(* Proofs about HostLife, for any number of vbuses, any freelists and any  *)
(* failures: memory that is in use is allocated (Places), a driver that    *)
(* was loaded leaves nothing behind (UnloadInv), and hot plug follows the  *)
(* LDM (PlugInv).  What hpt_free_mem frees is what hpt_free_mem still      *)
(* finds, so the memory is counted: per vbus, the blocks of every list and *)
(* the cache pages are complete, or the pages are just those of the blocks *)
(* it has in its lists (Stocks).                                           *)
(***************************************************************************)
EXTENDS HostLife, Integers, SequenceTheorems, FiniteSetTheorems, TLAPS

-----------------------------------------------------------------------------
(* Pages and blocks.                                                       *)
Blocks == UNION {ListBlocks(l) : l \in DOMAIN Lists}

(* The pages of the lists whose blocks share a page.                       *)
Small == {PageOf(b) : b \in {c \in Blocks : Lists[c[1]].order = 0}}

(* Dividing a number of blocks by the blocks of a page.                    *)
LEMMA Divides ==
  ASSUME NEW i \in Nat, NEW p \in Nat \ {0}
  PROVE  i = p * (i \div p) + (i % p) /\ i % p \in 0 .. p - 1 /\ i \div p \in Nat
OBVIOUS

(* Division is monotonic.                                                  *)
LEMMA DivMonotone ==
  ASSUME NEW i \in Nat, NEW j \in Nat, NEW p \in Nat \ {0}, i <= j
  PROVE  i \div p <= j \div p
<1> DEFINE q == i \div p
<1> DEFINE r == j \div p
<1>1. /\ q \in Nat /\ i = p * q + (i % p) /\ i % p \in 0 .. p - 1
      /\ r \in Nat /\ j = p * r + (j % p) /\ j % p \in 0 .. p - 1
  BY Divides
<1> HIDE DEF q, r
<1>2. SUFFICES ASSUME r < q PROVE FALSE
  BY <1>1 DEF q, r
<1>3. p * r + p <= p * q
  <2>1. ASSUME NEW a \in Nat, NEW b \in Nat, NEW m \in Nat, a < b PROVE m * a + m <= m * b
    BY <2>1
  <2> QED
    BY <1>1, <1>2, <2>1
<1>4. p * r \in Nat /\ p * q \in Nat
  BY <1>1
<1> QED
  BY <1>1, <1>3, <1>4

(* A list's record, and that it is not the list of the cache pages.        *)
LEMMA ListType ==
  ASSUME NEW l \in DOMAIN Lists
  PROVE  /\ l \in Nat /\ l # 0 /\ Lists[l].count \in Nat /\ Lists[l].perpage \in Nat \ {0}
         /\ Lists[l].order \in Nat /\ (Lists[l].order > 0 => Lists[l].perpage = 1)
<1> DEFINE R == [count : Nat, perpage : Nat \ {0}, order : Nat]
<1>1. Lists \in Seq(R)
  BY HostLifeAssumption DEF HostLifeAssumption
<1> HIDE DEF R
<1>2. DOMAIN Lists = 1 .. Len(Lists) /\ Len(Lists) \in Nat
  BY <1>1, LenProperties
<1>3. Lists[l] \in R /\ l \in 1 .. Len(Lists)
  BY <1>1, <1>2, ElementOfSeq
<1>4. Lists[l].order > 0 => Lists[l].perpage = 1
  BY HostLifeAssumption DEF HostLifeAssumption
<1> QED
  BY <1>2, <1>3, <1>4 DEF R

(* A block lies in a page of its list, and of a list of multi-page blocks  *)
(* each has its own.                                                       *)
LEMMA BlockType ==
  ASSUME NEW b \in Blocks
  PROVE  /\ b = <<b[1], b[2], b[3]>> /\ Len(b) = 3
         /\ b[1] \in DOMAIN Lists /\ PageOf(b) \in ListPages(b[1])
         /\ Lists[b[1]].order > 0 => b[3] = 0
<1>1. PICK l \in DOMAIN Lists : b \in ListBlocks(l)
  BY DEF Blocks
<1> DEFINE p == Lists[l].perpage
<1>2. PICK i \in 0 .. Lists[l].count - 1 : b = <<l, i \div p, i % p>>
  BY <1>1 DEF ListBlocks
<1>3. p \in Nat \ {0} /\ Lists[l].count \in Nat /\ (Lists[l].order > 0 => p = 1)
  BY ListType
<1> DEFINE last == Lists[l].count - 1
<1>4. i \in Nat /\ last \in Nat /\ i <= last
  BY <1>2, <1>3
<1>5. i \div p <= last \div p /\ i \div p \in Nat /\ last \div p \in Nat
  BY <1>3, <1>4, DivMonotone, Divides
<1>6. i \div p \in 0 .. last \div p
  BY <1>5
<1>7. <<l, i \div p>> \in ListPages(l)
  BY <1>6 DEF ListPages
<1>8. p = 1 => i % p = 0
  BY <1>4
<1>9. b[1] = l /\ b[2] = i \div p /\ b[3] = i % p /\ Len(b) = 3
  BY <1>2
<1>10. b = <<b[1], b[2], b[3]>> /\ PageOf(b) = <<l, i \div p>>
  BY <1>2, <1>9 DEF PageOf
<1> QED
  BY <1>1, <1>3, <1>7, <1>8, <1>9, <1>10

(* On every page of a list there is the block that is aligned to it.       *)
LEMMA AlignedBlock ==
  ASSUME NEW l \in DOMAIN Lists, NEW page \in ListPages(l)
  PROVE  \E b \in Blocks : b[1] = l /\ b[3] = 0 /\ PageOf(b) = page
<1> DEFINE p == Lists[l].perpage
<1> DEFINE last == Lists[l].count - 1
<1>1. p \in Nat \ {0} /\ Lists[l].count \in Nat
  BY ListType
<1>2. PICK k \in 0 .. last \div p : page = <<l, k>>
  BY DEF ListPages
<1>3. last \in Nat
  <2>1. CASE Lists[l].count = 0
    <3>1. last \div p = -1
      BY <1>1, <2>1
    <3> QED
      BY <1>2, <3>1
  <2> QED
    BY <1>1, <2>1
<1> HIDE DEF p, last
<1>4. /\ last \div p \in Nat /\ last = p * (last \div p) + (last % p)
      /\ last % p \in 0 .. p - 1 /\ k \in Nat /\ k <= last \div p
  BY <1>1, <1>2, <1>3, Divides
<1> DEFINE i == k * p
<1>5. i <= p * (last \div p) /\ i \in Nat /\ p * (last \div p) \in Nat
  <2>1. ASSUME NEW a \in Nat, NEW b \in Nat, NEW m \in Nat, a <= b PROVE a * m <= m * b
    BY <2>1
  <2> QED
    BY <1>1, <1>4, <2>1
<1>6. i \in 0 .. last
  BY <1>3, <1>4, <1>5
<1>7. i \div p = k /\ i % p = 0
  <2>1. ASSUME NEW a \in Nat, NEW m \in Nat \ {0} PROVE (a * m) \div m = a /\ (a * m) % m = 0
    OBVIOUS
  <2>2. k \in Nat
    BY <1>4
  <2> QED
    BY <1>1, <2>1, <2>2
<1> DEFINE b == <<l, i \div p, i % p>>
<1>8. b \in ListBlocks(l)
  BY <1>6 DEF ListBlocks, p, last
<1>9. b \in Blocks /\ b[1] = l /\ b[3] = 0 /\ PageOf(b) = page
  BY <1>2, <1>7, <1>8 DEF Blocks, PageOf
<1> QED
  BY <1>9

(* Two blocks on the same page of a list of multi-page blocks are one.     *)
LEMMA OwnPage ==
  ASSUME NEW b \in Blocks, NEW c \in Blocks, Lists[b[1]].order > 0, PageOf(b) = PageOf(c)
  PROVE  b = c
<1>1. b[1] = c[1] /\ b[2] = c[2]
  BY DEF PageOf
<1> QED
  BY <1>1, BlockType

(* Cache pages are no blocks and no pages of a list.                       *)
LEMMA CachePage ==
  ASSUME NEW c \in Cache
  PROVE  /\ c = <<c[1], c[2]>> /\ c[1] = 0 /\ Len(c) = 2 /\ PageOf(c) = c
         /\ c \notin Blocks /\ c \notin Small
         /\ \A l \in DOMAIN Lists : c \notin ListPages(l)
<1>1. PICK k \in 1 .. CachePages : c = <<0, k>>
  BY DEF Cache
<1>2. c[1] = 0 /\ Len(c) = 2 /\ PageOf(c) = c /\ c = <<c[1], c[2]>>
  BY <1>1 DEF PageOf
<1>3. c \notin Blocks
  BY <1>2, BlockType
<1>4. \A l \in DOMAIN Lists : c \notin ListPages(l)
  BY <1>2, ListType DEF ListPages
<1>5. c \notin Small
  BY <1>4, BlockType DEF Small
<1> QED
  BY <1>2, <1>3, <1>4, <1>5

(* Every block and cache page has its page, and every page holds a block   *)
(* that begins it or is a cache page.                                      *)
LEMMA PagesOfAll ==
  /\ \A b \in Blocks \cup Cache : PageOf(b) \in AllPages
  /\ Cache \subseteq AllPages /\ Small \subseteq AllPages
  /\ \A page \in AllPages : page \in Cache \/ \E b \in Blocks : b[3] = 0 /\ PageOf(b) = page
<1>1. \A b \in Blocks : PageOf(b) \in AllPages
  BY BlockType DEF AllPages
<1>2. \A b \in Cache : PageOf(b) \in AllPages
  BY CachePage DEF AllPages
<1>3. Small \subseteq AllPages /\ Cache \subseteq AllPages
  BY <1>1 DEF Small, AllPages
<1>4. \A page \in AllPages : page \in Cache \/ \E b \in Blocks : b[3] = 0 /\ PageOf(b) = page
  BY AlignedBlock DEF AllPages
<1> QED
  BY <1>1, <1>2, <1>3, <1>4

-----------------------------------------------------------------------------
(* Where memory may be.  Only hpt_free_mem puts pages of small blocks into *)
(* the dmapool, of the vbus it frees, and then the LDM has nothing of it.  *)
Places ==
  /\ v \in Vbus /\ known \subseteq Vbus
  /\ pages \subseteq Vbus \X AllPages
  /\ dma \in [Vbus -> SUBSET Blocks]
  /\ pool \in [Vbus -> SUBSET (Cache \cup Small)]
  /\ taken \in [Vbus -> SUBSET (Blocks \cup Cache)]
  /\ \A x \in Vbus : main # "free_dma" \/ x # v => pool[x] \subseteq Cache
  /\ main = "free_dma" => taken[v] = {}

(* The loop over the vbuses stays within them.                             *)
LEMMA LoopStays ==
  ASSUME v \in Vbus, NEW here, NEW next, Loop(here, next)
  PROVE  v' \in Vbus /\ main' \in {here, next}
BY HostLifeAssumption DEF HostLifeAssumption, Vbus, Loop

(* Places is inductive.                                                    *)
LEMMA PlacesInductive == Places /\ [Next]_vars => Places'
<1> SUFFICES ASSUME Places, [Next]_vars PROVE Places'
  OBVIOUS
<1> USE DEF memory, plug
<1>1. /\ v \in Vbus /\ known \subseteq Vbus
      /\ pages \subseteq Vbus \X AllPages
      /\ dma \in [Vbus -> SUBSET Blocks]
      /\ pool \in [Vbus -> SUBSET (Cache \cup Small)]
      /\ taken \in [Vbus -> SUBSET (Blocks \cup Cache)]
      /\ \A x \in Vbus : main # "free_dma" \/ x # v => pool[x] \subseteq Cache
      /\ main = "free_dma" => taken[v] = {}
  BY DEF Places
<1>2. CASE InitOne \/ RegisterHost \/ NoHost
  <2>1. v' \in Vbus /\ main' # "free_dma" /\ main # "free_dma" /\ known' \subseteq Vbus
    BY <1>1, <1>2, LoopStays DEF InitOne, RegisterHost, NoHost
  <2>2. UNCHANGED memory
    BY <1>2 DEF InitOne, RegisterHost, NoHost
  <2> QED
    BY <1>1, <2>1, <2>2 DEF Places
<1>3. CASE AllocMem
  <2>1. v' \in Vbus /\ main' # "free_dma" /\ main # "free_dma" /\ known' = known /\ taken' = taken
    BY <1>1, <1>3, LoopStays DEF AllocMem
  <2>2. /\ pages' \subseteq Vbus \X AllPages
        /\ dma' = dma \/ dma' = [dma EXCEPT ![v] = Blocks]
        /\ pool' = pool \/ pool' = [pool EXCEPT ![v] = Cache]
    BY <1>1, <1>3 DEF AllocMem, Blocks
  <2>3. /\ dma' \in [Vbus -> SUBSET Blocks] /\ pool' \in [Vbus -> SUBSET (Cache \cup Small)]
        /\ \A x \in Vbus : pool'[x] \subseteq Cache
    BY <1>1, <2>1, <2>2
  <2> QED
    BY <1>1, <2>1, <2>2, <2>3 DEF Places
<1>4. CASE Initialize
  <2>1. /\ v' \in Vbus /\ main' # "free_dma" /\ main # "free_dma"
        /\ known' = known /\ taken' = taken
    <3>1. /\ main = "initialize" /\ known' = known /\ taken' = taken
          /\ Loop("initialize", "register") \/ (main' = "gone" /\ v' = v)
      BY <1>4, Zenon DEF Initialize
    <3> QED
      BY <1>1, <3>1, LoopStays
  <2>2. /\ pages' \subseteq pages
        /\ dma' = dma \/ dma' = [x \in Vbus |-> {}]
        /\ pool' = pool \/ pool' = [x \in Vbus |-> {}]
    BY <1>4 DEF Initialize
  <2>3. /\ dma' \in [Vbus -> SUBSET Blocks] /\ pool' \in [Vbus -> SUBSET (Cache \cup Small)]
        /\ \A x \in Vbus : pool'[x] \subseteq Cache
    BY <1>1, <2>1, <2>2
  <2> QED
    BY <1>1, <2>1, <2>2, <2>3 DEF Places
<1>5. CASE AddHost \/ RemoveHosts
  <2>1. v' \in Vbus /\ main' # "free_dma" /\ main # "free_dma"
    <3>1. 1 \in Vbus
      BY HostLifeAssumption DEF HostLifeAssumption, Vbus
    <3> QED
      BY <1>1, <1>5, <3>1, LoopStays DEF AddHost, RemoveHosts
  <2>2. UNCHANGED <<memory, known>>
    BY <1>5 DEF AddHost, RemoveHosts
  <2> QED
    BY <1>1, <2>1, <2>2 DEF Places
<1>6. ASSUME NEW x \in Vbus, Takes(x) PROVE Places'
  <2>1. main' = main /\ main # "free_dma" /\ UNCHANGED <<v, known, pages>>
    BY <1>6 DEF Takes
  <2>2. /\ dma' \in [Vbus -> SUBSET Blocks] /\ pool' \in [Vbus -> SUBSET (Cache \cup Small)]
        /\ taken' \in [Vbus -> SUBSET (Blocks \cup Cache)]
        /\ \A y \in Vbus : pool'[y] \subseteq Cache
    BY <1>1, <1>6, <2>1 DEF Takes
  <2> QED
    BY <1>1, <2>1, <2>2 DEF Places
<1>7. ASSUME NEW x \in Vbus, GivesBack(x) PROVE Places'
  <2>1. main' = main /\ UNCHANGED <<v, known, pages>>
    BY <1>7 DEF GivesBack
  <2>2. PICK b \in taken[x] :
          /\ taken' = [taken EXCEPT ![x] = @ \ {b}]
          /\ IF Len(b) = 3 THEN dma' = [dma EXCEPT ![x] = @ \cup {b}] /\ UNCHANGED pool
                           ELSE pool' = [pool EXCEPT ![x] = @ \cup {b}] /\ UNCHANGED dma
    BY <1>7 DEF GivesBack
  <2>3. main # "free_dma" \/ x # v
    BY <1>1, <2>2
  <2>4. /\ b \in Blocks \cup Cache
        /\ Len(b) = 3 => b \in Blocks
        /\ Len(b) # 3 => b \in Cache
    BY <1>1, <2>2, BlockType, CachePage
  <2>5. taken' \in [Vbus -> SUBSET (Blocks \cup Cache)] /\ \A y \in Vbus : taken'[y] \subseteq taken[y]
    BY <1>1, <2>2
  <2>6. CASE Len(b) = 3
    BY <1>1, <2>1, <2>2, <2>4, <2>5, <2>6 DEF Places
  <2>7. CASE Len(b) # 3
    <3>1. /\ pool' \in [Vbus -> SUBSET (Cache \cup Small)] /\ dma' = dma
          /\ \A y \in Vbus : y # x => pool'[y] = pool[y]
          /\ pool'[x] = pool[x] \cup {b}
      BY <1>1, <2>2, <2>4, <2>7
    <3>2. pool'[x] \subseteq Cache
      BY <1>1, <2>3, <2>4, <2>7, <3>1
    <3>3. \A y \in Vbus : main # "free_dma" \/ y # v => pool'[y] \subseteq Cache
      BY <1>1, <3>1, <3>2
    <3> QED
      BY <1>1, <2>1, <2>5, <3>1, <3>3 DEF Places
  <2> QED
    BY <2>6, <2>7
<1>8. CASE (\E x \in Vbus : DiskChanges(x)) \/ (\E k \in DOMAIN work : SdChanged(k))
           \/ UNCHANGED vars
  <2>1. UNCHANGED <<main, v, known, memory>>
    BY <1>8 DEF DiskChanges, SdChanged, vars
  <2> QED
    BY <1>1, <2>1 DEF Places
<1>9. CASE Cleanup
  <2>1. /\ main' = "free_dma" /\ v' = v /\ known' \subseteq known /\ taken' = taken /\ dma' = dma
        /\ taken[v] = {} /\ pages' \subseteq pages /\ main # "free_dma"
    BY <1>9 DEF Cleanup
  <2>2. \E some \in SUBSET pool[v] : pool' = [pool EXCEPT ![v] = @ \ some]
    BY <1>9 DEF Cleanup
  <2>3. pool' \in [Vbus -> SUBSET (Cache \cup Small)] /\ \A x \in Vbus : pool'[x] \subseteq Cache
    BY <1>1, <2>1, <2>2
  <2> QED
    BY <1>1, <2>1, <2>3 DEF Places
<1>10. CASE FreeDma
  <2>1. main = "free_dma" /\ UNCHANGED <<main, v, known, taken>>
    BY <1>10 DEF FreeDma
  <2>2. PICK b \in dma[v] : dma' = [dma EXCEPT ![v] = @ \ {b}] /\ FreeBlock(b)
    BY <1>10 DEF FreeDma
  <2>3. b \in Blocks /\ b[1] \in DOMAIN Lists /\ Lists[b[1]].order \in Nat
    BY <1>1, <2>2, BlockType, ListType
  <2>4. /\ pages' \subseteq pages
        /\ \/ pool' = pool
           \/ Lists[b[1]].order = 0 /\ pool' = [pool EXCEPT ![v] = @ \cup {PageOf(b)}]
    BY <2>2, <2>3 DEF FreeBlock
  <2>5. Lists[b[1]].order = 0 => PageOf(b) \in Small
    BY <2>3 DEF Small
  <2>6. /\ pool' \in [Vbus -> SUBSET (Cache \cup Small)]
        /\ \A x \in Vbus : x # v => pool'[x] = pool[x]
    BY <1>1, <2>4, <2>5
  <2>7. dma' \in [Vbus -> SUBSET Blocks]
    BY <1>1, <2>2
  <2> QED
    BY <1>1, <2>1, <2>4, <2>6, <2>7 DEF Places
<1>11. CASE Release
  <2>1. /\ main = "free_dma" /\ main' # "free_dma" /\ v' \in Vbus /\ UNCHANGED <<known, dma, taken>>
        /\ pages' \subseteq pages /\ pool' = [pool EXCEPT ![v] = {}]
    BY <1>1, <1>11, LoopStays DEF Release
  <2>2. /\ pool' \in [Vbus -> SUBSET (Cache \cup Small)]
        /\ \A x \in Vbus : pool'[x] \subseteq Cache
    BY <1>1, <2>1
  <2> QED
    BY <1>1, <2>1, <2>2 DEF Places
<1> QED
  BY <1>2, <1>3, <1>4, <1>5, <1>6, <1>7, <1>8, <1>9, <1>10, <1>11 DEF Next

(* Places holds always.                                                    *)
LEMMA PlacesInvariant == Spec => []Places
<1>1. Init => Places
  <2>1. 1 \in Vbus
    BY HostLifeAssumption DEF HostLifeAssumption, Vbus
  <2> QED
    BY <2>1 DEF Init, Places
<1> QED
  BY <1>1, PlacesInductive, PTL DEF Spec

(* Memory only changes hands: everything that is somewhere afterwards was  *)
(* somewhere before, and no page is freed.                                 *)
LEMMA HandsKeepPages ==
  ASSUME Places, ListsLieInPages, abandoned' = abandoned, pages \subseteq pages',
         \A x \in Vbus : dma'[x] \cup pool'[x] \cup taken'[x] \subseteq dma[x] \cup pool[x] \cup taken[x]
  PROVE  ListsLieInPages'
BY DEF ListsLieInPages

(* The step that matters is hpt_free_mem: a page of small blocks leaves    *)
(* with the blocks that lie in it.                                         *)
LEMMA PagesInductive == Places /\ ListsLieInPages /\ [Next]_vars => ListsLieInPages'
<1> SUFFICES ASSUME Places, ListsLieInPages, [Next]_vars PROVE ListsLieInPages'
  OBVIOUS
<1> USE DEF memory, plug
<1>1. /\ v \in Vbus /\ known \subseteq Vbus
      /\ pages \subseteq Vbus \X AllPages
      /\ dma \in [Vbus -> SUBSET Blocks]
      /\ pool \in [Vbus -> SUBSET (Cache \cup Small)]
      /\ taken \in [Vbus -> SUBSET (Blocks \cup Cache)]
      /\ \A x \in Vbus : main # "free_dma" \/ x # v => pool[x] \subseteq Cache
      /\ main = "free_dma" => taken[v] = {}
  BY DEF Places
<1>2. CASE InitOne \/ RegisterHost \/ NoHost \/ AddHost \/ RemoveHosts
           \/ (\E x \in Vbus : DiskChanges(x)) \/ (\E k \in DOMAIN work : SdChanged(k))
           \/ UNCHANGED vars
  <2>1. UNCHANGED <<pages, dma, pool, taken, abandoned>>
    BY <1>2 DEF InitOne, RegisterHost, NoHost, AddHost, RemoveHosts, DiskChanges, SdChanged, vars
  <2> QED
    BY <2>1, HandsKeepPages
<1>3. CASE AllocMem
  <2>1. UNCHANGED <<taken, abandoned>> /\ pages \subseteq pages'
    BY <1>3 DEF AllocMem
  <2>2. \/ UNCHANGED <<dma, pool>>
        \/ /\ dma' = [dma EXCEPT ![v] = Blocks] /\ pool' = [pool EXCEPT ![v] = Cache]
           /\ pages' = pages \cup ({v} \X AllPages)
    BY <1>3 DEF AllocMem, Blocks
  <2>3. CASE UNCHANGED <<dma, pool>>
    BY <2>1, <2>3, HandsKeepPages
  <2>4. CASE /\ dma' = [dma EXCEPT ![v] = Blocks] /\ pool' = [pool EXCEPT ![v] = Cache]
             /\ pages' = pages \cup ({v} \X AllPages)
    <3> SUFFICES ASSUME ~abandoned, NEW x \in Vbus, NEW b \in dma'[x] \cup pool'[x] \cup taken[x]
                 PROVE  <<x, PageOf(b)>> \in pages'
      BY <2>1 DEF ListsLieInPages
    <3>1. CASE x = v
      <4>1. b \in Blocks \cup Cache
        BY <1>1, <2>4, <3>1
      <4> QED
        BY <2>4, <3>1, <4>1, PagesOfAll
    <3>2. CASE x # v
      BY <1>1, <2>1, <2>4, <3>2 DEF ListsLieInPages
    <3> QED
      BY <3>1, <3>2
  <2> QED
    BY <2>2, <2>3, <2>4
<1>4. CASE Initialize
  <2>1. CASE UNCHANGED <<memory, abandoned>>
    BY <2>1, HandsKeepPages
  <2>2. CASE /\ abandoned' = (\E x \in Vbus : taken[x] # {})
             /\ dma' = [x \in Vbus |-> {}] /\ pool' = dma' /\ taken' = taken
    <3> SUFFICES ASSUME ~abandoned' PROVE ListsLieInPages'
      BY DEF ListsLieInPages
    <3>1. \A x \in Vbus : taken'[x] = {} /\ dma'[x] = {} /\ pool'[x] = {}
      BY <2>2
    <3> QED
      BY <3>1 DEF ListsLieInPages
  <2> QED
    BY <1>4, <2>1, <2>2, Zenon DEF Initialize
<1>5. ASSUME NEW x \in Vbus, Takes(x) \/ GivesBack(x) PROVE ListsLieInPages'
  <2>1. abandoned' = abandoned /\ pages' = pages
    BY <1>5 DEF Takes, GivesBack
  <2>2. \A y \in Vbus : dma'[y] \cup pool'[y] \cup taken'[y] \subseteq dma[y] \cup pool[y] \cup taken[y]
    <3>1. CASE Takes(x)
      BY <1>1, <3>1 DEF Takes
    <3>2. CASE GivesBack(x)
      <4>1. PICK b \in taken[x] :
              /\ taken' = [taken EXCEPT ![x] = @ \ {b}]
              /\ IF Len(b) = 3 THEN dma' = [dma EXCEPT ![x] = @ \cup {b}] /\ UNCHANGED pool
                               ELSE pool' = [pool EXCEPT ![x] = @ \cup {b}] /\ UNCHANGED dma
        BY <3>2 DEF GivesBack
      <4> QED
        BY <1>1, <4>1
    <3> QED
      BY <1>5, <3>1, <3>2
  <2> QED
    BY <2>1, <2>2, HandsKeepPages
<1>6. CASE Cleanup
  <2>1. PICK some \in SUBSET pool[v] :
          /\ pool' = [pool EXCEPT ![v] = @ \ some] /\ pages' = pages \ ({v} \X some)
    BY <1>6 DEF Cleanup
  <2>2. taken[v] = {} /\ main # "free_dma" /\ UNCHANGED <<dma, taken, abandoned>>
    BY <1>6 DEF Cleanup
  <2> SUFFICES ASSUME ~abandoned, NEW x \in Vbus, NEW b \in dma[x] \cup pool'[x] \cup taken[x]
               PROVE  <<x, PageOf(b)>> \in pages'
    BY <2>2 DEF ListsLieInPages
  <2>3. b \in dma[x] \cup pool[x] \cup taken[x]
    BY <1>1, <2>1
  <2>4. <<x, PageOf(b)>> \in pages
    BY <2>3 DEF ListsLieInPages
  <2>5. x = v => PageOf(b) \notin some
    <3> SUFFICES ASSUME x = v PROVE PageOf(b) \notin some
      OBVIOUS
    <3>1. some \subseteq Cache
      BY <1>1, <2>1, <2>2
    <3>2. CASE b \in dma[v]
      BY <1>1, <3>1, <3>2, BlockType, CachePage
    <3>3. CASE b \in pool'[v]
      <4>1. b \in Cache /\ b \notin some
        BY <1>1, <2>1, <2>2, <3>3
      <4> QED
        BY <4>1, CachePage
    <3> QED
      BY <2>2, <3>2, <3>3
  <2> QED
    BY <2>1, <2>4, <2>5
<1>7. CASE FreeDma
  <2>1. main = "free_dma" /\ taken[v] = {} /\ UNCHANGED <<taken, abandoned>>
    BY <1>1, <1>7 DEF FreeDma
  <2>2. PICK b \in dma[v] : dma' = [dma EXCEPT ![v] = @ \ {b}] /\ FreeBlock(b)
    BY <1>7 DEF FreeDma
  <2>3. b \in Blocks /\ Lists[b[1]].order \in Nat
    BY <1>1, <2>2, BlockType, ListType
  <2>4. CASE Lists[b[1]].order > 0
    <3>1. pages' = pages \ {<<v, PageOf(b)>>} /\ pool' = pool
      BY <2>2, <2>4 DEF FreeBlock
    <3> SUFFICES ASSUME ~abandoned, NEW x \in Vbus, NEW c \in dma'[x] \cup pool[x] \cup taken[x]
                 PROVE  <<x, PageOf(c)>> \in pages'
      BY <2>1, <3>1 DEF ListsLieInPages
    <3>2. <<x, PageOf(c)>> \in pages /\ (x = v => c # b /\ c \in Blocks \cup Cache \cup Small)
      <4>1. c \in dma[x] \cup pool[x] \cup taken[x]
        BY <1>1, <2>2
      <4>2. b \notin Cache \cup Small
        BY <2>3, BlockType, CachePage DEF Small, PageOf
      <4>3. x = v => c # b
        BY <1>1, <2>1, <2>2, <4>2
      <4> QED
        BY <1>1, <4>1, <4>3 DEF ListsLieInPages
    <3>3. ASSUME x = v PROVE PageOf(c) # PageOf(b)
      <4>1. CASE c \in Blocks
        BY <2>3, <2>4, <3>2, <3>3, <4>1, OwnPage
      <4>2. CASE c \in Cache
        BY <2>3, <4>2, BlockType, CachePage
      <4>3. CASE c \in Small
        <5>1. c[1] = b[1] => Lists[b[1]].order = 0
          BY <4>3 DEF Small, PageOf
        <5> QED
          BY <2>4, <5>1 DEF PageOf
      <4> QED
        BY <3>2, <3>3, <4>1, <4>2, <4>3
    <3> QED
      BY <3>1, <3>2, <3>3
  <2>5. CASE Lists[b[1]].order = 0
    <3>1. /\ pages' = pages
          /\ pool' = pool \/ pool' = [pool EXCEPT ![v] = @ \cup {PageOf(b)}]
      BY <2>2, <2>5 DEF FreeBlock
    <3> SUFFICES ASSUME ~abandoned, NEW x \in Vbus, NEW c \in dma'[x] \cup pool'[x] \cup taken[x]
                 PROVE  <<x, PageOf(c)>> \in pages
      BY <2>1, <3>1 DEF ListsLieInPages
    <3>2. CASE c \in dma[x] \cup pool[x] \cup taken[x]
      BY <3>2 DEF ListsLieInPages
    <3>3. CASE x = v /\ c = PageOf(b)
      <4>1. PageOf(c) = PageOf(b)
        BY <3>3 DEF PageOf
      <4> QED
        BY <2>2, <3>3, <4>1 DEF ListsLieInPages
    <3> QED
      BY <1>1, <2>2, <3>1, <3>2, <3>3
  <2> QED
    BY <2>3, <2>4, <2>5
<1>8. CASE Release
  <2>1. /\ main = "free_dma" /\ dma[v] = {} /\ UNCHANGED <<dma, taken, abandoned>>
        /\ pages' = pages \ ({v} \X pool[v]) /\ pool' = [pool EXCEPT ![v] = {}]
    BY <1>8 DEF Release
  <2>2. \A x \in Vbus : x # v => pool'[x] = pool[x]
    BY <1>1, <2>1
  <2>3. dma[v] = {} /\ pool'[v] = {} /\ taken[v] = {}
    BY <1>1, <2>1
  <2> QED
    BY <2>1, <2>2, <2>3 DEF ListsLieInPages
<1> QED
  BY <1>2, <1>3, <1>4, <1>5, <1>6, <1>7, <1>8 DEF Next

(* For any number of vbuses and any freelists: what is in a list, in the   *)
(* dmapool or in the LDM's hands lies in memory that is allocated.         *)
THEOREM ListsAreBacked == Spec => []ListsLieInPages
<1>1. Init => ListsLieInPages
  BY DEF Init, ListsLieInPages
<1> QED
  BY <1>1, PagesInductive, PlacesInvariant, PTL DEF Spec

-----------------------------------------------------------------------------
(* What the driver still has, stage by stage, when no failure but those of *)
(* CleanUnload has happened.                                               *)
Fine == failed \subseteq {"init_one", "request_irq"}

PagesOf(x) == {page \in AllPages : <<x, page>> \in pages}

(* The host of a vbus, and that the vbuses the unloading has come past are *)
(* no longer known.                                                        *)
Service(x) ==
  /\ main \in {"init_one", "alloc", "initialize"} => host[x] = "none"
  /\ main = "register" => (host[x] # "none" <=> x \in known /\ x < v)
  /\ main \in {"add", "live"} => (host[x] # "none" <=> x \in known)
  /\ main \in {"release", "free_dma"} =>
       IF x < v THEN x \notin known /\ host[x] \in {"none", "released"}
       ELSE /\ host[x] # "none" <=> (x \in known \/ (main = "free_dma" /\ x = v))
            /\ main = "free_dma" /\ x = v => x \notin known
  /\ main = "gone" => x \notin known /\ host[x] \in {"none", "released"}

Services ==
  /\ \A x \in Vbus : Service(x)
  /\ irq \subseteq known
  /\ main \in {"init_one", "alloc", "initialize", "register"} => ~notifier
  /\ main \in {"register", "add", "live"} => known # {}
  /\ main \in {"release", "gone"} /\ notifier => known # {}

HostType == host \in [Vbus -> {"none", "registered", "added", "removed", "released"}]

(* The loop over the vbuses goes on with the next one, or ends.            *)
LEMMA LoopCases ==
  ASSUME v \in Vbus, NEW here, NEW next, Loop(here, next)
  PROVE  /\ v \in Nat /\ N \in Nat /\ v >= 1 /\ v <= N
         /\ \/ v < N /\ main' = here /\ v' = v + 1
            \/ v = N /\ main' = next /\ v' = 1
BY HostLifeAssumption DEF HostLifeAssumption, Vbus, Loop

(* HostType is inductive.                                                  *)
LEMMA HostTypeInductive == Places /\ HostType /\ [Next]_vars => HostType'
<1> SUFFICES ASSUME Places, HostType, [Next]_vars PROVE HostType'
  OBVIOUS
<1> USE DEF HostType
<1>1. CASE RegisterHost \/ AddHost \/ RemoveHosts \/ Release
  BY <1>1 DEF Places, RegisterHost, AddHost, RemoveHosts, Release
<1>2. CASE host' = host
  BY <1>2
<1> QED
  BY <1>1, <1>2 DEF Next, InitOne, AllocMem, Initialize, Takes, GivesBack, DiskChanges,
                    SdChanged, NoHost, Cleanup, FreeDma, vars

(* Services is inductive while nothing but init_one or request_irq fails.  *)
LEMMA ServicesInductive ==
  Places /\ HostType /\ (Fine => Services) /\ [Next]_vars => (Fine => Services)'
<1> SUFFICES ASSUME Places, HostType, Fine => Services, [Next]_vars, Fine' PROVE Services'
  OBVIOUS
<1> USE DEF memory, plug
<1>1. v \in Vbus /\ known \subseteq Vbus /\ HostType /\ v \in Nat /\ \A x \in Vbus : x \in Nat
  BY HostLifeAssumption DEF HostLifeAssumption, Places, Vbus
<1>2. Fine
  BY DEF Fine, Next, InitOne, AllocMem, Initialize, RegisterHost, AddHost, Takes, GivesBack,
         DiskChanges, SdChanged, RemoveHosts, NoHost, Cleanup, FreeDma, Release, vars
<1>3. /\ Services /\ irq \subseteq known
      /\ main \in {"init_one", "alloc", "initialize", "register"} => ~notifier
      /\ main \in {"register", "add", "live"} => known # {}
      /\ main \in {"release", "gone"} /\ notifier => known # {}
  BY <1>2 DEF Services
<1>4. \A x \in Vbus : Service(x)
  BY <1>3 DEF Services
<1>5. CASE InitOne \/ AllocMem
  <2>1. /\ main \in {"init_one", "alloc"} /\ main' \in {"init_one", "alloc", "initialize"}
        /\ known \subseteq known' /\ UNCHANGED <<host, irq, notifier>>
    BY <1>1, <1>5, LoopCases DEF InitOne, AllocMem, Fine
  <2> QED
    BY <1>3, <1>4, <2>1 DEF Services, Service
<1>6. CASE Initialize
  <2>1. main = "initialize" /\ UNCHANGED <<known, host, irq, notifier>>
    BY <1>6, Zenon DEF Initialize
  <2>2. \/ known = {} /\ main' = "gone"
        \/ known # {} /\ Loop("initialize", "register")
    <3>1. failed' # failed \cup {"initialize"}
      BY DEF Fine
    <3> QED
      BY <1>6, <3>1, Zenon DEF Initialize
  <2>3. \/ known = {} /\ main' = "gone"
        \/ known # {} /\ main' = "initialize"
        \/ known # {} /\ main' = "register" /\ v' = 1
    BY <1>1, <2>2, LoopCases
  <2>4. \A x \in Vbus : ~(x < 1)
    BY HostLifeAssumption DEF HostLifeAssumption, Vbus
  <2> QED
    BY <1>3, <1>4, <2>1, <2>3, <2>4 DEF Services, Service
<1>7. CASE RegisterHost
  <2>1. /\ main = "register" /\ known' = known /\ notifier' = (v = N)
        /\ \/ v \notin known /\ host' = host /\ irq' = irq
           \/ v \in known /\ host' = [host EXCEPT ![v] = "registered"] /\ irq' \in {irq, irq \cup {v}}
    BY <1>7 DEF RegisterHost, Fine
  <2>2. \/ v < N /\ main' = "register" /\ v' = v + 1
        \/ v = N /\ main' = "add"
    <3>1. Loop("register", "add")
      BY <1>7 DEF RegisterHost
    <3> QED
      BY <1>1, <3>1, LoopCases
  <2>3. N \in Nat /\ \A x \in Vbus : x <= N /\ (x < v + 1 <=> x < v \/ x = v)
    BY <1>1, HostLifeAssumption DEF HostLifeAssumption, Vbus
  <2>4. \A x \in Vbus : host'[x] # "none" <=> x \in known /\ (x < v \/ x = v)
    BY <1>1, <1>4, <2>1 DEF Service, HostType
  <2>5. \A x \in Vbus : Service(x)'
    BY <1>1, <2>1, <2>2, <2>3, <2>4 DEF Service
  <2>6. main' = "register" => ~notifier'
    <3>1. main' = "register" => v # N
      BY <1>1, <2>2, <2>3
    <3> QED
      BY <2>1, <3>1, Zenon
  <2>7. irq' \subseteq known' /\ known' = known
    BY <1>3, <2>1
  <2> QED
    BY <1>3, <2>1, <2>2, <2>5, <2>6, <2>7 DEF Services
<1>8. CASE AddHost
  <2>1. main = "add" /\ UNCHANGED <<known, irq, notifier>> /\ known # {}
    BY <1>3, <1>8 DEF AddHost
  <2>2. Hosts # {}
    BY <1>1, <1>4, <2>1 DEF Service, Hosts
  <2>3. /\ Loop("add", "live")
        /\ host' = host \/ (v \in Hosts /\ host' = [host EXCEPT ![v] = "added"])
    BY <1>8, <2>2 DEF AddHost, Fine
  <2>4. main' \in {"add", "live"} /\ \A x \in Vbus : host'[x] # "none" <=> host[x] # "none"
    BY <1>1, <2>3, LoopCases DEF Hosts, HostType
  <2> QED
    BY <1>3, <1>4, <2>1, <2>4 DEF Services, Service
<1>9. CASE RemoveHosts
  <2>1. /\ main = "live" /\ main' = "release" /\ v' = 1 /\ UNCHANGED <<known, irq, notifier>>
        /\ host' = [x \in Vbus |-> IF x \in Hosts THEN "removed" ELSE "none"]
    BY <1>9 DEF RemoveHosts
  <2>2. \A x \in Vbus : ~(x < 1)
    BY HostLifeAssumption DEF HostLifeAssumption, Vbus
  <2>3. \A x \in Vbus : host'[x] # "none" <=> x \in known
    BY <1>4, <2>1 DEF Service, Hosts
  <2> QED
    BY <1>3, <2>1, <2>2, <2>3 DEF Services, Service
<1>10. CASE NoHost
  <2>1. /\ main = "release" /\ v \notin known /\ UNCHANGED <<known, host, irq, notifier>>
        /\ host[v] = "none"
    BY <1>1, <1>4, <1>10 DEF NoHost, Hosts, Service
  <2>2. \/ main' = "release" /\ v' = v + 1
        \/ v = N /\ main' = "gone"
    <3>1. Loop("release", "gone")
      BY <1>10 DEF NoHost
    <3> QED
      BY <1>1, <3>1, LoopCases
  <2>3. N \in Nat /\ \A x \in Vbus : x <= N /\ (x < v + 1 <=> x < v \/ x = v)
    BY <1>1, HostLifeAssumption DEF HostLifeAssumption, Vbus
  <2>4. \A x \in Vbus : x < v \/ x = v => x \notin known /\ host[x] \in {"none", "released"}
    BY <1>4, <2>1 DEF Service
  <2>5. \A x \in Vbus : Service(x)'
    BY <1>1, <1>4, <2>1, <2>2, <2>3, <2>4 DEF Service
  <2> QED
    BY <1>3, <2>1, <2>2, <2>5 DEF Services
<1>11. CASE Cleanup
  <2>1. /\ main = "release" /\ main' = "free_dma" /\ v' = v /\ v \in Hosts
        /\ irq' = irq \ {v} /\ known' = known \ {v} /\ UNCHANGED <<host, notifier>>
    BY <1>11 DEF Cleanup
  <2>2. \A x \in Vbus : Service(x)'
    BY <1>1, <1>4, <2>1 DEF Service, Hosts
  <2> QED
    BY <1>3, <2>1, <2>2 DEF Services
<1>12. CASE Release
  <2>1. /\ main = "free_dma" /\ UNCHANGED <<known, irq>>
        /\ host' = [host EXCEPT ![v] = "released"] /\ notifier' = (notifier /\ known # {})
    BY <1>12 DEF Release, LastVbus
  <2>2. \/ main' = "release" /\ v' = v + 1
        \/ v = N /\ main' = "gone"
    <3>1. Loop("release", "gone")
      BY <1>12 DEF Release
    <3> QED
      BY <1>1, <3>1, LoopCases
  <2>3. N \in Nat /\ \A x \in Vbus : x <= N /\ (x < v + 1 <=> x < v \/ x = v)
    BY <1>1, HostLifeAssumption DEF HostLifeAssumption, Vbus
  <2>4. /\ \A x \in Vbus : x < v \/ x = v => x \notin known /\ host'[x] \in {"none", "released"}
        /\ \A x \in Vbus : x # v => host'[x] = host[x]
    BY <1>1, <1>4, <2>1 DEF Service, HostType
  <2>5. \A x \in Vbus : Service(x)'
    BY <1>1, <1>4, <2>1, <2>2, <2>3, <2>4 DEF Service
  <2> QED
    BY <1>3, <2>1, <2>2, <2>5 DEF Services
<1>13. CASE (\E x \in Vbus : Takes(x) \/ GivesBack(x) \/ DiskChanges(x))
            \/ (\E k \in DOMAIN work : SdChanged(k)) \/ FreeDma \/ UNCHANGED vars
  <2>1. UNCHANGED <<main, v, known, host, irq, notifier>>
    BY <1>13 DEF Takes, GivesBack, DiskChanges, SdChanged, FreeDma, vars
  <2> QED
    BY <1>3, <1>4, <2>1 DEF Services, Service
<1> QED
  BY <1>5, <1>6, <1>7, <1>8, <1>9, <1>10, <1>11, <1>12, <1>13 DEF Next

(* The memory of a vbus: complete from its hpt_alloc_mem to its            *)
(* hpt_free_mem, then what hpt_free_mem still finds, otherwise none.       *)
Has(x) == x \in known /\ main # "init_one" /\ (main = "alloc" => x < v)

Stock(x) ==
  IF Has(x) THEN /\ PagesOf(x) = AllPages
                 /\ dma[x] \cup pool[x] \cup taken[x] = Blocks \cup Cache
  ELSE IF main = "free_dma" /\ x = v THEN PagesOf(x) = FreeablePages(x)
  ELSE PagesOf(x) = {}

Stocks == \A x \in Vbus : Stock(x)

(* A step that keeps a vbus's pages and the sum of its lists.              *)
LEMMA StockKept ==
  ASSUME NEW x \in Vbus, Stock(x), pages' = pages, Has(x)' <=> Has(x),
         ~(main = "free_dma" /\ x = v), ~(main = "free_dma" /\ x = v)',
         dma'[x] \cup pool'[x] \cup taken'[x] = dma[x] \cup pool[x] \cup taken[x]
  PROVE  Stock(x)'
BY DEF Stock, PagesOf

(* There are CachePages cache pages.                                       *)
LEMMA CacheCount == IsFiniteSet(Cache) /\ Cardinality(Cache) = CachePages
<1> DEFINE f == [k \in 1 .. CachePages |-> <<0, k>>]
<1>1. CachePages \in Nat
  BY HostLifeAssumption DEF HostLifeAssumption
<1>2. IsFiniteSet(1 .. CachePages) /\ Cardinality(1 .. CachePages) = CachePages
  BY <1>1, FS_Interval
<1>3. f \in Bijection(1 .. CachePages, Cache)
  <2>1. f \in [1 .. CachePages -> Cache]
    BY DEF Cache
  <2>2. \A j, k \in 1 .. CachePages : f[j] = f[k] => j = k
    OBVIOUS
  <2>3. \A c \in Cache : \E k \in 1 .. CachePages : f[k] = c
    BY DEF Cache
  <2> QED
    BY <2>1, <2>2, <2>3 DEF Bijection, Injection, Surjection, IsInjective
<1>4. ExistsBijection(1 .. CachePages, Cache)
  BY <1>3 DEF ExistsBijection
<1> QED
  BY <1>2, <1>4, FS_Bijection

(* hpt_cleanup with the LDM's hands empty: the cache pages leave, and what *)
(* hpt_free_mem will find are all the other pages.                         *)
LEMMA CleanupLeavesBlocks ==
  ASSUME Places, Cleanup, PagesOf(v) = AllPages,
         dma[v] \cup pool[v] \cup taken[v] = Blocks \cup Cache
  PROVE  PagesOf(v)' = FreeablePages(v)'
<1>1. PICK some \in SUBSET pool[v] :
        /\ Cardinality(some) = CachePages
        /\ pool' = [pool EXCEPT ![v] = @ \ some] /\ pages' = pages \ ({v} \X some)
  BY DEF Cleanup
<1>2. /\ v \in Vbus /\ dma[v] \subseteq Blocks /\ pool[v] \subseteq Cache /\ taken[v] = {}
      /\ pool \in [Vbus -> SUBSET (Cache \cup Small)] /\ dma' = dma /\ v' = v
  BY DEF Cleanup, Places
<1>3. dma[v] = Blocks /\ pool[v] = Cache
  BY <1>2, CachePage
<1>4. some = Cache
  BY <1>1, <1>3, CacheCount, FS_Subset
<1>5. pool'[v] = {}
  BY <1>1, <1>2, <1>3, <1>4
<1>6. FreeablePages(v)' = {PageOf(b) : b \in {c \in Blocks : c[3] = 0}}
  BY <1>2, <1>3, <1>5 DEF FreeablePages
<1>7. PagesOf(v)' = AllPages \ Cache
  BY <1>1, <1>2, <1>4 DEF PagesOf
<1>8. AllPages \ Cache = {PageOf(b) : b \in {c \in Blocks : c[3] = 0}}
  <2>1. \A b \in Blocks : PageOf(b) \in AllPages /\ PageOf(b) \notin Cache
    BY PagesOfAll, BlockType, CachePage
  <2>2. \A page \in AllPages : page \notin Cache => \E b \in Blocks : b[3] = 0 /\ PageOf(b) = page
    BY PagesOfAll
  <2> QED
    BY <2>1, <2>2
<1> QED
  BY <1>6, <1>7, <1>8

(* One turn of the loop of hpt_free_mem: a page that is freed is one that  *)
(* will not be found any more.                                             *)
LEMMA FreeKeepsFreeable ==
  ASSUME Places, FreeDma, PagesOf(v) = FreeablePages(v)
  PROVE  PagesOf(v)' = FreeablePages(v)'
<1>1. PICK b \in dma[v] : dma' = [dma EXCEPT ![v] = @ \ {b}] /\ FreeBlock(b)
  BY DEF FreeDma
<1>2. /\ v \in Vbus /\ dma \in [Vbus -> SUBSET Blocks] /\ dma[v] \subseteq Blocks
      /\ pool \in [Vbus -> SUBSET (Cache \cup Small)] /\ pool[v] \subseteq Cache \cup Small
      /\ v' = v /\ b \in Blocks /\ dma'[v] = dma[v] \ {b}
  BY <1>1 DEF Places, FreeDma
<1>3. b[1] \in DOMAIN Lists /\ Lists[b[1]].order \in Nat /\ PageOf(b) \in AllPages
  BY <1>2, BlockType, ListType, PagesOfAll
<1> DEFINE Aligned == {c \in dma[v] : c[3] = 0}
<1> DEFINE AlignedAfter == {c \in dma[v] \ {b} : c[3] = 0}
<1>4. /\ FreeablePages(v) = pool[v] \cup {PageOf(c) : c \in Aligned}
      /\ FreeablePages(v)' = pool'[v] \cup {PageOf(c) : c \in AlignedAfter}
  BY <1>2 DEF FreeablePages
<1>5. CASE Lists[b[1]].order > 0
  <2>1. pages' = pages \ {<<v, PageOf(b)>>} /\ pool' = pool
    BY <1>1, <1>5 DEF FreeBlock
  <2>2. PagesOf(v)' = PagesOf(v) \ {PageOf(b)}
    BY <1>2, <2>1 DEF PagesOf
  <2>3. b[3] = 0
    BY <1>2, <1>5, BlockType
  <2>4. \A c \in AlignedAfter : PageOf(c) # PageOf(b)
    BY <1>2, <1>5, OwnPage
  <2>5. PageOf(b) \notin pool[v]
    <3>1. PageOf(b) \notin Cache
      BY <1>2, BlockType, CachePage
    <3>2. PageOf(b) \notin Small
      BY <1>5 DEF Small, PageOf
    <3> QED
      BY <1>2, <3>1, <3>2
  <2>6. {PageOf(c) : c \in AlignedAfter} = {PageOf(c) : c \in Aligned} \ {PageOf(b)}
    BY <2>4
  <2> QED
    BY <1>4, <2>1, <2>2, <2>5, <2>6
<1>6. CASE Lists[b[1]].order = 0
  <2>1. /\ pages' = pages
        /\ pool' = IF b[3] = 0 THEN [pool EXCEPT ![v] = @ \cup {PageOf(b)}] ELSE pool
    BY <1>1, <1>6 DEF FreeBlock
  <2>2. PagesOf(v)' = PagesOf(v)
    BY <1>2, <2>1 DEF PagesOf
  <2>3. CASE b[3] = 0
    <3>1. pool'[v] = pool[v] \cup {PageOf(b)} /\ b \in Aligned
      BY <1>1, <1>2, <2>1, <2>3
    <3>2. {PageOf(c) : c \in Aligned} = {PageOf(c) : c \in AlignedAfter} \cup {PageOf(b)}
      BY <3>1
    <3> QED
      BY <1>4, <2>2, <3>1, <3>2
  <2>4. CASE b[3] # 0
    <3>1. AlignedAfter = Aligned /\ pool' = pool
      BY <2>1, <2>4
    <3> QED
      BY <1>4, <2>2, <3>1
  <2> QED
    BY <2>3, <2>4
<1> QED
  BY <1>3, <1>5, <1>6

(* Stocks is inductive while nothing but init_one or request_irq fails.    *)
LEMMA StocksInductive ==
  ASSUME Places, HostType, Fine => Services, Fine => Stocks, [Next]_vars, Fine'
  PROVE  Stocks'
<1> USE DEF memory, plug
<1>1. /\ v \in Vbus /\ v \in Nat /\ known \subseteq Vbus /\ \A x \in Vbus : x \in Nat
      /\ pages \subseteq Vbus \X AllPages
      /\ dma \in [Vbus -> SUBSET Blocks]
      /\ pool \in [Vbus -> SUBSET (Cache \cup Small)]
      /\ taken \in [Vbus -> SUBSET (Blocks \cup Cache)]
      /\ main = "free_dma" => taken[v] = {}
  BY HostLifeAssumption DEF HostLifeAssumption, Places, Vbus
<1>2. Fine
  BY DEF Fine, Next, InitOne, AllocMem, Initialize, RegisterHost, AddHost, Takes, GivesBack,
         DiskChanges, SdChanged, RemoveHosts, NoHost, Cleanup, FreeDma, Release, vars
<1>3. \A x \in Vbus : Stock(x)
  BY <1>2 DEF Stocks
<1>4. \A x \in Vbus : Service(x)
  BY <1>2 DEF Services
<1>5. CASE InitOne
  <2>1. main = "init_one" /\ UNCHANGED memory
        /\ (main' = "init_one" \/ (main' = "alloc" /\ v' = 1))
    BY <1>1, <1>5, LoopCases DEF InitOne
  <2>2. \A x \in Vbus : ~(x < 1)
    BY HostLifeAssumption DEF HostLifeAssumption, Vbus
  <2> QED
    BY <1>3, <2>1, <2>2 DEF Stocks, Stock, Has, PagesOf
<1>6. CASE AllocMem
  <2>1. main = "alloc" /\ UNCHANGED <<known, taken>> /\ Loop("alloc", "initialize")
    BY <1>6 DEF AllocMem, Fine
  <2>2. N \in Nat /\ v <= N /\ \A x \in Vbus : x <= N /\ (x < v + 1 <=> x < v \/ x = v)
    BY <1>1, HostLifeAssumption DEF HostLifeAssumption, Vbus
  <2>3. (main' = "alloc" /\ v' = v + 1) \/ (v = N /\ main' = "initialize")
    BY <1>1, <2>1, LoopCases
  <2>4. \A x \in Vbus : Has(x)' <=> x \in known /\ (x < v \/ x = v)
    BY <1>1, <2>1, <2>2, <2>3 DEF Has
  <2>5. CASE v \notin known
    <3>1. UNCHANGED memory
      BY <1>6, <2>5 DEF AllocMem
    <3>2. \A x \in Vbus : Has(x)' <=> Has(x)
      BY <2>1, <2>4, <2>5 DEF Has
    <3> QED
      BY <1>3, <2>1, <2>3, <3>1, <3>2 DEF Stocks, Stock, PagesOf
  <2>6. CASE v \in known
    <3>1. /\ pages' = pages \cup ({v} \X AllPages)
          /\ dma' = [dma EXCEPT ![v] = Blocks] /\ pool' = [pool EXCEPT ![v] = Cache]
      BY <1>6, <2>6 DEF AllocMem, Fine, Blocks
    <3>2. dma'[v] = Blocks /\ pool'[v] = Cache
      BY <1>1, <3>1
    <3>3. ASSUME NEW x \in Vbus, x = v PROVE Stock(x)'
      <4>1. Has(x)' /\ PagesOf(x)' = AllPages
        BY <1>1, <2>4, <2>6, <3>1, <3>3 DEF PagesOf
      <4> QED
        BY <1>1, <2>1, <3>2, <3>3, <4>1 DEF Stock
    <3>5. ASSUME NEW x \in Vbus, x # v PROVE Stock(x)'
      <4>1. Has(x)' <=> Has(x)
        BY <2>1, <2>4, <3>5 DEF Has
      <4>2. dma'[x] = dma[x] /\ pool'[x] = pool[x] /\ taken'[x] = taken[x]
        BY <1>1, <2>1, <3>1, <3>5
      <4>3. PagesOf(x)' = PagesOf(x)
        BY <3>1, <3>5 DEF PagesOf
      <4> QED
        BY <1>3, <2>1, <2>3, <4>1, <4>2, <4>3 DEF Stock
    <3> QED
      BY <3>3, <3>5 DEF Stocks
  <2> QED
    BY <2>5, <2>6
<1>7. CASE Initialize
  <2>1. failed' # failed \cup {"initialize"}
    BY DEF Fine
  <2>2. main = "initialize" /\ UNCHANGED <<known, memory>>
        /\ ((known = {} /\ main' = "gone") \/ (known # {} /\ Loop("initialize", "register")))
    BY <1>7, <2>1, Zenon DEF Initialize
  <2>3. main' \in {"initialize", "register", "gone"} /\ (main' = "gone" => known = {})
    BY <1>1, <2>2, LoopCases
  <2> QED
    BY <1>3, <2>2, <2>3 DEF Stocks, Stock, Has, PagesOf
<1>8. CASE RegisterHost
  <2>1. main = "register" /\ UNCHANGED <<known, memory>> /\ Loop("register", "add")
    BY <1>8 DEF RegisterHost
  <2>2. main' \in {"register", "add"}
    BY <1>1, <2>1, LoopCases
  <2> QED
    BY <1>3, <2>1, <2>2 DEF Stocks, Stock, Has, PagesOf
<1>9. CASE AddHost \/ RemoveHosts
  <2>1. UNCHANGED <<known, memory>> /\ main \in {"add", "live"}
    BY <1>9 DEF AddHost, RemoveHosts
  <2>2. main = "add" => Hosts # {}
    BY <1>1, <1>2, <1>4 DEF Services, Service, Hosts
  <2>3. main' \in {"add", "live", "release"}
    BY <1>1, <1>9, <2>2, LoopCases DEF AddHost, RemoveHosts, Fine
  <2> QED
    BY <1>3, <2>1, <2>3 DEF Stocks, Stock, Has, PagesOf
<1>10. ASSUME NEW x \in Vbus, Takes(x) PROVE Stocks'
  <2>1. UNCHANGED <<main, v, known, pages>> /\ main # "free_dma"
    BY <1>10 DEF Takes
  <2>2. \A y \in Vbus : dma'[y] \cup pool'[y] \cup taken'[y] = dma[y] \cup pool[y] \cup taken[y]
    BY <1>1, <1>10 DEF Takes
  <2> QED
    BY <1>3, <2>1, <2>2 DEF Stocks, Stock, Has, PagesOf
<1>11. ASSUME NEW x \in Vbus, GivesBack(x) PROVE Stocks'
  <2>1. UNCHANGED <<main, v, known, pages>>
    BY <1>11 DEF GivesBack
  <2>2. PICK b \in taken[x] :
          /\ taken' = [taken EXCEPT ![x] = @ \ {b}]
          /\ IF Len(b) = 3 THEN dma' = [dma EXCEPT ![x] = @ \cup {b}] /\ UNCHANGED pool
                           ELSE pool' = [pool EXCEPT ![x] = @ \cup {b}] /\ UNCHANGED dma
    BY <1>11 DEF GivesBack
  <2>3. main # "free_dma" \/ x # v
    BY <1>1, <2>2
  <2>4. \A y \in Vbus : dma'[y] \cup pool'[y] \cup taken'[y] = dma[y] \cup pool[y] \cup taken[y]
    BY <1>1, <2>2
  <2>5. main = "free_dma" => dma'[v] = dma[v] /\ pool'[v] = pool[v]
    BY <1>1, <2>2, <2>3
  <2> QED
    BY <1>3, <2>1, <2>4, <2>5 DEF Stocks, Stock, Has, PagesOf, FreeablePages
<1>12. CASE (\E x \in Vbus : DiskChanges(x)) \/ (\E k \in DOMAIN work : SdChanged(k))
            \/ UNCHANGED vars
  <2>1. UNCHANGED <<main, v, known, memory>>
    BY <1>12 DEF DiskChanges, SdChanged, vars
  <2> QED
    BY <1>3, <2>1 DEF Stocks, Stock, Has, PagesOf, FreeablePages
<1>13. CASE NoHost
  <2>1. main = "release" /\ UNCHANGED <<known, memory>> /\ Loop("release", "gone")
    BY <1>13 DEF NoHost
  <2>2. main' \in {"release", "gone"}
    BY <1>1, <2>1, LoopCases
  <2> QED
    BY <1>3, <2>1, <2>2 DEF Stocks, Stock, Has, PagesOf
<1>14. CASE Cleanup
  <2>1. /\ main = "release" /\ main' = "free_dma" /\ v \in Hosts /\ known' = known \ {v}
        /\ UNCHANGED <<v, dma, taken>>
        /\ \E some : pages' = pages \ ({v} \X some) /\ pool' = [pool EXCEPT ![v] = @ \ some]
    BY <1>14 DEF Cleanup
  <2>2. v \in known
    BY <1>1, <1>4, <2>1 DEF Service, Hosts
  <2>3. Stock(v)'
    <3>1. PagesOf(v) = AllPages /\ dma[v] \cup pool[v] \cup taken[v] = Blocks \cup Cache
      BY <1>1, <1>3, <2>1, <2>2 DEF Stock, Has
    <3>2. PagesOf(v)' = FreeablePages(v)'
      BY <1>14, <3>1, CleanupLeavesBlocks
    <3> QED
      BY <2>1, <3>2 DEF Stock, Has
  <2>4. ASSUME NEW x \in Vbus, x # v PROVE Stock(x)'
    <3>1. /\ Has(x)' <=> Has(x)
          /\ dma'[x] = dma[x] /\ pool'[x] = pool[x] /\ taken'[x] = taken[x]
          /\ PagesOf(x)' = PagesOf(x)
      BY <1>1, <2>1, <2>4 DEF Has, PagesOf
    <3> QED
      BY <1>3, <2>1, <2>4, <3>1 DEF Stock
  <2> QED
    BY <2>1, <2>3, <2>4 DEF Stocks
<1>15. CASE FreeDma
  <2>1. main = "free_dma" /\ UNCHANGED <<main, v, known, taken>>
    BY <1>15 DEF FreeDma
  <2>2. v \notin known
    BY <1>1, <1>4, <2>1 DEF Service
  <2>3. Stock(v)'
    <3>1. PagesOf(v) = FreeablePages(v)
      BY <1>1, <1>3, <2>1, <2>2 DEF Stock, Has
    <3>2. PagesOf(v)' = FreeablePages(v)'
      BY <1>15, <3>1, FreeKeepsFreeable
    <3> QED
      BY <2>1, <2>2, <3>2 DEF Stock, Has
  <2>4. ASSUME NEW x \in Vbus, x # v PROVE Stock(x)'
    <3>1. dma'[x] = dma[x] /\ pool'[x] = pool[x] /\ PagesOf(x)' = PagesOf(x)
      BY <1>1, <1>15, <2>4 DEF FreeDma, FreeBlock, PagesOf
    <3> QED
      BY <1>3, <2>1, <2>4, <3>1 DEF Stock, Has
  <2> QED
    BY <2>1, <2>3, <2>4 DEF Stocks
<1>16. CASE Release
  <2>1. /\ main = "free_dma" /\ dma[v] = {} /\ UNCHANGED <<known, dma, taken>>
        /\ pages' = pages \ ({v} \X pool[v]) /\ pool' = [pool EXCEPT ![v] = {}]
        /\ Loop("release", "gone")
    BY <1>16 DEF Release
  <2>2. v \notin known /\ main' \in {"release", "gone"}
    BY <1>1, <1>4, <2>1, LoopCases DEF Service
  <2>3. PagesOf(v) = pool[v]
    <3>1. PagesOf(v) = FreeablePages(v)
      BY <1>1, <1>3, <2>1, <2>2 DEF Stock, Has
    <3> QED
      BY <2>1, <3>1 DEF FreeablePages
  <2>4. ASSUME NEW x \in Vbus PROVE Stock(x)'
    <3>1. CASE x = v
      <4>1. PagesOf(x)' = {} /\ ~Has(x)' /\ main' # "free_dma"
        BY <2>1, <2>2, <2>3, <3>1 DEF PagesOf, Has
      <4> QED
        BY <4>1 DEF Stock
    <3>2. CASE x # v
      <4>1. /\ Has(x)' <=> Has(x)
            /\ dma'[x] = dma[x] /\ pool'[x] = pool[x] /\ taken'[x] = taken[x]
            /\ PagesOf(x)' = PagesOf(x) /\ main' # "free_dma"
        BY <1>1, <2>1, <2>2, <3>2 DEF Has, PagesOf
      <4> QED
        BY <1>3, <3>2, <4>1 DEF Stock
    <3> QED
      BY <3>1, <3>2
  <2> QED
    BY <2>4 DEF Stocks
<1> QED
  BY <1>5, <1>6, <1>7, <1>8, <1>9, <1>10, <1>11, <1>12, <1>13, <1>14, <1>15, <1>16 DEF Next

UnloadInv == Places /\ HostType /\ (Fine => Services) /\ (Fine => Stocks)

(* For any number of vbuses and any freelists: a driver that was loaded    *)
(* leaves no memory, interrupt, notifier, vbus or host behind.             *)
THEOREM UnloadIsClean == Spec => []CleanUnload
<1>1. Init => UnloadInv
  <2> SUFFICES ASSUME Init PROVE UnloadInv
    OBVIOUS
  <2>1. 1 \in Vbus
    BY HostLifeAssumption DEF HostLifeAssumption, Vbus
  <2>2. Places /\ HostType
    BY <2>1 DEF Init, Places, HostType
  <2>3. Services
    BY DEF Init, Services, Service
  <2>4. Stocks
    BY DEF Init, Stocks, Stock, Has, PagesOf
  <2> QED
    BY <2>2, <2>3, <2>4 DEF UnloadInv
<1>2. UnloadInv /\ [Next]_vars => UnloadInv'
  <2> SUFFICES ASSUME UnloadInv, [Next]_vars PROVE UnloadInv'
    OBVIOUS
  <2>1. Places' /\ HostType' /\ (Fine => Services)'
    BY PlacesInductive, HostTypeInductive, ServicesInductive DEF UnloadInv
  <2>2. Fine' => Stocks'
    BY StocksInductive DEF UnloadInv
  <2> QED
    BY <2>1, <2>2 DEF UnloadInv
<1>3. UnloadInv => CleanUnload
  <2> SUFFICES ASSUME UnloadInv, main = "gone", Fine
               PROVE  /\ pages = {} /\ irq = {} /\ known = {} /\ ~notifier
                      /\ \A x \in Vbus : host[x] \in {"none", "released"}
    BY DEF CleanUnload, Fine
  <2>1. /\ \A x \in Vbus : x \notin known /\ host[x] \in {"none", "released"}
        /\ irq \subseteq known /\ (notifier => known # {})
    BY DEF UnloadInv, Services, Service
  <2>2. known = {} /\ irq = {}
    BY <2>1 DEF UnloadInv, Places
  <2>3. pages = {}
    <3>1. \A x \in Vbus : PagesOf(x) = {}
      BY <2>2 DEF UnloadInv, Stocks, Stock, Has
    <3> QED
      BY <3>1 DEF UnloadInv, Places, PagesOf
  <2> QED
    BY <2>1, <2>2, <2>3
<1> QED
  BY <1>1, <1>2, <1>3, PTL DEF Spec

-----------------------------------------------------------------------------
(* Hot plug.  Unless they crossed, one change of a disk waits at a time,   *)
(* and it says what the LDM has now; and work begins with the host.        *)
PlugType ==
  /\ work \in Seq([vbus : Vbus, to_register : BOOLEAN])
  /\ registered \in [Vbus -> BOOLEAN] /\ present \in [Vbus -> BOOLEAN]
  /\ crossed \in [Vbus -> BOOLEAN]

Idle(x) == \A k \in DOMAIN work : work[k].vbus # x

NotYetAdded ==
  /\ main \in {"init_one", "alloc", "initialize", "register"} =>
       \A x \in Vbus : host[x] \in {"none", "registered"}
  /\ main = "add" => \A x \in Vbus : x >= v => host[x] \in {"none", "registered"}
  /\ \A x \in Vbus : host[x] \in {"none", "registered"} => Idle(x)

Follows(x) ==
  host[x] = "added" /\ ~crossed[x] =>
    /\ Idle(x) => (present[x] <=> registered[x])
    /\ \A k \in DOMAIN work : work[k].vbus = x =>
         /\ work[k].to_register <=> registered[x]
         /\ \A j \in DOMAIN work : work[j].vbus = x => j = k

PlugInv == PlugType /\ NotYetAdded /\ \A x \in Vbus : Follows(x)

(* What is left of a sequence without its k-th element.                    *)
LEMMA Removed ==
  ASSUME NEW S, NEW s \in Seq(S), NEW k \in DOMAIN s
  PROVE  LET r == SubSeq(s, 1, k - 1) \o SubSeq(s, k + 1, Len(s))
         IN  /\ r \in Seq(S) /\ DOMAIN r = 1 .. Len(s) - 1
             /\ \A j \in DOMAIN r : r[j] = s[IF j < k THEN j ELSE j + 1]
             /\ \A j \in DOMAIN s \ {k} : \E i \in DOMAIN r : r[i] = s[j]
<1> DEFINE a == SubSeq(s, 1, k - 1)
<1> DEFINE b == SubSeq(s, k + 1, Len(s))
<1> DEFINE r == a \o b
<1>1. k \in 1 .. Len(s) /\ Len(s) \in Nat /\ DOMAIN s = 1 .. Len(s)
  BY LenProperties
<1>2. a \in Seq(S) /\ Len(a) = k - 1 /\ \A i \in 1 .. k - 1 : a[i] = s[i]
  <2>1. \A i \in 1 .. k - 1 : i \in 1 .. Len(s)
    BY <1>1
  <2> QED
    BY <1>1, <2>1, SubSeqProperties
<1>3. b \in Seq(S) /\ Len(b) = Len(s) - k /\ \A i \in 1 .. Len(s) - k : b[i] = s[k + i]
  <2>1. CASE k = Len(s)
    BY <1>1, <2>1, SubSeqProperties
  <2>2. CASE k < Len(s)
    <3>1. k + 1 \in 1 .. Len(s) /\ k + 1 <= Len(s) + 1
      BY <1>1, <2>2
    <3>2. b \in Seq(S) /\ Len(b) = Len(s) - (k + 1) + 1
          /\ \A i \in 1 .. Len(s) - (k + 1) + 1 : b[i] = s[k + 1 + i - 1]
      BY <1>1, <3>1, SubSeqProperties
    <3> QED
      BY <1>1, <3>2
  <2> QED
    BY <1>1, <2>1, <2>2
<1> HIDE DEF a, b
<1>4. /\ r \in Seq(S) /\ Len(r) = Len(s) - 1
      /\ \A i \in 1 .. Len(s) - 1 : r[i] = IF i < k THEN a[i] ELSE b[i - (k - 1)]
  <2>1. /\ r \in Seq(S) /\ Len(r) = Len(a) + Len(b)
        /\ \A i \in 1 .. Len(a) + Len(b) : r[i] = IF i <= Len(a) THEN a[i] ELSE b[i - Len(a)]
    BY <1>2, <1>3, ConcatProperties
  <2> QED
    BY <1>1, <1>2, <1>3, <2>1
<1>5. DOMAIN r = 1 .. Len(s) - 1
  BY <1>4, LenProperties
<1> HIDE DEF r
<1>6. ASSUME NEW j \in DOMAIN r PROVE r[j] = s[IF j < k THEN j ELSE j + 1]
  <2>1. CASE j < k
    BY <1>1, <1>2, <1>4, <1>5, <2>1
  <2>2. CASE j >= k
    <3>1. j - (k - 1) \in 1 .. Len(s) - k /\ k + (j - (k - 1)) = j + 1
      BY <1>1, <1>5, <2>2
    <3> QED
      BY <1>1, <1>3, <1>4, <1>5, <2>2, <3>1
  <2> QED
    BY <1>1, <1>5, <2>1, <2>2
<1>7. ASSUME NEW j \in DOMAIN s \ {k} PROVE \E i \in DOMAIN r : r[i] = s[j]
  <2>1. CASE j < k
    <3>1. j \in DOMAIN r
      BY <1>1, <1>5, <2>1
    <3> QED
      BY <1>6, <2>1, <3>1
  <2>2. CASE j > k
    <3>1. j - 1 \in DOMAIN r /\ ~(j - 1 < k) /\ (j - 1) + 1 = j
      BY <1>1, <1>5, <2>2
    <3> QED
      BY <1>6, <3>1
  <2> QED
    BY <1>1, <2>1, <2>2
<1> QED
  BY <1>4, <1>5, <1>6, <1>7 DEF r, a, b

(* PlugInv is inductive: every change is queued, taken or lost as a whole. *)
LEMMA PlugInductive == Places /\ HostType /\ PlugInv /\ [Next]_vars => PlugInv'
<1> SUFFICES ASSUME Places, HostType, PlugInv, [Next]_vars PROVE PlugInv'
  OBVIOUS
<1> USE DEF plug, HostType
<1>1. /\ v \in Vbus /\ v \in Nat /\ \A x \in Vbus : x \in Nat
      /\ work \in Seq([vbus : Vbus, to_register : BOOLEAN])
      /\ DOMAIN work = 1 .. Len(work) /\ Len(work) \in Nat
      /\ registered \in [Vbus -> BOOLEAN] /\ present \in [Vbus -> BOOLEAN]
      /\ crossed \in [Vbus -> BOOLEAN]
  <2> DEFINE R == [vbus : Vbus, to_register : BOOLEAN]
  <2>1. work \in Seq(R)
    BY DEF PlugInv, PlugType
  <2> HIDE DEF R
  <2>2. DOMAIN work = 1 .. Len(work) /\ Len(work) \in Nat
    BY <2>1, LenProperties
  <2>3. v \in Vbus /\ v \in Nat /\ \A x \in Vbus : x \in Nat
    BY HostLifeAssumption DEF HostLifeAssumption, Places, Vbus
  <2> QED
    BY <2>1, <2>2, <2>3 DEF PlugInv, PlugType, R
<1>2. NotYetAdded /\ \A x \in Vbus : Follows(x)
  BY DEF PlugInv
<1>3. ASSUME UNCHANGED plug, host' = host, main' = "add" => main = "add" /\ v' = v,
             main' \in {"init_one", "alloc", "initialize", "register"} =>
               main \in {"init_one", "alloc", "initialize", "register"}
      PROVE  PlugInv'
  BY <1>2, <1>3 DEF PlugInv, PlugType, NotYetAdded, Follows, Idle
<1>4. CASE InitOne \/ AllocMem
  <2>1. host' = host /\ main \in {"init_one", "alloc"} /\ main' # "add" /\ UNCHANGED plug
    BY <1>1, <1>4, LoopCases DEF InitOne, AllocMem
  <2> QED
    BY <1>3, <2>1
<1>5. CASE Initialize
  <2>1. host' = host /\ main = "initialize" /\ UNCHANGED plug
        /\ (main' = "gone" \/ Loop("initialize", "register"))
    BY <1>5, Zenon DEF Initialize
  <2>2. main' # "add"
    BY <1>1, <2>1, LoopCases
  <2> QED
    BY <1>3, <2>1, <2>2
<1>6. CASE RegisterHost
  <2>1. main = "register" /\ host' \in {host, [host EXCEPT ![v] = "registered"]} /\ UNCHANGED plug
    BY <1>6 DEF RegisterHost
  <2>2. \A x \in Vbus : host[x] \in {"none", "registered"} /\ host'[x] \in {"none", "registered"}
    BY <1>2, <2>1 DEF NotYetAdded
  <2> QED
    BY <1>2, <2>1, <2>2 DEF PlugInv, PlugType, NotYetAdded, Follows, Idle
<1>7. CASE AddHost
  <2>1. main = "add" /\ UNCHANGED <<work, crossed>>
    BY <1>7 DEF AddHost
  <2>2. CASE UNCHANGED <<host, present, registered>> /\ main' = "gone"
    BY <1>3, <2>1, <2>2
  <2>3. CASE UNCHANGED <<host, present, registered>> /\ Loop("add", "live") /\ v \notin Hosts
    <3>1. main' = "live" \/ (main' = "add" /\ v' = v + 1)
      BY <1>1, <2>3, LoopCases
    <3>2. main' = "add" => \A x \in Vbus : x >= v' => x >= v
      BY <1>1, <3>1
    <3>3. NotYetAdded'
      BY <1>2, <2>1, <2>3, <3>1, <3>2 DEF NotYetAdded, Idle
    <3> QED
      BY <1>2, <2>1, <2>3, <3>3 DEF PlugInv, PlugType, Follows, Idle
  <2>4. CASE /\ Loop("add", "live") /\ host' = [host EXCEPT ![v] = "added"]
             /\ registered' = [registered EXCEPT ![v] = TRUE]
             /\ present' = [present EXCEPT ![v] = TRUE]
    <3>1. main' = "live" \/ (main' = "add" /\ v' = v + 1)
      BY <1>1, <2>4, LoopCases
    <3>2. main' = "add" => \A x \in Vbus : x >= v' => x >= v /\ x # v
      BY <1>1, <3>1
    <3>3. /\ \A x \in Vbus : x # v => /\ host'[x] = host[x] /\ present'[x] = present[x]
                                      /\ registered'[x] = registered[x]
          /\ host'[v] = "added" /\ registered'[v] = TRUE /\ present'[v] = TRUE
      BY <1>1, <2>4
    <3>4. Idle(v) /\ \A x \in Vbus : Idle(x)' <=> Idle(x)
      BY <1>1, <1>2, <2>1 DEF NotYetAdded, Idle
    <3>5. NotYetAdded'
      BY <1>2, <2>1, <3>1, <3>2, <3>3, <3>4 DEF NotYetAdded
    <3>6. \A x \in Vbus : x # v => Follows(x)'
      BY <1>2, <2>1, <3>3, <3>4 DEF Follows
    <3>7. \A x \in Vbus : x = v => Follows(x)'
      BY <2>1, <3>3, <3>4 DEF Follows, Idle
    <3>8. PlugType'
      BY <1>1, <2>1, <2>4 DEF PlugType
    <3> QED
      BY <3>5, <3>6, <3>7, <3>8 DEF PlugInv
  <2>5. CASE /\ main' = "gone" /\ registered' = registered
             /\ host' = [x \in Vbus |-> IF host[x] = "added" THEN "removed" ELSE host[x]]
             /\ present' = [x \in Vbus |-> FALSE]
    <3>1. \A x \in Vbus : host'[x] # "added" /\ (host'[x] \in {"none", "registered"} => host'[x] = host[x])
      BY <1>1, <2>5
    <3>2. PlugType'
      BY <1>1, <2>1, <2>5 DEF PlugType
    <3> QED
      BY <1>2, <2>1, <2>5, <3>1, <3>2 DEF PlugInv, NotYetAdded, Follows, Idle
  <2> QED
    BY <1>7, <2>2, <2>3, <2>4, <2>5 DEF AddHost
<1>8. CASE (\E x \in Vbus : Takes(x) \/ GivesBack(x)) \/ FreeDma \/ UNCHANGED vars
  <2>1. UNCHANGED <<main, v, host, plug>>
    BY <1>8 DEF Takes, GivesBack, FreeDma, vars
  <2> QED
    BY <1>3, <2>1
<1>9. ASSUME NEW x \in Vbus, DiskChanges(x) PROVE PlugInv'
  <2>1. /\ host[x] = "added" /\ UNCHANGED <<main, v, host, present>>
        /\ registered' = [registered EXCEPT ![x] = ~registered[x]]
    BY <1>9 DEF DiskChanges
  <2> DEFINE w == [vbus |-> x, to_register |-> ~registered[x]]
  <2>2. \/ UNCHANGED work /\ crossed' = [crossed EXCEPT ![x] = TRUE]
        \/ /\ work' = Append(work, w)
           /\ crossed' = [crossed EXCEPT ![x] = crossed[x] \/ \E k \in DOMAIN work : work[k].vbus = x]
    BY <1>9 DEF DiskChanges, SchedSdChange
  <2>3. /\ \A y \in Vbus : y # x => crossed'[y] = crossed[y] /\ registered'[y] = registered[y]
        /\ registered'[x] = ~registered[x] /\ registered' \in [Vbus -> BOOLEAN]
    BY <1>1, <2>1, <2>2
  <2>4. CASE UNCHANGED work /\ crossed' = [crossed EXCEPT ![x] = TRUE]
    <3>1. crossed'[x] = TRUE /\ crossed' \in [Vbus -> BOOLEAN]
      BY <1>1, <2>4
    <3>2. ASSUME NEW y \in Vbus PROVE Follows(y)'
      BY <1>2, <2>1, <2>3, <2>4, <3>1 DEF Follows, Idle
    <3> QED
      BY <1>1, <1>2, <2>1, <2>3, <2>4, <3>1, <3>2 DEF PlugInv, PlugType, NotYetAdded, Idle
  <2>5. CASE /\ work' = Append(work, w)
             /\ crossed' = [crossed EXCEPT ![x] = crossed[x] \/ \E k \in DOMAIN work : work[k].vbus = x]
    <3>1. /\ w \in [vbus : Vbus, to_register : BOOLEAN] /\ w.vbus = x
          /\ w.to_register <=> registered'[x]
      BY <1>1, <2>3
    <3> HIDE DEF w
    <3>2. /\ work' \in Seq([vbus : Vbus, to_register : BOOLEAN])
          /\ DOMAIN work' = 1 .. Len(work) + 1 /\ work'[Len(work) + 1] = w
          /\ \A k \in DOMAIN work : k \in DOMAIN work' /\ work'[k] = work[k]
          /\ \A k \in DOMAIN work' : k \in DOMAIN work \/ k = Len(work) + 1
      <4> DEFINE R == [vbus : Vbus, to_register : BOOLEAN]
      <4>1. work \in Seq(R) /\ w \in R
        BY <1>1, <3>1
      <4> HIDE DEF R
      <4>2. /\ Append(work, w) \in Seq(R) /\ Len(Append(work, w)) = Len(work) + 1
            /\ \A k \in 1 .. Len(work) : Append(work, w)[k] = work[k]
            /\ Append(work, w)[Len(work) + 1] = w
        BY <4>1, AppendProperties
      <4>3. DOMAIN work' = 1 .. Len(work) + 1
        BY <2>5, <4>2, LenProperties
      <4> QED
        BY <1>1, <2>5, <4>2, <4>3 DEF R
    <3>3. /\ crossed' \in [Vbus -> BOOLEAN]
          /\ crossed'[x] <=> crossed[x] \/ ~Idle(x)
      <4>1. (crossed[x] \/ \E k \in DOMAIN work : work[k].vbus = x) \in BOOLEAN
        OBVIOUS
      <4>2. crossed'[x] = (crossed[x] \/ \E k \in DOMAIN work : work[k].vbus = x)
        BY <1>1, <2>5
      <4>3. crossed' \in [Vbus -> BOOLEAN]
        BY <1>1, <2>5, <4>1
      <4> QED
        BY <4>2, <4>3 DEF Idle
    <3>4. \A y \in Vbus : y # x => (Idle(y)' <=> Idle(y))
      BY <1>1, <3>1, <3>2 DEF Idle
    <3>5. NotYetAdded'
      BY <1>2, <2>1, <3>4 DEF NotYetAdded
    <3>6. ASSUME NEW y \in Vbus, y # x PROVE Follows(y)'
      <4>1. \A k \in DOMAIN work' : work'[k].vbus = y => k \in DOMAIN work /\ work'[k] = work[k]
        BY <3>1, <3>2, <3>6
      <4> QED
        BY <1>2, <2>1, <2>3, <3>4, <3>6, <4>1 DEF Follows
    <3>7. Follows(x)'
      <4> SUFFICES ASSUME Idle(x) PROVE Follows(x)'
        BY <3>3 DEF Follows
      <4>1. \A k \in DOMAIN work' : work'[k].vbus = x => k = Len(work) + 1 /\ work'[k] = w
        BY <3>1, <3>2 DEF Idle
      <4>2. ~Idle(x)'
        BY <1>1, <3>1, <3>2 DEF Idle
      <4> QED
        BY <3>1, <4>1, <4>2 DEF Follows
    <3> QED
      BY <1>1, <2>1, <2>3, <3>2, <3>3, <3>5, <3>6, <3>7 DEF PlugInv, PlugType
  <2> QED
    BY <2>2, <2>4, <2>5
<1>10. ASSUME NEW k \in DOMAIN work, SdChanged(k) PROVE PlugInv'
  <2>0. work[k] \in [vbus : Vbus, to_register : BOOLEAN]
    BY <1>1, ElementOfSeq
  <2>2. PICK x \in Vbus : x = work[k].vbus
    BY <2>0
  <2> DEFINE r == SubSeq(work, 1, k - 1) \o SubSeq(work, k + 1, Len(work))
  <2>1. /\ work' = r /\ UNCHANGED <<main, v, host, registered, crossed>>
        /\ present' = [present EXCEPT ![x] = host[x] = "added" /\ work[k].to_register]
    BY <1>10, <2>2 DEF SdChanged
  <2>3. /\ r \in Seq([vbus : Vbus, to_register : BOOLEAN]) /\ DOMAIN r = 1 .. Len(work) - 1
        /\ \A j \in DOMAIN r : r[j] = work[IF j < k THEN j ELSE j + 1]
        /\ \A j \in DOMAIN work \ {k} : \E i \in DOMAIN r : r[i] = work[j]
    <3> DEFINE R == [vbus : Vbus, to_register : BOOLEAN]
    <3>1. work \in Seq(R)
      BY <1>1
    <3> HIDE DEF R
    <3>2. /\ r \in Seq(R) /\ DOMAIN r = 1 .. Len(work) - 1
          /\ \A j \in DOMAIN r : r[j] = work[IF j < k THEN j ELSE j + 1]
          /\ \A j \in DOMAIN work \ {k} : \E i \in DOMAIN r : r[i] = work[j]
      BY <3>1, Removed
    <3> QED
      BY <3>2 DEF R
  <2> HIDE DEF r
  <2> DEFINE old(j) == IF j < k THEN j ELSE j + 1
  <2>4. /\ \A j \in DOMAIN work' : old(j) \in DOMAIN work \ {k} /\ work'[j] = work[old(j)]
        /\ \A j \in DOMAIN work \ {k} : \E i \in DOMAIN work' : work'[i] = work[j]
        /\ \A i, j \in DOMAIN work' : old(i) = old(j) => i = j
    <3>1. \A j \in DOMAIN work' : old(j) \in DOMAIN work \ {k}
      BY <1>1, <2>1, <2>3
    <3>2. \A i, j \in DOMAIN work' : old(i) = old(j) => i = j
      BY <1>1, <2>1, <2>3
    <3> QED
      BY <2>1, <2>3, <3>1, <3>2
  <2> HIDE DEF old
  <2>5. /\ present' \in [Vbus -> BOOLEAN] /\ \A y \in Vbus : y # x => present'[y] = present[y]
        /\ present'[x] <=> host[x] = "added" /\ work[k].to_register
    <3>1. (host[x] = "added" /\ work[k].to_register) \in BOOLEAN
      OBVIOUS
    <3>2. present'[x] = (host[x] = "added" /\ work[k].to_register)
      BY <1>1, <2>1, <2>2
    <3>3. present' \in [Vbus -> BOOLEAN] /\ \A y \in Vbus : y # x => present'[y] = present[y]
      BY <1>1, <2>1, <2>2, <3>1
    <3> QED
      BY <3>2, <3>3
  <2>6. NotYetAdded'
    BY <1>2, <2>1, <2>4 DEF NotYetAdded, Idle
  <2>7. PlugType'
    BY <1>1, <2>1, <2>3, <2>5 DEF PlugType
  <2>8. ASSUME NEW y \in Vbus, y # x PROVE Follows(y)'
    <3>1. Idle(y)' <=> Idle(y)
      <4>1. Idle(y) => Idle(y)'
        BY <2>4 DEF Idle
      <4>2. ASSUME NEW j \in DOMAIN work, work[j].vbus = y PROVE \E i \in DOMAIN work' : work'[i].vbus = y
        BY <2>2, <2>4, <2>8, <4>2
      <4> QED
        BY <4>1, <4>2 DEF Idle
    <3> QED
      BY <1>2, <2>1, <2>4, <2>5, <2>8, <3>1 DEF Follows
  <2>9. Follows(x)'
    <3> SUFFICES ASSUME host[x] = "added", ~crossed[x] PROVE Follows(x)'
      BY <2>1 DEF Follows
    <3>1. /\ work[k].to_register <=> registered[x]
          /\ \A j \in DOMAIN work : work[j].vbus = x => j = k
      BY <1>2, <2>2 DEF Follows
    <3>2. \A j \in DOMAIN work' : work'[j].vbus # x
      BY <2>4, <3>1
    <3>3. present'[x] <=> registered'[x]
      BY <2>1, <2>5, <3>1
    <3> QED
      BY <3>2, <3>3 DEF Follows
  <2> QED
    BY <2>6, <2>7, <2>8, <2>9 DEF PlugInv
<1>11. CASE RemoveHosts
  <2>1. /\ main' = "release" /\ UNCHANGED <<registered, work, crossed>>
        /\ host' = [x \in Vbus |-> IF x \in Hosts THEN "removed" ELSE "none"]
        /\ present' = [x \in Vbus |-> FALSE]
    BY <1>11 DEF RemoveHosts
  <2>2. \A x \in Vbus : host'[x] # "added" /\ (host'[x] \in {"none", "registered"} => host'[x] = host[x])
    BY <1>1, <2>1 DEF Hosts
  <2>3. PlugType'
    BY <1>1, <2>1 DEF PlugType
  <2> QED
    BY <1>2, <2>1, <2>2, <2>3 DEF PlugInv, NotYetAdded, Follows, Idle
<1>12. CASE NoHost \/ Cleanup
  <2>1. UNCHANGED <<host, plug>> /\ (main' = "free_dma" \/ Loop("release", "gone"))
    BY <1>12 DEF NoHost, Cleanup
  <2>2. main' \in {"release", "free_dma", "gone"}
    BY <1>1, <2>1, LoopCases
  <2> QED
    BY <1>3, <2>1, <2>2
<1>13. CASE Release
  <2>1. UNCHANGED plug /\ host' = [host EXCEPT ![v] = "released"] /\ Loop("release", "gone")
    BY <1>13 DEF Release
  <2>2. main' \in {"release", "gone"}
    BY <1>1, <2>1, LoopCases
  <2>3. \A x \in Vbus : host'[x] = host[x] \/ host'[x] = "released"
    BY <1>1, <2>1
  <2> QED
    BY <1>2, <2>1, <2>2, <2>3 DEF PlugInv, PlugType, NotYetAdded, Follows, Idle
<1> QED
  BY <1>4, <1>5, <1>6, <1>7, <1>8, <1>9, <1>10, <1>11, <1>12, <1>13 DEF Next

(* For any number of vbuses and of changes that wait: without work waiting *)
(* the SCSI layer has the LDM's disks, unless two changes crossed or one   *)
(* was lost.                                                               *)
THEOREM PlugFollows == Spec => []HotPlugFollows
<1> DEFINE Inv == Places /\ HostType /\ PlugInv
<1>1. Init => Inv
  <2> SUFFICES ASSUME Init PROVE Inv
    OBVIOUS
  <2>1. 1 \in Vbus
    BY HostLifeAssumption DEF HostLifeAssumption, Vbus
  <2>2. Places /\ HostType
    BY <2>1 DEF Init, Places, HostType
  <2>3. work = <<>> /\ \A x \in Vbus : host[x] = "none"
    BY DEF Init
  <2>4. PlugType
    BY DEF Init, PlugType
  <2> QED
    BY <2>2, <2>3, <2>4 DEF PlugInv, NotYetAdded, Follows, Idle
<1>2. Inv /\ [Next]_vars => Inv'
  BY PlacesInductive, HostTypeInductive, PlugInductive
<1>3. Inv => HotPlugFollows
  BY DEF PlugInv, Follows, Idle, HotPlugFollows
<1> QED
  BY <1>1, <1>2, <1>3, PTL DEF Spec
=============================================================================
