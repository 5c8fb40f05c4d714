---------------------------- MODULE Vbus_proofs ----------------------------
(***************************************************************************)
(* Proofs about vbuses from hpt_detect to hpt_cleanup, for any number of   *)
(* vbuses, devices and timer callbacks: VbusLock, the lock and who may enter, and  *)
(* FlushVdev, the flush of the devices before the release.                 *)
(***************************************************************************)
EXTENDS VbusLock, FlushVdev, TLAPS

-----------------------------------------------------------------------------
(* The lock (VbusLock), for any number of vbuses.                          *)

(* Contexts are told apart by their names.                                 *)
LEMMA Contexts ==
  /\ \A c \in Handler : c[2] \in Vbus /\ c = <<c[1], c[2]>>
  /\ \A v \in Vbus : /\ <<"timer", v>> \in Handler /\ <<"timer", v>>[2] = v
                     /\ <<"intr", v>> \in Handler /\ <<"intr", v>>[2] = v
                     /\ <<"tasklet", v>> \in Handler /\ <<"tasklet", v>>[2] = v
  /\ Thread \notin Handler /\ Nobody \notin Handler /\ Thread # Nobody
BY VbusLockAssumption DEF VbusLockAssumption, Handler, Vbus, Thread, Nobody

(* Locks are numbers; a vbus is the number of its host_lock.               *)
LEMMA LockNames ==
  /\ Vbus \subseteq Locks /\ initlock \in Locks /\ initlock \notin Vbus
  /\ null \notin Locks
BY VbusLockAssumption DEF VbusLockAssumption, Vbus, Locks, initlock, null

(* The places in which the thread holds the lock of cur.                   *)
Holding == main \in {"initialize", "autorebuild", "del_timer", "shutdown"}

(* The pointer of each vbus is null, then on the stack, then its host's;   *)
(* before it has a value no handler of the vbus exists, and hpt_detect     *)
(* gives them values in order.                                             *)
Pointers ==
  /\ \A v \in Vbus : lock[v] \in {null, initlock, v}
  /\ \A c \in Handler : lock[c[2]] = null => c \notin on /\ pc[c] = "idle"
  /\ main \in {"init", "lock", "initialize", "waiting", "autorebuild"} =>
       \A v \in Vbus : (v > cur => lock[v] = null) /\ (v < cur => lock[v] # null)
  /\ main \in {"register", "request_irq", "end", "service", "killed", "disabled",
               "del_timer", "shutdown", "free_irq"} => \A v \in Vbus : lock[v] # null
  /\ main = "init" => lock[cur] = null
  /\ main \in {"lock", "initialize", "waiting", "autorebuild"} => lock[cur] = initlock
  /\ \A v \in hosts : lock[v] = v
  /\ main \in {"killed", "disabled", "del_timer", "shutdown", "free_irq"} => cur \in hosts
  /\ Returned => OnInitlock \subseteq moved

(* Whoever is under way has read the pointer of its vbus as it is, unless  *)
(* it was moved; and a host_lock nobody points to is free.                 *)
Readers ==
  /\ \A c \in Handler : pc[c] # "idle" =>
       spun[c] = lock[c[2]] \/ (spun[c] = initlock /\ c[2] \in moved)
  /\ \A v \in Vbus : lock[v] # v => owner[v] = Nobody

(* The lock of a vbus that was not moved is owned by whoever is in the LDM *)
(* of one of the vbuses that share it.                                     *)
Owned ==
  \A v \in Vbus \ moved :
    /\ \A c \in Handler : lock[c[2]] = lock[v] /\ pc[c] = "in" => owner[lock[v]] = c
    /\ Holding /\ lock[cur] = lock[v] => owner[lock[v]] = Thread

LockInv == TypeOK /\ Pointers /\ Readers /\ Owned

(* A step that moves no pointer, lets no handler in and changes no owner.  *)
LEMMA LockStep ==
  ASSUME LockInv, TypeOK', Pointers',
         lock' = lock, owner' = owner, moved \subseteq moved',
         \A c \in Handler : pc'[c] = "in" => pc[c] = "in",
         \A c \in Handler : pc'[c] # "idle" =>
            (pc[c] # "idle" /\ spun'[c] = spun[c]) \/ spun'[c] = lock[c[2]],
         Holding' => Holding /\ cur' = cur
  PROVE  LockInv'
<1>1. Readers'
  BY Contexts DEF LockInv, Readers
<1>2. Owned'
  BY DEF LockInv, Owned
<1> QED
  BY <1>1, <1>2 DEF LockInv

(* The thread takes the lock of cur, which was free.                       *)
LEMMA LockTaken ==
  ASSUME LockInv, TypeOK', Pointers', lock[cur] \in {initlock, cur},
         lock' = lock, Take(lock[cur], Thread), moved' = moved,
         UNCHANGED <<pc, spun>>, cur' = cur
  PROVE  LockInv'
<1>0. owner \in [Locks -> Handler \cup {Thread, Nobody}] /\ cur \in Vbus /\ lock[cur] \in Locks
  BY LockNames DEF LockInv, TypeOK
<1>1. owner[lock[cur]] = Nobody /\ owner' = [owner EXCEPT ![lock[cur]] = Thread]
  BY DEF Take, Free
<1>2. Readers'
  BY <1>0, <1>1, LockNames DEF LockInv, Readers, Pointers
<1>3. Owned'
  <2> SUFFICES ASSUME NEW v \in Vbus \ moved
               PROVE  /\ \A c \in Handler :
                           lock[c[2]] = lock[v] /\ pc[c] = "in" => owner'[lock[v]] = c
                      /\ lock[cur] = lock[v] => owner'[lock[v]] = Thread
    BY DEF Owned
  <2>1. CASE lock[v] = lock[cur]
    BY <1>0, <1>1, <2>1, Contexts DEF LockInv, Owned
  <2>2. CASE lock[v] # lock[cur]
    BY <1>0, <1>1, <2>2 DEF LockInv, Owned
  <2> QED
    BY <2>1, <2>2
<1> QED
  BY <1>2, <1>3 DEF LockInv

(* The thread gives the lock of cur back.                                  *)
LEMMA LockGiven ==
  ASSUME LockInv, TypeOK', Pointers', Holding, lock[cur] \in {initlock, cur},
         lock' = lock, Give(lock[cur]), moved' = moved,
         UNCHANGED <<pc, spun>>, ~Holding'
  PROVE  LockInv'
<1>0. owner \in [Locks -> Handler \cup {Thread, Nobody}] /\ cur \in Vbus /\ lock[cur] \in Locks
  BY LockNames DEF LockInv, TypeOK
<1>1. owner' = [owner EXCEPT ![lock[cur]] = Nobody]
  BY DEF Give
<1>2. Readers'
  BY <1>0, <1>1, LockNames DEF LockInv, Readers, Pointers
<1>3. Owned'
  <2> SUFFICES ASSUME NEW v \in Vbus \ moved, NEW c \in Handler,
                      lock[c[2]] = lock[v], pc[c] = "in"
               PROVE  owner'[lock[v]] = c
    BY DEF Owned
  <2>1. owner[lock[v]] = c /\ lock[v] # lock[cur]
    BY Contexts DEF LockInv, Owned
  <2> QED
    BY <1>0, <1>1, <2>1
<1> QED
  BY <1>2, <1>3 DEF LockInv

(* A handler lets itself in.                                               *)
LEMMA EnterKeeps ==
  ASSUME LockInv, NEW c \in Handler, Enter(c) PROVE LockInv'
<1>0. /\ owner \in [Locks -> Handler \cup {Thread, Nobody}]
      /\ pc \in [Handler -> {"idle", "spin", "in"}] /\ spun \in [Handler -> Locks \cup {null}]
      /\ lock \in [Vbus -> Locks \cup {null}] /\ c[2] \in Vbus
  BY Contexts DEF LockInv, TypeOK
<1>1. /\ pc[c] = "spin" /\ pc' = [pc EXCEPT ![c] = "in"]
      /\ main' = main /\ cur' = cur
      /\ UNCHANGED <<lock, on, spun, initialised, worker, hosts, freed, moved, revived>>
      /\ IF spun[c] = initlock /\ Returned THEN owner' = owner ELSE Take(spun[c], c)
  BY DEF Enter, thread
<1>2. /\ spun[c] = lock[c[2]] \/ (spun[c] = initlock /\ c[2] \in moved)
      /\ lock[c[2]] \in {initlock, c[2]} /\ spun[c] \in Locks
  BY <1>0, <1>1, LockNames DEF LockInv, Readers, Pointers
<1>3. /\ owner' \in [Locks -> Handler \cup {Thread, Nobody}]
      /\ \A l \in Locks : l # spun[c] => owner'[l] = owner[l]
  BY <1>0, <1>1, <1>2 DEF Take
<1>4. TypeOK'
  BY <1>0, <1>1, <1>3 DEF LockInv, TypeOK
<1>5. Pointers'
  BY <1>0, <1>1, <1>2, LockNames DEF LockInv, Pointers, Returned, OnInitlock
<1>6. Readers'
  <2>1. \A g \in Handler : pc'[g] # "idle" => pc[g] # "idle"
    BY <1>0, <1>1
  <2>2. \A v \in Vbus : lock[v] # v => v # spun[c]
    BY <1>2, LockNames
  <2> QED
    BY <1>1, <1>3, <2>1, <2>2, LockNames DEF LockInv, Readers
<1>7. Owned'
  <2> SUFFICES ASSUME NEW v \in Vbus \ moved
               PROVE  /\ \A g \in Handler :
                           lock[g[2]] = lock[v] /\ pc'[g] = "in" => owner'[lock[v]] = g
                      /\ Holding /\ lock[cur] = lock[v] => owner'[lock[v]] = Thread
    BY <1>1 DEF Owned, Holding
  <2>0. /\ lock[v] \in {null, initlock, v}
        /\ \A g \in Handler : lock[g[2]] = lock[v] /\ pc[g] = "in" => owner[lock[v]] = g
        /\ Holding /\ lock[cur] = lock[v] => owner[lock[v]] = Thread
        /\ Returned => OnInitlock \subseteq moved
        /\ Holding => lock[cur] \in {initlock, cur}
        /\ cur \in Vbus
    BY DEF LockInv, Owned, Pointers, TypeOK, Holding
  <2>1. CASE lock[v] = spun[c]
    <3>1. ~(spun[c] = initlock /\ Returned)
      BY <2>0, <2>1 DEF OnInitlock
    <3>2. owner[spun[c]] = Nobody /\ owner'[spun[c]] = c
      BY <1>0, <1>1, <1>2, <3>1 DEF Take, Free
    <3>3. ASSUME NEW g \in Handler, lock[g[2]] = lock[v], pc'[g] = "in" PROVE owner'[lock[v]] = g
      <4>1. pc[g] # "in"
        BY <2>0, <2>1, <3>2, <3>3, Contexts
      <4> QED
        BY <1>0, <1>1, <2>1, <3>2, <3>3, <4>1
    <3>4. ~(Holding /\ lock[cur] = lock[v])
      BY <2>0, <2>1, <3>2, Contexts
    <3> QED
      BY <3>3, <3>4
  <2>2. CASE lock[v] # spun[c]
    <3>1. lock[c[2]] # lock[v]
      BY <1>0, <1>2, <2>0, <2>2, LockNames
    <3>2. lock[v] \in Locks => owner'[lock[v]] = owner[lock[v]]
      BY <1>3, <2>2
    <3>3. lock[v] \notin Locks => lock[v] = null
      BY <2>0, LockNames
    <3>4. \A g \in Handler : lock[g[2]] = null => pc[g] = "idle"
      BY DEF LockInv, Pointers
    <3>5. Holding => lock[cur] # null
      BY <2>0, LockNames
    <3> QED
      BY <1>0, <1>1, <2>0, <3>1, <3>2, <3>3, <3>4, <3>5
  <2> QED
    BY <2>1, <2>2
<1> QED
  BY <1>4, <1>5, <1>6, <1>7 DEF LockInv

(* A handler leaves and gives back the lock the pointer leads to.          *)
LEMMA LeaveKeeps ==
  ASSUME LockInv, NEW c \in Handler, Leave(c) PROVE LockInv'
<1>0. /\ owner \in [Locks -> Handler \cup {Thread, Nobody}]
      /\ pc \in [Handler -> {"idle", "spin", "in"}] /\ spun \in [Handler -> Locks \cup {null}]
      /\ lock \in [Vbus -> Locks \cup {null}] /\ c[2] \in Vbus /\ on \subseteq Handler
  BY Contexts DEF LockInv, TypeOK
<1>1. /\ pc[c] = "in" /\ pc' = [pc EXCEPT ![c] = "idle"]
      /\ spun' = [spun EXCEPT ![c] = null]
      /\ owner' = [owner EXCEPT ![lock[c[2]]] = Nobody]
      /\ main' = main /\ cur' = cur
      /\ initialised' \in {initialised, initialised \cup {c[2]}}
      /\ UNCHANGED <<lock, worker, hosts, freed, moved, revived>>
  BY DEF Leave, thread, Give
<1>2. on' \subseteq on \cup {<<"timer", c[2]>>, <<"tasklet", c[2]>>}
  BY DEF Leave, MayArm
<1>3. lock[c[2]] \in Locks
  BY <1>0, <1>1, LockNames DEF LockInv, Pointers
<1>4. \A l \in Locks : l # lock[c[2]] => owner'[l] = owner[l]
  BY <1>0, <1>1, <1>3
<1>5. owner' \in [Locks -> Handler \cup {Thread, Nobody}] /\ owner'[lock[c[2]]] = Nobody
  BY <1>0, <1>1, <1>3
<1>6. TypeOK'
  <2>1. on' \subseteq Handler
    <3>1. <<"timer", c[2]>> \in Handler /\ <<"tasklet", c[2]>> \in Handler
      BY <1>0, Contexts
    <3> QED
      BY <1>0, <1>2, <3>1
  <2>2. /\ pc' \in [Handler -> {"idle", "spin", "in"}]
        /\ spun' \in [Handler -> Locks \cup {null}] /\ initialised' \subseteq Vbus
    BY <1>0, <1>1 DEF LockInv, TypeOK
  <2> QED
    BY <1>1, <1>5, <2>1, <2>2 DEF LockInv, TypeOK
<1>7. Pointers'
  <2>1. \A g \in Handler : lock'[g[2]] = null => g \notin on' /\ pc'[g] = "idle"
    <3> SUFFICES ASSUME NEW g \in Handler, lock[g[2]] = null
                 PROVE  g \notin on' /\ pc'[g] = "idle"
      BY <1>1
    <3>1. g[2] # c[2]
      BY <1>3, LockNames
    <3>2. g # <<"timer", c[2]>> /\ g # <<"tasklet", c[2]>> /\ g # c
      BY <1>0, <3>1, Contexts
    <3> QED
      BY <1>0, <1>1, <1>2, <3>2 DEF LockInv, Pointers
  <2> QED
    BY <1>1, <2>1 DEF LockInv, Pointers, Returned, OnInitlock
<1>8. Readers'
  <2>1. \A g \in Handler : pc'[g] # "idle" => pc[g] # "idle" /\ spun'[g] = spun[g]
    BY <1>0, <1>1
  <2>2. \A v \in Vbus : lock[v] # v => owner'[v] = Nobody
    BY <1>4, <1>5, LockNames DEF LockInv, Readers
  <2> QED
    BY <1>1, <2>1, <2>2 DEF LockInv, Readers
<1>9. Owned'
  <2> SUFFICES ASSUME NEW v \in Vbus \ moved
               PROVE  /\ \A g \in Handler :
                           lock[g[2]] = lock[v] /\ pc'[g] = "in" => owner'[lock[v]] = g
                      /\ Holding /\ lock[cur] = lock[v] => owner'[lock[v]] = Thread
    BY <1>1 DEF Owned, Holding
  <2>0. /\ \A g \in Handler : lock[g[2]] = lock[v] /\ pc[g] = "in" => owner[lock[v]] = g
        /\ Holding /\ lock[cur] = lock[v] => owner[lock[v]] = Thread
        /\ \A g \in Handler : pc'[g] = "in" => pc[g] = "in" /\ g # c
    BY <1>0, <1>1 DEF LockInv, Owned
  <2>1. CASE lock[v] = lock[c[2]]
    <3>1. owner[lock[v]] = c
      BY <1>1, <2>0, <2>1
    <3> QED
      BY <2>0, <2>1, <3>1, Contexts
  <2>2. CASE lock[v] # lock[c[2]]
    <3>1. lock[v] \in Locks => owner'[lock[v]] = owner[lock[v]]
      BY <1>4, <2>2
    <3>2. lock[v] \notin Locks => lock[v] = null
      BY LockNames DEF LockInv, Pointers
    <3>3. \A g \in Handler : lock[g[2]] = null => pc[g] = "idle"
      BY DEF LockInv, Pointers
    <3>4. Holding => lock[cur] # null
      <4>1. Holding => lock[cur] \in {initlock, cur} /\ cur \in Vbus
        BY DEF LockInv, Pointers, TypeOK, Holding
      <4> QED
        BY <4>1, LockNames
    <3> QED
      BY <2>0, <3>1, <3>2, <3>3, <3>4
  <2> QED
    BY <2>1, <2>2
<1> QED
  BY <1>6, <1>7, <1>8, <1>9 DEF LockInv

(* spin_lock_init and the pointer of the next vbus.                        *)
LEMMA InitLockKeeps == ASSUME LockInv, InitLock PROVE LockInv'
<1>0. /\ owner \in [Locks -> Handler \cup {Thread, Nobody}] /\ cur \in Vbus
      /\ lock \in [Vbus -> Locks \cup {null}] /\ lock[cur] = null /\ main = "init"
      /\ moved \subseteq Vbus
  BY DEF InitLock, LockInv, TypeOK, Pointers
<1>1. /\ owner' = [owner EXCEPT ![initlock] = Nobody]
      /\ lock' = [lock EXCEPT ![cur] = initlock]
      /\ main' = "lock" /\ cur' = cur
      /\ UNCHANGED <<on, pc, spun, initialised, worker, hosts, freed, revived>>
      /\ moved' = IF \E v \in OnInitlock : UnderWay(v)
                  THEN moved \cup OnInitlock \cup {cur} ELSE moved
  BY DEF InitLock, Give, Goto
<1>2. /\ lock' \in [Vbus -> Locks \cup {null}] /\ lock'[cur] = initlock
      /\ \A v \in Vbus : v # cur => lock'[v] = lock[v]
      /\ owner' \in [Locks -> Handler \cup {Thread, Nobody}] /\ owner'[initlock] = Nobody
      /\ \A l \in Locks : l # initlock => owner'[l] = owner[l]
  BY <1>0, <1>1, LockNames
<1>3. moved \subseteq moved' /\ moved' \subseteq Vbus
  BY <1>0, <1>1 DEF OnInitlock
<1>4. TypeOK'
  BY <1>1, <1>2, <1>3 DEF LockInv, TypeOK
<1>5. Pointers'
  <2>1. cur \notin hosts /\ ~Returned'
    BY <1>0, <1>1, LockNames DEF LockInv, Pointers, Returned
  <2>2. \A v \in Vbus : (v > cur => lock'[v] = null) /\ (v < cur => lock'[v] # null)
    BY <1>0, <1>2 DEF LockInv, Pointers, Vbus
  <2> QED
    BY <1>0, <1>1, <1>2, <2>1, <2>2, Contexts, LockNames DEF LockInv, Pointers, TypeOK
<1>6. \A c \in Handler : pc[c] # "idle" => lock'[c[2]] = lock[c[2]] /\ c[2] # cur
  BY <1>0, <1>2, Contexts DEF LockInv, Pointers
<1>7. Readers'
  BY <1>0, <1>1, <1>2, <1>3, <1>6, LockNames DEF LockInv, Readers
<1>8. Owned'
  <2> SUFFICES ASSUME NEW v \in Vbus \ moved', NEW c \in Handler,
                      lock'[c[2]] = lock'[v], pc[c] = "in"
               PROVE  owner'[lock'[v]] = c
    BY <1>1 DEF Owned, Holding
  <2>1. lock'[v] # initlock
    <3> SUFFICES ASSUME lock'[v] = initlock PROVE FALSE
      OBVIOUS
    <3>1. c[2] \in OnInitlock /\ UnderWay(c[2])
      BY <1>6, Contexts DEF OnInitlock, UnderWay
    <3>2. v \in OnInitlock \cup {cur}
      BY <1>2 DEF OnInitlock
    <3> QED
      BY <1>1, <3>1, <3>2
  <2>2. v # cur /\ lock'[v] = lock[v] /\ lock[c[2]] = lock[v] /\ v \notin moved
    BY <1>2, <1>3, <1>6, <2>1
  <2>3. owner[lock[v]] = c
    BY <2>2 DEF LockInv, Owned
  <2>4. lock[v] \in Locks
    BY <2>2, LockNames DEF LockInv, Pointers
  <2> QED
    BY <1>2, <2>1, <2>2, <2>3, <2>4
<1> QED
  BY <1>4, <1>5, <1>7, <1>8 DEF LockInv

(* The pointer moves to host_lock.                                         *)
LEMMA SetVbusLockKeeps == ASSUME LockInv, SetVbusLock PROVE LockInv'
<1>0. /\ owner \in [Locks -> Handler \cup {Thread, Nobody}] /\ cur \in Vbus
      /\ lock \in [Vbus -> Locks \cup {null}] /\ moved \subseteq Vbus /\ hosts \subseteq Vbus
      /\ main = "register"
  BY DEF SetVbusLock, LockInv, TypeOK
<1>1. /\ hosts' = hosts \cup {cur} /\ lock' = [lock EXCEPT ![cur] = cur]
      /\ main' = "request_irq" /\ cur' = cur
      /\ UNCHANGED <<owner, on, pc, spun, initialised, worker, freed, revived>>
      /\ moved' = IF UnderWay(cur) THEN moved \cup {cur} ELSE moved
  BY DEF SetVbusLock, Goto
<1>2. /\ lock' \in [Vbus -> Locks \cup {null}] /\ lock'[cur] = cur
      /\ \A v \in Vbus : v # cur => lock'[v] = lock[v]
  BY <1>0, <1>1, LockNames
<1>3. moved \subseteq moved' /\ moved' \subseteq Vbus
  BY <1>0, <1>1
<1>4. TypeOK'
  BY <1>0, <1>1, <1>2, <1>3 DEF LockInv, TypeOK
<1>5. Pointers'
  <2>1. ~Returned'
    BY <1>1 DEF Returned
  <2> QED
    BY <1>0, <1>1, <1>2, <2>1, Contexts, LockNames DEF LockInv, Pointers
<1>6. Readers'
  <2>1. ASSUME NEW c \in Handler, pc[c] # "idle"
        PROVE  spun[c] = lock'[c[2]] \/ (spun[c] = initlock /\ c[2] \in moved')
    <3>1. spun[c] = lock[c[2]] \/ (spun[c] = initlock /\ c[2] \in moved)
      BY <2>1 DEF LockInv, Readers
    <3>2. CASE c[2] = cur
      <4>1. cur \in moved'
        BY <1>1, <2>1, <3>2 DEF UnderWay
      <4>2. lock[cur] \in {initlock, cur}
        BY <1>0, <2>1, <3>2 DEF LockInv, Pointers
      <4> QED
        BY <1>2, <3>1, <3>2, <4>1, <4>2
    <3>3. CASE c[2] # cur
      BY <1>2, <1>3, <3>1, <3>3, Contexts
    <3> QED
      BY <3>2, <3>3
  <2> QED
    BY <1>1, <1>2, <2>1 DEF LockInv, Readers
<1>7. Owned'
  <2> SUFFICES ASSUME NEW v \in Vbus \ moved', NEW c \in Handler,
                      lock'[c[2]] = lock'[v], pc[c] = "in"
               PROVE  owner[lock'[v]] = c
    BY <1>1 DEF Owned, Holding
  <2>1. v # cur
    <3> SUFFICES ASSUME v = cur PROVE FALSE
      OBVIOUS
    <3>1. c[2] = cur
      BY <1>0, <1>2, Contexts, LockNames DEF LockInv, Pointers
    <3> QED
      BY <1>1, <3>1 DEF UnderWay
  <2>2. c[2] # cur
    BY <1>0, <1>2, <2>1, LockNames DEF LockInv, Pointers
  <2> QED
    BY <1>2, <1>3, <2>1, <2>2, Contexts DEF LockInv, Owned
<1> QED
  BY <1>4, <1>5, <1>6, <1>7 DEF LockInv

(* The invariant of the locks holds in every reachable state.              *)
LEMMA LockInvariant == Spec => []LockInv
<1>1. Init => LockInv
  <2> SUFFICES ASSUME Init PROVE LockInv
    OBVIOUS
  <2>0. /\ main = "init" /\ cur = 1 /\ 1 \in Vbus /\ on = {} /\ hosts = {} /\ moved = {}
        /\ \A v \in Vbus : lock[v] = null /\ ~(v < 1)
        /\ \A c \in Handler : pc[c] = "idle"
        /\ \A l \in Locks : owner[l] = Nobody
    BY VbusLockAssumption, Contexts DEF VbusLockAssumption, Init, Vbus
  <2>1. TypeOK
    BY <2>0 DEF Init, TypeOK
  <2>2. Pointers
    BY <2>0, Contexts DEF Pointers, Returned
  <2>3. Readers /\ Owned
    BY <2>0, LockNames DEF Readers, Owned, Holding
  <2> QED
    BY <2>1, <2>2, <2>3 DEF LockInv
<1>2. LockInv /\ [Next]_vars => LockInv'
  <2> SUFFICES ASSUME LockInv, [Next]_vars PROVE LockInv'
    OBVIOUS
  <2>0. TypeOK /\ Pointers /\ cur \in Vbus
    BY DEF LockInv, TypeOK
  <2>1. ASSUME NEW c \in Handler, Start(c) PROVE LockInv'
    <3>1. /\ pc' = [pc EXCEPT ![c] = "spin"] /\ spun' = [spun EXCEPT ![c] = lock[c[2]]]
          /\ on' \subseteq on /\ c \in on /\ pc[c] = "idle" /\ c[2] \in Vbus
          /\ main' = main /\ cur' = cur
          /\ UNCHANGED <<lock, owner, initialised, worker, hosts, freed, moved, revived>>
      BY <2>1, Contexts DEF Start, thread
    <3>2. TypeOK'
      BY <2>0, <3>1 DEF TypeOK
    <3>3. Pointers'
      BY <2>0, <3>1 DEF TypeOK, Pointers, Returned, OnInitlock
    <3>4. \A g \in Handler : /\ pc'[g] = "in" => pc[g] = "in"
                             /\ pc'[g] # "idle" =>
                                  (pc[g] # "idle" /\ spun'[g] = spun[g]) \/ spun'[g] = lock[g[2]]
      BY <2>0, <3>1 DEF TypeOK
    <3> QED
      BY <3>1, <3>2, <3>3, <3>4, LockStep DEF Holding
  <2>2. ASSUME NEW c \in Handler, Enter(c) PROVE LockInv'
    BY <2>2, EnterKeeps
  <2>3. ASSUME NEW c \in Handler, Leave(c) PROVE LockInv'
    BY <2>3, LeaveKeeps
  <2>4. CASE InitLock
    BY <2>4, InitLockKeeps
  <2>5. CASE LockInit \/ DownInterruptible \/ LockForShutdown
    <3>1. /\ lock[cur] \in {initlock, cur} /\ Take(lock[cur], Thread)
          /\ UNCHANGED <<lock, pc, spun, on, hosts, freed, moved, revived, initialised, worker>>
          /\ cur' = cur /\ Returned' = Returned
          /\ main \in {"lock", "waiting", "disabled"}
          /\ main' = IF main = "lock" THEN "initialize"
                     ELSE IF main = "waiting" THEN "autorebuild" ELSE "del_timer"
      BY <2>0, <2>5 DEF Pointers, LockInit, DownInterruptible, LockForShutdown, Goto, Returned
    <3>2. owner' \in [Locks -> Handler \cup {Thread, Nobody}]
      BY <2>0, <3>1, LockNames DEF TypeOK, Take
    <3>3. TypeOK'
      BY <2>0, <3>1, <3>2 DEF TypeOK
    <3>4. Pointers'
      BY <2>0, <3>1 DEF Pointers, OnInitlock
    <3> QED
      BY <3>1, <3>3, <3>4, LockTaken
  <2>6. CASE InitializeVbus \/ SetAutorebuild \/ Shutdown
    <3>1. /\ lock[cur] \in {initlock, cur} /\ Give(lock[cur]) /\ Holding /\ ~Holding'
          /\ UNCHANGED <<lock, pc, spun, hosts, freed, moved, revived, worker>>
          /\ initialised' \subseteq initialised \cup {cur}
          /\ on' \subseteq on \cup {<<"timer", cur>>, <<"tasklet", cur>>}
          /\ main # "shutdown" => lock[cur] = initlock
          /\ main = "shutdown" => on' = on
          /\ lock[cur] # null /\ cur' \in Vbus
      <4>1. lock[cur] \in {initlock, cur} /\ Give(lock[cur]) /\ Holding
            /\ (main # "shutdown" => lock[cur] = initlock) /\ lock[cur] # null
        BY <2>0, <2>6, LockNames
           DEF Pointers, InitializeVbus, SetAutorebuild, Shutdown, Holding
      <4>2. cur' \in Vbus /\ ~Holding'
        BY <2>0, <2>6, VbusLockAssumption
           DEF VbusLockAssumption, Vbus, InitializeVbus, SetAutorebuild, Shutdown, Goto, NextOr, Holding
      <4>3. CASE InitializeVbus
        BY <4>1, <4>2, <4>3 DEF InitializeVbus
      <4>4. CASE SetAutorebuild
        <5>1. PICK A \in SUBSET MayArm(cur) : on' = on \cup A
          BY <4>4 DEF SetAutorebuild
        <5>2. on' \subseteq on \cup {<<"timer", cur>>, <<"tasklet", cur>>}
          BY <5>1 DEF MayArm
        <5> QED
          BY <4>1, <4>2, <4>4, <5>2 DEF SetAutorebuild
      <4>5. CASE Shutdown
        BY <4>1, <4>2, <4>5 DEF Shutdown
      <4> QED
        BY <2>6, <4>3, <4>4, <4>5
    <3>2. owner' \in [Locks -> Handler \cup {Thread, Nobody}]
      BY <2>0, <3>1, LockNames DEF TypeOK, Give
    <3>3. main' \in {"waiting", "init", "register", "free_irq"}
      BY <2>6 DEF InitializeVbus, SetAutorebuild, Shutdown, Goto, NextOr
    <3>4. TypeOK'
      <4>1. on' \subseteq Handler
        <5>1. <<"timer", cur>> \in Handler /\ <<"tasklet", cur>> \in Handler
          BY <2>0, Contexts
        <5> QED
          BY <2>0, <3>1, <5>1 DEF TypeOK
      <4>2. initialised' \subseteq Vbus
        BY <2>0, <3>1 DEF TypeOK
      <4> QED
        BY <2>0, <3>1, <3>2, <3>3, <4>1, <4>2 DEF TypeOK
    <3>5. Pointers'
      <4>1. \A c \in Handler : lock'[c[2]] = null => c \notin on' /\ pc'[c] = "idle"
        BY <2>0, <3>1, Contexts DEF Pointers
      <4>2. Returned' => OnInitlock' \subseteq moved'
        BY <2>0, <2>6, <3>1 DEF Pointers, InitializeVbus, SetAutorebuild, Shutdown, Goto, NextOr,
                                 Returned, OnInitlock
      <4>3. /\ main' = "free_irq" => cur' = cur /\ cur \in hosts
            /\ main' = "waiting" => cur' = cur /\ main = "initialize"
            /\ main' = "init" => cur' = cur + 1 /\ main = "autorebuild"
        BY <2>0, <2>6 DEF Pointers, InitializeVbus, SetAutorebuild, Shutdown, Goto, NextOr
      <4>4. /\ main' \in {"waiting", "init"} =>
                  \A v \in Vbus : (v > cur' => lock'[v] = null) /\ (v < cur' => lock'[v] # null)
            /\ main' \in {"register", "free_irq"} => \A v \in Vbus : lock'[v] # null
            /\ main' = "init" => lock'[cur'] = null
        <5>1. CASE main' \in {"waiting", "init"}
          BY <2>0, <3>1, <4>3, <5>1, VbusLockAssumption, LockNames
             DEF VbusLockAssumption, Vbus, Pointers
        <5>2. CASE main' = "free_irq"
          BY <2>0, <2>6, <3>1, <5>2 DEF Pointers, InitializeVbus, SetAutorebuild, Shutdown, Goto, NextOr
        <5>3. CASE main' = "register"
          <6>1. main = "autorebuild" /\ cur = Vbuses
            BY <2>6, <5>3 DEF InitializeVbus, SetAutorebuild, Shutdown, Goto, NextOr
          <6> QED
            BY <2>0, <3>1, <5>3, <6>1, VbusLockAssumption DEF VbusLockAssumption, Vbus, Pointers
        <5> QED
          BY <3>3, <5>1, <5>2, <5>3
      <4>5. main' = "waiting" => lock'[cur'] = initlock
        BY <2>0, <3>1, <4>3 DEF Pointers
      <4> QED
        BY <2>0, <3>1, <3>3, <4>1, <4>2, <4>3, <4>4, <4>5 DEF Pointers
    <3> QED
      BY <3>1, <3>4, <3>5, LockGiven
  <2>7. CASE SetVbusLock
    BY <2>7, SetVbusLockKeeps
  <2>8. CASE InitFails \/ RegisterFails \/ RequestIrq \/ EndDetect \/ DisableWorker
             \/ DelTimerSync \/ FreeIrq \/ \E v \in Vbus : KillTasklet(v)
    <3>1. /\ UNCHANGED <<lock, owner, pc, spun, initialised, hosts>>
          /\ moved' \in {moved, moved \cup OnInitlock}
          /\ Holding' => Holding /\ cur' = cur
      BY <2>8 DEF InitFails, RegisterFails, RequestIrq, EndDetect, DisableWorker, DelTimerSync,
                  FreeIrq, KillTasklet, Goto, NextOr, Holding
    <3>2. cur' \in Vbus
      <4>1. cur' \in {1, cur} \cup Vbus \/ (cur # Vbuses /\ cur' = cur + 1)
        BY <2>8 DEF InitFails, RegisterFails, RequestIrq, EndDetect, DisableWorker, DelTimerSync,
                    FreeIrq, KillTasklet, Goto, NextOr
      <4> QED
        BY <2>0, <4>1, VbusLockAssumption DEF VbusLockAssumption, Vbus
    <3>3. worker' \subseteq Vbus /\ freed' \subseteq Vbus /\ revived' \subseteq Vbus
      BY <2>0, <2>8 DEF TypeOK, InitFails, RegisterFails, RequestIrq, EndDetect, DisableWorker,
                        DelTimerSync, FreeIrq, KillTasklet
    <3>4. \/ on' \subseteq on
          \/ on' = on \cup {<<"intr", cur>>} /\ main = "request_irq"
          \/ main = "end" /\ \E A \in SUBSET Vbus : on' = on \cup ({"tasklet"} \X A)
      <4>1. CASE RequestIrq
        BY <4>1 DEF RequestIrq
      <4>2. CASE EndDetect
        BY <4>2 DEF EndDetect
      <4>3. CASE InitFails \/ RegisterFails \/ DisableWorker \/ DelTimerSync \/ FreeIrq
                 \/ \E v \in Vbus : KillTasklet(v)
        BY <4>3 DEF InitFails, RegisterFails, DisableWorker, DelTimerSync, FreeIrq, KillTasklet
      <4> QED
        BY <2>8, <4>1, <4>2, <4>3
    <3>5. on' \subseteq Handler
      BY <2>0, <3>4, Contexts DEF TypeOK, Handler
    <3>6. main' \in {"failed", "register", "end", "service", "killed", "disabled", "shutdown"}
      BY <2>8 DEF InitFails, RegisterFails, RequestIrq, EndDetect, DisableWorker, DelTimerSync,
                  FreeIrq, KillTasklet, Goto, NextOr
    <3>7. TypeOK'
      BY <2>0, <3>1, <3>2, <3>3, <3>5, <3>6 DEF TypeOK, OnInitlock
    <3>8. Pointers'
      <4>1. \A c \in Handler : lock'[c[2]] = null => c \notin on' /\ pc'[c] = "idle"
        <5>1. \A c \in Handler : lock[c[2]] = null => c \notin on /\ pc[c] = "idle"
          BY <2>0 DEF Pointers
        <5>2. main \in {"request_irq", "end"} => \A c \in Handler : lock[c[2]] # null
          BY <2>0, Contexts DEF Pointers
        <5> QED
          BY <3>1, <3>4, <5>1, <5>2
      <4>2. Returned' => OnInitlock' \subseteq moved'
        BY <2>0, <2>8, <3>1 DEF Pointers, InitFails, RegisterFails, RequestIrq, EndDetect,
             DisableWorker, DelTimerSync, FreeIrq, KillTasklet, Goto, NextOr, Returned, OnInitlock
      <4>3. main' \in {"killed", "disabled", "shutdown"} => cur' \in hosts
        BY <2>0, <2>8 DEF Pointers, InitFails, RegisterFails, RequestIrq, EndDetect,
             DisableWorker, DelTimerSync, FreeIrq, KillTasklet, Goto, NextOr
      <4>4. main' # "failed" => \A v \in Vbus : lock[v] # null
        BY <2>0, <2>8 DEF Pointers, InitFails, RegisterFails, RequestIrq, EndDetect,
             DisableWorker, DelTimerSync, FreeIrq, KillTasklet, Goto, NextOr
      <4> QED
        BY <2>0, <3>1, <3>6, <4>1, <4>2, <4>3, <4>4 DEF Pointers
    <3> QED
      BY <2>0, <3>1, <3>7, <3>8, LockStep DEF LockInv, Readers
  <2>9. CASE UNCHANGED vars
    BY <2>9 DEF vars, thread, LockInv, TypeOK, Pointers, Readers, Owned, Holding, Returned,
                OnInitlock
  <2> QED
    BY <2>1, <2>2, <2>3, <2>4, <2>5, <2>6, <2>7, <2>8, <2>9 DEF Next, Detect, Cleanup
<1> QED
  BY <1>1, <1>2, PTL DEF Spec

(* For any number of vbuses: a vbus whose lock was not changed under a     *)
(* handler is entered by one context at a time, and who leaves it unlocks  *)
(* what he has locked.                                                     *)
THEOREM OneAtATime == Spec => [](ExclusiveUnlessMoved /\ UnlocksItsOwn)
<1>1. LockInv => ExclusiveUnlessMoved
  <2> SUFFICES ASSUME LockInv, NEW v \in Vbus \ moved, NEW a \in InLdm(v), NEW b \in InLdm(v)
               PROVE  a = b
    BY DEF ExclusiveUnlessMoved, AtMostOneIn
  <2>1. ASSUME NEW c \in InLdm(v) PROVE owner[lock[v]] = c
    BY DEF InLdm, LockInv, Owned, Holding
  <2> QED
    BY <2>1
<1>2. LockInv => UnlocksItsOwn
  BY Contexts DEF LockInv, Owned, UnlocksItsOwn
<1> QED
  BY <1>1, <1>2, LockInvariant, PTL

(* How far hpt_cleanup has come with a vbus.                               *)
PastWorker(v) ==
  v \in freed \/ (v = cur /\ main \in {"disabled", "del_timer", "shutdown", "free_irq"})
PastTimer(v) == v \in freed \/ (v = cur /\ main \in {"shutdown", "free_irq"})
Gone(c) == c \notin on /\ pc[c] = "idle"

(* What hpt_cleanup has stopped stays stopped.                             *)
Ended ==
  /\ ~Returned \/ main = "failed" => freed = {}
  /\ \A v \in Vbus : PastWorker(v) => v \notin worker
  /\ \A v \in Vbus : PastWorker(v) /\ v \notin revived => Gone(<<"tasklet", v>>)
  /\ \A v \in Vbus : PastTimer(v) /\ v \notin moved => Gone(<<"timer", v>>)
  /\ \A v \in Vbus : v \in freed => Gone(<<"intr", v>>)

(* For any number of vbuses: when hpt_cleanup has freed a vbus whose lock  *)
(* was not moved and whose tasklet was not revived, nothing can enter it   *)
(* any more.                                                               *)
THEOREM NothingIsLeft == Spec => []NothingAfterFree
<1>1. Init => Ended
  BY Contexts DEF Init, Ended, PastWorker, PastTimer
<1>2. LockInv /\ LockInv' /\ Ended /\ [Next]_vars => Ended'
  <2> SUFFICES ASSUME LockInv, LockInv', Ended, [Next]_vars PROVE Ended'
    OBVIOUS
  <2>0. /\ pc \in [Handler -> {"idle", "spin", "in"}] /\ cur \in Vbus
        /\ \A v \in Vbus, w \in Vbus : <<"timer", v>> # <<"tasklet", w>>
        /\ \A v \in Vbus, w \in Vbus : <<"intr", v>> # <<"tasklet", w>>
        /\ \A v \in Vbus, w \in Vbus : <<"intr", v>> # <<"timer", w>>
        /\ \A v \in Vbus, w \in Vbus : <<"intr", v>> = <<"intr", w>> => v = w
        /\ \A v \in Vbus, w \in Vbus : <<"timer", v>> = <<"timer", w>> => v = w
        /\ \A v \in Vbus, w \in Vbus : <<"tasklet", v>> = <<"tasklet", w>> => v = w
    BY DEF LockInv, TypeOK
  <2>1. ASSUME NEW c \in Handler, Start(c) \/ Enter(c) PROVE Ended'
    <3>1. /\ pc[c] = "spin" \/ c \in on
          /\ on' \subseteq on /\ \A g \in Handler : g # c => pc'[g] = pc[g]
          /\ main' = main /\ cur' = cur /\ UNCHANGED <<worker, freed, moved, revived>>
      BY <2>0, <2>1 DEF Start, Enter, thread
    <3>2. \A g \in Handler : Gone(g) => Gone(g)'
      BY <3>1 DEF Gone
    <3> QED
      BY <3>1, <3>2, Contexts DEF Ended, PastWorker, PastTimer, Returned
  <2>2. ASSUME NEW c \in Handler, Leave(c) PROVE Ended'
    <3>1. /\ pc[c] = "in" /\ on' \subseteq on \cup MayArm(c[2])
          /\ \A g \in Handler : pc[g] = "idle" => pc'[g] = "idle"
          /\ main' = main /\ cur' = cur /\ UNCHANGED <<worker, freed, moved, revived>>
      BY <2>0, <2>2 DEF Leave, thread
    <3>2. c[2] \in Vbus
      BY Contexts
    <3>3. ASSUME NEW v \in Vbus, PastWorker(v), Gone(<<"tasklet", v>>)
          PROVE  Gone(<<"tasklet", v>>)'
      <4>1. <<"tasklet", v>> \notin MayArm(c[2])
        BY <2>0, <3>2, <3>3 DEF MayArm, Ended
      <4> QED
        BY <3>1, <3>3, <4>1, Contexts DEF Gone
    <3>4. ASSUME NEW v \in Vbus, PastTimer(v), v \notin moved, Gone(<<"timer", v>>)
          PROVE  Gone(<<"timer", v>>)'
      <4>1. <<"timer", v>> \notin MayArm(c[2])
        <5> SUFFICES ASSUME <<"timer", v>> \in MayArm(c[2]) PROVE FALSE
          OBVIOUS
        <5>1. v = c[2] /\ v \notin freed /\ ~(v = cur /\ main = "free_irq")
          BY <2>0, <3>2 DEF MayArm
        <5>2. v = cur /\ main = "shutdown"
          BY <3>4, <5>1 DEF PastTimer
        <5>3. owner[lock[v]] = c /\ owner[lock[v]] = Thread
          BY <3>1, <3>4, <5>1, <5>2 DEF LockInv, Owned, Holding
        <5> QED
          BY <5>3, Contexts
      <4> QED
        BY <3>1, <3>4, <4>1, Contexts DEF Gone
    <3>5. ASSUME NEW v \in Vbus, Gone(<<"intr", v>>) PROVE Gone(<<"intr", v>>)'
      <4>1. <<"intr", v>> \notin MayArm(c[2])
        BY <2>0, <3>2 DEF MayArm
      <4> QED
        BY <3>1, <3>5, <4>1, Contexts DEF Gone
    <3> QED
      BY <3>1, <3>3, <3>4, <3>5 DEF Ended, PastWorker, PastTimer, Returned
  <2>3. CASE Detect
    <3>1. freed = {} /\ freed' = {} /\ moved \subseteq moved' /\ revived' = revived
      BY <2>3 DEF Ended, Detect, InitLock, LockInit, InitializeVbus, DownInterruptible, InitFails,
                  SetAutorebuild, SetVbusLock, RegisterFails, RequestIrq, EndDetect, Returned
    <3>2. main' \notin {"disabled", "del_timer", "shutdown", "free_irq"}
      BY <2>3 DEF Detect, InitLock, LockInit, InitializeVbus, DownInterruptible, InitFails,
                  SetAutorebuild, SetVbusLock, RegisterFails, RequestIrq, EndDetect, Goto, NextOr
    <3> QED
      BY <3>1, <3>2 DEF Ended, PastWorker, PastTimer
  <2>4. CASE Cleanup
    <3>1. /\ UNCHANGED <<pc, moved>> /\ on' \subseteq on /\ worker' \subseteq worker
          /\ revived \subseteq revived' /\ freed \subseteq freed'
          /\ Returned' /\ main' # "failed" /\ cur' \in Vbus
      BY <2>0, <2>4 DEF Cleanup, KillTasklet, DisableWorker, LockForShutdown, DelTimerSync, Shutdown,
                        FreeIrq, Goto, Returned
    <3>2. \A g \in Handler : Gone(g) => Gone(g)'
      BY <3>1 DEF Gone
    <3>3. ASSUME NEW v \in Vbus
          PROVE  /\ PastWorker(v)' => PastWorker(v) \/ (v = cur /\ DisableWorker)
                 /\ PastTimer(v)' => PastTimer(v) \/ (v = cur /\ DelTimerSync)
                 /\ v \in freed' => v \in freed \/ (v = cur /\ FreeIrq)
      BY <2>4 DEF Cleanup, KillTasklet, DisableWorker, LockForShutdown, DelTimerSync, Shutdown,
                  FreeIrq, Goto, PastWorker, PastTimer
    <3>4. ASSUME NEW v \in Vbus, v = cur, DisableWorker
          PROVE  v \notin worker' /\ (v \notin revived' => Gone(<<"tasklet", v>>)')
      BY <3>1, <3>4 DEF DisableWorker, Gone
    <3>5. ASSUME NEW v \in Vbus, v = cur, DelTimerSync PROVE Gone(<<"timer", v>>)'
      BY <3>1, <3>5 DEF DelTimerSync, Gone
    <3>6. ASSUME NEW v \in Vbus, v = cur, FreeIrq PROVE Gone(<<"intr", v>>)'
      BY <3>1, <3>6 DEF FreeIrq, Gone
    <3>7. ASSUME NEW v \in Vbus
          PROVE  /\ PastWorker(v)' => v \notin worker'
                 /\ PastWorker(v)' /\ v \notin revived' => Gone(<<"tasklet", v>>)'
                 /\ PastTimer(v)' /\ v \notin moved' => Gone(<<"timer", v>>)'
                 /\ v \in freed' => Gone(<<"intr", v>>)'
      <4>1. /\ Gone(<<"tasklet", v>>) => Gone(<<"tasklet", v>>)'
            /\ Gone(<<"timer", v>>) => Gone(<<"timer", v>>)'
            /\ Gone(<<"intr", v>>) => Gone(<<"intr", v>>)'
        BY <3>2, Contexts
      <4>2. /\ PastWorker(v) => v \notin worker
            /\ PastWorker(v) /\ v \notin revived => Gone(<<"tasklet", v>>)
            /\ PastTimer(v) /\ v \notin moved => Gone(<<"timer", v>>)
            /\ v \in freed => Gone(<<"intr", v>>)
        BY DEF Ended
      <4> QED
        BY <3>1, <3>3, <3>4, <3>5, <3>6, <4>1, <4>2
    <3> QED
      BY <3>1, <3>7 DEF Ended
  <2>5. CASE UNCHANGED vars
    BY <2>5 DEF vars, thread, Ended, PastWorker, PastTimer, Gone, Returned
  <2> QED
    BY <2>1, <2>2, <2>3, <2>4, <2>5 DEF Next
<1>3. LockInv /\ Ended => NothingAfterFree
  <2> SUFFICES ASSUME LockInv, Ended, NEW c \in Handler, c[2] \in freed \ (moved \cup revived)
               PROVE  Gone(c)
    BY DEF NothingAfterFree, Gone
  <2>1. /\ c[2] \in Vbus /\ PastWorker(c[2]) /\ PastTimer(c[2])
        /\ c \in {<<"timer", c[2]>>, <<"intr", c[2]>>, <<"tasklet", c[2]>>}
    BY Contexts DEF PastWorker, PastTimer, Handler
  <2> QED
    BY <2>1 DEF Ended
<1> QED
  BY <1>1, <1>2, <1>3, LockInvariant, PTL DEF Spec

-----------------------------------------------------------------------------
(* The flush (FlushVdev).  That a device the loop leaves was flushed or    *)
(* tried twice needs to know how often the present one has been tried, and *)
(* what an answer "ok" says while the process has not yet looked at it.    *)

(* The loop calls hpt_flush_vdev a second time at most, and for one device *)
(* after the other.                                                        *)
LoopOrder ==
  /\ \A d \in 1 .. N : /\ d > i => tries[d] = 0
                       /\ d = i /\ at = "call" => tries[d] \in 0 .. 1
  /\ at # "call" => i \in 1 .. N /\ tries[i] \in 1 .. 2

(* A good result is the target's.                                          *)
OkMeansFlushed ==
  at # "call" /\ Result = "ok" => vd = "target" /\ <<i, "target">> \in flushed

FlushInv ==
  FlushTypeOK /\ LoopOrder /\ FreedOnlyWhenDone /\ NoLostWakeup /\ OkMeansFlushed /\ FlushedOrRetried

(* The answer to a command that is in the LDM.                             *)
LEMMA DoneKeeps ==
  ASSUME FlushInv, at # "call", NEW r \in {"ok", "failed"}, NEW base \in Nat,
         FlushDone(r, base), UNCHANGED <<i, tries, timer, late>>, at' # "call",
         at' \in {"trylock", "down", "check"}, Result = "pending"
  PROVE  FlushInv'
<1>1. /\ i \in 1 .. N /\ N \in Nat \ {0} /\ ldm # "no"
  BY FlushVdevAssumption DEF FlushVdevAssumption, FlushInv, LoopOrder, FreedOnlyWhenDone
<1>2. /\ flushed' \in SUBSET ((1 .. N) \X {"source", "target"}) /\ flushed \subseteq flushed'
  BY <1>1 DEF FlushDone, FlushInv, FlushTypeOK
<1>3. \/ /\ vd = "source" /\ vd' = "target" /\ Result' = "pending" /\ sem' = base
         /\ ldm' \in {"working", "stuck"}
      \/ /\ vd = "target" /\ vd' = vd /\ Result' = r /\ sem' = base + 1 /\ ldm' = "no"
         /\ r = "ok" => <<i, "target">> \in flushed'
  BY DEF FlushDone, FlushInv, FlushTypeOK
<1>4. FlushTypeOK'
  BY <1>1, <1>2, <1>3 DEF FlushInv, FlushTypeOK
<1>5. LoopOrder' /\ FlushedOrRetried'
  BY <1>1, <1>2 DEF FlushInv, LoopOrder, FlushedOrRetried
<1>6. FreedOnlyWhenDone' /\ NoLostWakeup' /\ OkMeansFlushed'
  BY <1>1, <1>3 DEF FreedOnlyWhenDone, NoLostWakeup, OkMeansFlushed
<1> QED
  BY <1>4, <1>5, <1>6 DEF FlushInv

(* The loop goes on after the n-th call for the present device.            *)
LEMMA AfterFlushKeeps ==
  ASSUME FlushInv, NEW r \in {"ok", "failed"}, NEW n \in 1 .. 2, i \in 1 .. N,
         AfterFlush(r, n), tries' = [tries EXCEPT ![i] = n], ldm = "no",
         r = "ok" => <<i, "target">> \in flushed,
         UNCHANGED <<vd, Result, ldm, sem, timer, late, flushed>>
  PROVE  FlushInv'
<1>1. /\ N \in Nat \ {0} /\ tries \in [1 .. N -> 0 .. 2]
      /\ at' = "call" /\ i' = (IF r = "failed" /\ n = 1 THEN i ELSE i + 1)
  BY FlushVdevAssumption DEF FlushVdevAssumption, FlushInv, FlushTypeOK, AfterFlush
<1>2. /\ tries' \in [1 .. N -> 0 .. 2] /\ tries'[i] = n
      /\ \A d \in 1 .. N : d # i => tries'[d] = tries[d]
  BY <1>1
<1>3. FlushTypeOK'
  BY <1>1, <1>2 DEF FlushInv, FlushTypeOK
<1>4. LoopOrder'
  BY <1>1, <1>2 DEF FlushInv, LoopOrder
<1>5. FlushedOrRetried'
  <2> SUFFICES ASSUME NEW d \in 1 .. i' - 1
               PROVE  <<d, "target">> \in flushed \/ tries'[d] = 2
    BY DEF FlushedOrRetried
  <2>1. CASE d = i
    BY <1>1, <1>2, <2>1
  <2>2. CASE d # i
    <3>1. d \in 1 .. i - 1 /\ d \in 1 .. N
      BY <1>1, <2>2
    <3> QED
      BY <1>2, <2>2, <3>1 DEF FlushInv, FlushedOrRetried
  <2> QED
    BY <2>1, <2>2
<1>6. FreedOnlyWhenDone' /\ NoLostWakeup' /\ OkMeansFlushed'
  BY <1>1 DEF FlushInv, FreedOnlyWhenDone, NoLostWakeup, OkMeansFlushed
<1> QED
  BY <1>3, <1>4, <1>5, <1>6 DEF FlushInv

(* The invariant of the flush holds in every reachable state.              *)
LEMMA FlushInvariant == FlushSpec => []FlushInv
<1> USE FlushVdevAssumption DEF FlushVdevAssumption
<1>1. FlushInit => FlushInv
  <2> SUFFICES ASSUME FlushInit PROVE FlushInv
    OBVIOUS
  <2>1. tries \in [1 .. N -> 0 .. 2] /\ \A d \in 1 .. N : tries[d] = 0
    BY DEF FlushInit
  <2>5. i \in 1 .. N + 1 /\ late \in 0 .. MaxLate /\ sem \in Nat
    BY DEF FlushInit
  <2>7. timer \in BOOLEAN
    BY Zenon DEF FlushInit
  <2>6. /\ vd \in {"source", "target"} /\ at = "call" /\ i = 1
        /\ Result \in {"pending", "ok", "failed"} /\ ldm \in {"no", "working", "stuck"}
        /\ flushed \in SUBSET ((1 .. N) \X {"source", "target"})
    BY DEF FlushInit
  <2>2. FlushTypeOK /\ LoopOrder
    BY <2>1, <2>5, <2>6, <2>7 DEF FlushTypeOK, LoopOrder
  <2>3. FlushedOrRetried
    BY DEF FlushInit, FlushedOrRetried
  <2>4. FreedOnlyWhenDone /\ NoLostWakeup /\ OkMeansFlushed
    BY DEF FlushInit, FreedOnlyWhenDone, NoLostWakeup, OkMeansFlushed
  <2> QED
    BY <2>2, <2>3, <2>4 DEF FlushInv
<1>2. FlushInv /\ [FlushNext]_flushVars => FlushInv'
  <2> SUFFICES ASSUME FlushInv, [FlushNext]_flushVars PROVE FlushInv'
    OBVIOUS
  <2>0. /\ N \in Nat \ {0} /\ MaxLate \in Nat /\ i \in 1 .. N + 1
        /\ tries \in [1 .. N -> 0 .. 2] /\ sem \in Nat /\ late \in 0 .. MaxLate
        /\ at \in {"call", "trylock", "down", "check"} /\ timer \in BOOLEAN
        /\ Result \in {"pending", "ok", "failed"} /\ ldm \in {"no", "working", "stuck"}
    BY DEF FlushInv, FlushTypeOK
  <2>1. CASE Refused
    <3>1. i \in 1 .. N /\ tries[i] + 1 \in 1 .. 2 /\ ldm = "no"
      BY <2>0, <2>1 DEF Refused, FlushInv, LoopOrder, FreedOnlyWhenDone
    <3> DEFINE n == tries[i] + 1
    <3>2. n \in 1 .. 2 /\ AfterFlush("failed", n) /\ tries' = [tries EXCEPT ![i] = n]
          /\ UNCHANGED <<vd, Result, ldm, sem, timer, late, flushed>>
      BY <2>1, <3>1 DEF Refused
    <3> HIDE DEF n
    <3> QED
      BY <3>1, <3>2, AfterFlushKeeps
  <2>2. CASE Submit
    <3>1. i \in 1 .. N /\ tries[i] + 1 \in 1 .. 2
      BY <2>0, <2>2 DEF Submit, FlushInv, LoopOrder
    <3>2. /\ tries' \in [1 .. N -> 0 .. 2] /\ tries'[i] = tries[i] + 1
          /\ \A d \in 1 .. N : d # i => tries'[d] = tries[d]
      BY <2>0, <2>2, <3>1 DEF Submit
    <3>3. /\ Result' = "pending" /\ ldm' \in {"working", "stuck"} /\ sem' = 0
          /\ at' = "trylock" /\ vd' \in {"source", "target"}
          /\ UNCHANGED <<i, timer, late, flushed>>
      BY <2>2 DEF Submit
    <3>4. FlushTypeOK' /\ LoopOrder'
      BY <2>0, <3>1, <3>2, <3>3 DEF FlushInv, FlushTypeOK, LoopOrder
    <3>5. FlushedOrRetried'
      <4> SUFFICES ASSUME NEW d \in 1 .. i' - 1
                   PROVE  <<d, "target">> \in flushed' \/ tries'[d] = 2
        BY DEF FlushedOrRetried
      <4>1. d \in 1 .. i - 1 /\ d \in 1 .. N /\ d # i
        BY <2>0, <3>1, <3>3
      <4> QED
        BY <3>2, <3>3, <4>1 DEF FlushInv, FlushedOrRetried
    <3>6. FreedOnlyWhenDone' /\ NoLostWakeup' /\ OkMeansFlushed'
      BY <3>3 DEF FreedOnlyWhenDone, NoLostWakeup, OkMeansFlushed
    <3> QED
      BY <3>4, <3>5, <3>6 DEF FlushInv
  <2>3. CASE Complete
    <3>1. at # "call" /\ Result = "pending"
      BY <2>3 DEF Complete, FlushInv, FreedOnlyWhenDone
    <3>2. PICK r \in {"ok", "failed"} : FlushDone(r, sem)
      BY <2>3 DEF Complete
    <3> QED
      BY <2>0, <2>3, <3>1, <3>2, DoneKeeps DEF Complete
  <2>4. CASE Reset
    <3>1. at = "check" /\ Result = "pending" /\ at' = "trylock"
          /\ UNCHANGED <<i, tries, timer, late>>
      BY <2>4 DEF Reset
    <3>2. CASE ldm' \in {"working", ldm} /\ sem' = 0 /\ UNCHANGED <<vd, Result, flushed>>
      BY <2>0, <3>1, <3>2 DEF FlushInv, FlushTypeOK, LoopOrder, FreedOnlyWhenDone, NoLostWakeup,
                              OkMeansFlushed, FlushedOrRetried
    <3>3. CASE \E r \in {"ok", "failed"} : FlushDone(r, 0)
      BY <3>1, <3>3, DoneKeeps
    <3> QED
      BY <2>4, <3>2, <3>3 DEF Reset
  <2>5. CASE Return
    <3>1. /\ at = "check" /\ Result \in {"ok", "failed"} /\ AfterFlush(Result, tries[i])
          /\ UNCHANGED <<tries, vd, Result, ldm, sem, timer, late, flushed>>
      BY <2>0, <2>5 DEF Return
    <3>2. /\ i \in 1 .. N /\ tries[i] \in 1 .. 2 /\ ldm = "no"
          /\ Result = "ok" => <<i, "target">> \in flushed
      BY <3>1 DEF FlushInv, LoopOrder, FreedOnlyWhenDone, OkMeansFlushed
    <3>3. tries' = [tries EXCEPT ![i] = tries[i]]
      BY <2>0, <3>1, <3>2
    <3> QED
      BY <3>1, <3>2, <3>3, AfterFlushKeeps
  <2>6. CASE Trylock \/ Down \/ TimerExpires \/ TimeoutSem \/ Finished \/ UNCHANGED flushVars
    <3>1. /\ sem' \in Nat /\ late' \in 0 .. MaxLate /\ timer' \in BOOLEAN
          /\ at' \in {"call", "trylock", "down", "check"} /\ (at = "call" <=> at' = "call")
          /\ UNCHANGED <<i, tries, vd, Result, ldm, flushed>>
      <4>1. CASE Trylock
        <5>1. timer' \in BOOLEAN
          BY <2>0, <4>1, Zenon DEF Trylock
        <5> QED
          BY <2>0, <4>1, <5>1 DEF Trylock
      <4>2. CASE Down
        <5>1. timer' \in BOOLEAN
          BY <4>2, Zenon DEF Down
        <5> QED
          BY <2>0, <4>2, <5>1 DEF Down
      <4>3. CASE TimerExpires
        <5>1. timer' \in BOOLEAN
          BY <4>3, Zenon DEF TimerExpires
        <5> QED
          BY <2>0, <4>3, <5>1 DEF TimerExpires
      <4>4. CASE TimeoutSem
        BY <2>0, <4>4 DEF TimeoutSem
      <4>5. CASE Finished \/ UNCHANGED flushVars
        BY <2>0, <4>5 DEF Finished, flushVars
      <4> QED
        BY <2>6, <4>1, <4>2, <4>3, <4>4, <4>5
    <3>2. NoLostWakeup'
      BY <2>0, <2>6, <3>1
         DEF Trylock, Down, TimerExpires, TimeoutSem, Finished, flushVars, FlushInv, NoLostWakeup
    <3> QED
      BY <2>0, <3>1, <3>2 DEF FlushInv, FlushTypeOK, LoopOrder, FreedOnlyWhenDone,
                              OkMeansFlushed, FlushedOrRetried
  <2> QED
    BY <2>1, <2>2, <2>3, <2>4, <2>5, <2>6 DEF FlushNext, Flusher
<1> QED
  BY <1>1, <1>2, PTL DEF FlushSpec

(* For any number of devices: the LDM has the command exactly as long as   *)
(* it is pending, source and target alike, and hpt_flush_vdev does not     *)
(* free it or return before.                                               *)
THEOREM CommandIsSafe == FlushSpec => [](FlushTypeOK /\ FreedOnlyWhenDone)
<1>1. FlushInv => FlushTypeOK /\ FreedOnlyWhenDone
  BY DEF FlushInv
<1> QED
  BY <1>1, FlushInvariant, PTL

(* A flush that is done has raised the semaphore the process sleeps on,    *)
(* though Reset sets it to 0.                                              *)
THEOREM WakeupIsKept == FlushSpec => []NoLostWakeup
<1>1. FlushInv => NoLostWakeup
  BY DEF FlushInv
<1> QED
  BY <1>1, FlushInvariant, PTL

(* For any number of devices: what the loop has left was flushed on its    *)
(* target or tried twice.                                                  *)
THEOREM LeftIsFlushed == FlushSpec => []FlushedOrRetried
<1>1. FlushInv => FlushedOrRetried
  BY DEF FlushInv
<1> QED
  BY <1>1, FlushInvariant, PTL
=============================================================================
