-------------------------- MODULE TaskQueue_proofs --------------------------
(***************************************************************************)
(* Proofs about TaskQueue, for any tasks and any number of contexts.       *)
(*                                                                         *)
(* A task queued while the worker is in service has a drain coming: this   *)
(* does not need the shape of the list, only the flags of the tasklet.     *)
(* Until tasklet_kill takes it, SCHED is set exactly as long as the        *)
(* tasklet is on a softirq list.                                           *)
(*                                                                         *)
(* The list and the batch being drained are the two parts of one queue     *)
(* (Queued), and every step takes a task from its front, appends one or    *)
(* leaves it (QueueKept): the lists are well formed and implement Fifo.    *)
(***************************************************************************)
EXTENDS TaskQueue, FiniteSetTheorems, SequenceTheorems, TLAPS

(* The types are preserved by every step.                                  *)
THEOREM TypeCorrect == Spec => []TypeOK
<1> USE TaskQueueAssumption DEF TaskQueueAssumption, Thread, Drainer, MaybeTask
<1>1. Init => TypeOK
  BY DEF Init, TypeOK
<1>2. TypeOK /\ [Next]_vars => TypeOK'
  <2> SUFFICES ASSUME TypeOK, [Next]_vars PROVE TypeOK'
    OBVIOUS
  <2> USE DEF TypeOK
  <2>1. ASSUME NEW th \in Thread, Enter(th) PROVE TypeOK'
    BY <2>1 DEF Enter, Acquire
  <2>2. ASSUME NEW th \in Thread, QueueCommand(th) PROVE TypeOK'
    BY <2>2 DEF QueueCommand, Acquire, Detach
  <2>3. ASSUME NEW th \in Thread, IoctlDoTasks(th) PROVE TypeOK'
    BY <2>3 DEF IoctlDoTasks, Detach
  <2>4. ASSUME NEW th \in Thread, RunTask(th) PROVE TypeOK'
    BY <2>4 DEF RunTask
  <2>5. ASSUME NEW th \in Thread, TaskReturn(th) PROVE TypeOK'
    BY <2>5 DEF TaskReturn
  <2>6. ASSUME NEW th \in Thread, DrainDone(th) PROVE TypeOK'
    BY <2>6 DEF DrainDone
  <2>7. ASSUME NEW th \in Thread, Leave(th) PROVE TypeOK'
    BY <2>7 DEF Leave
  <2>8. ASSUME NEW th \in Thread, NEW t \in Task, ScheduleTask(th, t) PROVE TypeOK'
    BY <2>8 DEF ScheduleTask
  <2>9. CASE DoTasks
    BY <2>9 DEF DoTasks, Acquire, Detach
  <2>10. CASE KickWorker
    <3>1. sched' \in BOOLEAN /\ softq' \in BOOLEAN
      BY <2>10, Zenon DEF KickWorker, TaskletSchedule
    <3>2. /\ kick' = FALSE
          /\ lock' = lock /\ head' = head /\ next' = next /\ todo' = todo
          /\ pc' = pc /\ func' = func /\ run' = run /\ main' = main
      BY <2>10 DEF KickWorker
    <3>3. kick' \in BOOLEAN
      BY <3>2
    <3> QED
      BY <3>1, <3>2, <3>3
  <2>11. CASE TaskletAction
    BY <2>11 DEF TaskletAction
  <2>12. CASE MainStep
    <3>1. CASE CheckTasks
      <4>1. sched' \in BOOLEAN /\ softq' \in BOOLEAN
        BY <3>1, Zenon DEF CheckTasks, TaskletSchedule
      <4> QED
        BY <3>1, <4>1 DEF CheckTasks
    <3>2. CASE ~CheckTasks
      BY <2>12, <3>2 DEF MainStep, TaskletInit, CheckTasksEarly, StoreVisible,
                         KillTakeSched, KillWaitRun, DisableWorker
    <3> QED
      BY <3>1, <3>2
  <2>13. CASE UNCHANGED vars
    BY <2>13 DEF vars
  <2> QED
    BY <2>1, <2>2, <2>3, <2>4, <2>5, <2>6, <2>7, <2>8, <2>9, <2>10, <2>11, <2>12,
       <2>13 DEF Next, ThreadStep
<1> QED
  BY <1>1, <1>2, PTL DEF Spec

(* What the flags of the tasklet say until it is killed.                   *)
WorkerFlags ==
  /\ main \in {"init", "inited", "ready"} => sched = softq
  /\ main = "init" => ~func
  /\ main \in {"inited", "ready"} => func

(* A task that is queued while the worker is in service has a drain        *)
(* coming, whoever scheduled it and whatever the worker was doing.         *)
THEOREM NoTaskIsStranded == Spec => []NoStrandedTask
<1> DEFINE Inv == WorkerFlags /\ NoStrandedTask
<1> USE TaskQueueAssumption DEF TaskQueueAssumption, Thread, Drainer
<1>1. Init => Inv
  BY DEF Init, WorkerFlags, NoStrandedTask
<1>2. TypeOK /\ Inv /\ [Next]_vars => Inv'
  <2> SUFFICES ASSUME TypeOK, Inv, [Next]_vars PROVE Inv'
    OBVIOUS
  <2>0. pc \in [Thread -> {"idle", "ldm", "called", "drain", "task", "null_call"}]
        /\ kick \in BOOLEAN /\ func \in BOOLEAN /\ sched \in BOOLEAN /\ softq \in BOOLEAN
    BY DEF TypeOK
  <2> USE DEF WorkerFlags, NoStrandedTask, DrainComing
  <2>1. ASSUME NEW th \in Thread, Enter(th) PROVE Inv'
    BY <2>0, <2>1 DEF Enter, Acquire
  <2>2. ASSUME NEW th \in Thread, QueueCommand(th) PROVE Inv'
    BY <2>0, <2>2 DEF QueueCommand, Acquire, Detach
  <2>3. ASSUME NEW th \in Thread, IoctlDoTasks(th) PROVE Inv'
    BY <2>0, <2>3 DEF IoctlDoTasks, Detach
  <2>4. ASSUME NEW th \in Thread, RunTask(th) PROVE Inv'
    BY <2>0, <2>4 DEF RunTask
  <2>5. ASSUME NEW th \in Thread, TaskReturn(th) PROVE Inv'
    BY <2>0, <2>5 DEF TaskReturn
  <2>6. ASSUME NEW th \in Thread, DrainDone(th) PROVE Inv'
    BY <2>0, <2>6 DEF DrainDone
  <2>7. ASSUME NEW th \in Thread, Leave(th) PROVE Inv'
    BY <2>0, <2>7 DEF Leave
  <2>8. ASSUME NEW th \in Thread, NEW t \in Task, ScheduleTask(th, t) PROVE Inv'
    BY <2>0, <2>8 DEF ScheduleTask
  <2>9. CASE DoTasks
    BY <2>0, <2>9 DEF DoTasks, Acquire, Detach
  <2>10. CASE KickWorker
    BY <2>0, <2>10 DEF KickWorker, TaskletSchedule
  <2>11. CASE TaskletAction
    BY <2>0, <2>11 DEF TaskletAction
  <2>12. CASE MainStep
    BY <2>0, <2>12 DEF MainStep, TaskletInit, CheckTasks, CheckTasksEarly, StoreVisible,
                 KillTakeSched, KillWaitRun, DisableWorker, TaskletSchedule
  <2>13. CASE UNCHANGED vars
    BY <2>13 DEF vars
  <2> QED
    BY <2>1, <2>2, <2>3, <2>4, <2>5, <2>6, <2>7, <2>8, <2>9, <2>10, <2>11, <2>12,
       <2>13 DEF Next, ThreadStep
<1> QED
  BY <1>1, <1>2, TypeCorrect, PTL DEF Spec

-----------------------------------------------------------------------------
(* A set of numbers with 0 and with the successor of each of its elements  *)
(* has them all: otherwise take the smallest initial segment that ends     *)
(* outside it.                                                             *)
LEMMA SetInduction ==
  ASSUME NEW S \in SUBSET Nat, 0 \in S, \A n \in S : n + 1 \in S
  PROVE  S = Nat
<1> DEFINE F == {0 .. k : k \in Nat \ S}
<1>1. CASE S # Nat
  <2>1. F # {} /\ F \subseteq FiniteSubsetsOf(Nat)
    <3>1. ASSUME NEW k \in Nat PROVE 0 .. k \in FiniteSubsetsOf(Nat)
      BY FS_Interval DEF FiniteSubsetsOf
    <3> QED
      BY <1>1, <3>1
  <2> HIDE DEF F
  <2>2. PICK x \in F : \A y \in F : ~(<<y, x>> \in StrictSubsetOrdering(Nat))
    BY <2>1, FS_StrictSubsetOrderingWellFounded, WFMin
  <2> USE DEF F
  <2>3. PICK k \in Nat \ S : x = 0 .. k
    OBVIOUS
  <2>4. k # 0 /\ k - 1 \in Nat \ S
    OBVIOUS
  <2>5. 0 .. k - 1 \in F
    BY <2>4
  <2>6. <<0 .. k - 1, 0 .. k>> \in StrictSubsetOrdering(Nat)
    <3>1. 0 .. k - 1 \subseteq 0 .. k /\ 0 .. k \subseteq Nat
      BY <2>4
    <3>2. k \in 0 .. k /\ k \notin 0 .. k - 1
      BY <2>4
    <3> QED
      BY <3>1, <3>2 DEF StrictSubsetOrdering
  <2> QED
    BY <2>2, <2>3, <2>5, <2>6
<1> QED
  BY <1>1

-----------------------------------------------------------------------------
(* Chain with the next pointers as a parameter, so that it can speak of    *)
(* the state after a step; and the equation of the function in it.         *)
ChainIn(nx, first) ==
  LET at[n \in 0 .. Cardinality(Task)] ==
        IF n = 0 THEN first ELSE IF at[n - 1] = NoTask THEN NoTask ELSE nx[at[n - 1]]
      length == Cardinality({n \in DOMAIN at : at[n] # NoTask})
  IN  [i \in 1 .. length |-> at[i - 1]]

Walks(nx, first, n, at) ==
  at = [k \in 0 .. n |->
          IF k = 0 THEN first ELSE IF at[k - 1] = NoTask THEN NoTask ELSE nx[at[k - 1]]]

(* Chain follows the pointers of the state it is asked in.                 *)
LEMMA ChainNow ==
  /\ \A first : Chain(first) = ChainIn(next, first)
  /\ \A first : Chain(first)' = ChainIn(next', first')
BY DEF Chain, ChainIn

(* There is a walk of any length.                                          *)
LEMMA WalkExists ==
  ASSUME NEW nx, NEW first, NEW n \in Nat
  PROVE  \E at : Walks(nx, first, n, at)
<1> DEFINE S == {m \in Nat : \E at : Walks(nx, first, m, at)}
<1>1. 0 \in S
  <2>1. Walks(nx, first, 0, [k \in 0 .. 0 |-> first])
    BY DEF Walks
  <2> QED
    BY <2>1
<1>2. ASSUME NEW m \in S PROVE m + 1 \in S
  <2>1. PICK a : Walks(nx, first, m, a)
    BY <1>2
  <2> DEFINE Step(x) == IF x = NoTask THEN NoTask ELSE nx[x]
             b == [k \in 0 .. m + 1 |-> IF k = m + 1 THEN Step(a[m]) ELSE a[k]]
  <2>2. /\ m \in Nat
        /\ \A k \in 0 .. m : a[k] = IF k = 0 THEN first ELSE Step(a[k - 1])
    BY <1>2, <2>1 DEF Walks
  <2> HIDE DEF Step
  <2>3. \A k \in 0 .. m + 1 : b[k] = IF k = 0 THEN first ELSE Step(b[k - 1])
    <3> SUFFICES ASSUME NEW k \in 0 .. m + 1
                 PROVE  b[k] = IF k = 0 THEN first ELSE Step(b[k - 1])
      OBVIOUS
    <3>1. CASE k = m + 1
      <4>1. k # 0 /\ k - 1 = m /\ k - 1 \in 0 .. m + 1 /\ k - 1 # m + 1
        BY <2>2, <3>1
      <4> QED
        BY <3>1, <4>1
    <3>2. CASE k # m + 1 /\ k # 0
      <4>1. k \in 0 .. m /\ k - 1 \in 0 .. m + 1 /\ k - 1 # m + 1
        BY <2>2, <3>2
      <4> QED
        BY <2>2, <3>2, <4>1
    <3>3. CASE k = 0
      <4>1. k \in 0 .. m /\ k # m + 1
        BY <2>2, <3>3
      <4> QED
        BY <2>2, <3>3, <4>1
    <3> QED
      BY <3>1, <3>2, <3>3
  <2>4. b = [k \in 0 .. m + 1 |-> IF k = 0 THEN first ELSE Step(b[k - 1])]
    <3> HIDE DEF b
    <3>1. DOMAIN b = 0 .. m + 1 /\ b = [k \in 0 .. m + 1 |-> b[k]]
      BY DEF b
    <3> QED
      BY <2>3, <3>1
  <2>5. Walks(nx, first, m + 1, b)
    BY <2>4 DEF Walks, Step
  <2> QED
    BY <2>2, <2>5
<1>3. S = Nat
  <2> HIDE DEF S
  <2>1. S \in SUBSET Nat
    BY DEF S
  <2> QED
    BY <1>1, <1>2, <2>1, SetInduction
<1> QED
  BY <1>3

(* Chain takes one.                                                        *)
ItsWalk(nx, first, at) ==
  /\ Walks(nx, first, Cardinality(Task), at)
  /\ ChainIn(nx, first) =
       [i \in 1 .. Cardinality({n \in DOMAIN at : at[n] # NoTask}) |-> at[i - 1]]

(* Every first task and every pointer have a walk.                         *)
LEMMA ChainWalks == ASSUME NEW nx, NEW first PROVE \E at : ItsWalk(nx, first, at)
<1> DEFINE own == CHOOSE at : Walks(nx, first, Cardinality(Task), at)
<1>1. Cardinality(Task) \in Nat
  BY TaskQueueAssumption, FS_CardinalityType DEF TaskQueueAssumption
<1>2. Walks(nx, first, Cardinality(Task), own)
  BY <1>1, WalkExists
<1>3. ChainIn(nx, first) =
        [i \in 1 .. Cardinality({n \in DOMAIN own : own[n] # NoTask}) |-> own[i - 1]]
  BY DEF ChainIn, Walks
<1> HIDE DEF own
<1> QED
  BY <1>2, <1>3 DEF ItsWalk

(* s lists the tasks from the pointer first to the null pointer.           *)
Distinct(s) == \A i, j \in 1 .. Len(s) : s[i] = s[j] => i = j

Leads(nx, first, s) ==
  /\ first = IF Len(s) = 0 THEN NoTask ELSE s[1]
  /\ \A i \in 1 .. Len(s) : nx[s[i]] = IF i = Len(s) THEN NoTask ELSE s[i + 1]

(* Then it is what Chain finds, and it is no longer than there are tasks.  *)
LEMMA ChainIs ==
  ASSUME NEW nx, NEW first, NEW s \in Seq(Task), Distinct(s), Leads(nx, first, s)
  PROVE  ChainIn(nx, first) = s
<1> DEFINE N == Cardinality(Task)
<1>1. N \in Nat /\ IsFiniteSet(Task) /\ NoTask \notin Task
  BY TaskQueueAssumption, FS_CardinalityType DEF TaskQueueAssumption
<1>2. Len(s) \in Nat /\ s \in [1 .. Len(s) -> Task] /\ DOMAIN s = 1 .. Len(s)
  BY LenProperties
<1>3. Len(s) <= N
  <2>1. s \in Injection(1 .. Len(s), Task)
    BY <1>2 DEF Injection, Distinct, IsInjective
  <2>2. Cardinality(1 .. Len(s)) <= N
    BY <1>1, <2>1, FS_Injection
  <2>3. Cardinality(1 .. Len(s)) = IF 1 > Len(s) THEN 0 ELSE Len(s) - 1 + 1
    BY <1>2, FS_Interval
  <2> QED
    BY <1>1, <1>2, <2>2, <2>3
<1>4. PICK at : ItsWalk(nx, first, at)
  BY ChainWalks
<1>5. /\ DOMAIN at = 0 .. N
      /\ \A k \in 0 .. N : at[k] = IF k = 0 THEN first
                                   ELSE IF at[k - 1] = NoTask THEN NoTask ELSE nx[at[k - 1]]
  BY <1>4 DEF Walks, ItsWalk
<1> HIDE DEF N
<1> DEFINE Found(k) == at[k] = IF k < Len(s) THEN s[k + 1] ELSE NoTask
           S == {k \in Nat : k <= N => Found(k)}
<1>6. 0 \in S
  <2>1. at[0] = first
    BY <1>1, <1>5
  <2>2. Len(s) = 0 => first = NoTask
    BY DEF Leads
  <2>3. Len(s) # 0 => first = s[1]
    BY DEF Leads
  <2>4. Found(0)
    <3>1. 0 + 1 = 1 /\ (0 < Len(s) <=> Len(s) # 0)
      BY <1>2
    <3> QED
      BY <2>1, <2>2, <2>3, <3>1
  <2> QED
    BY <2>4
<1>7. ASSUME NEW k \in S PROVE k + 1 \in S
  <2>1. SUFFICES ASSUME k + 1 <= N PROVE Found(k + 1)
    BY <1>7
  <2>2. k \in Nat /\ Found(k) /\ k + 1 \in 0 .. N
    BY <1>1, <1>7, <2>1
  <2>3. at[k + 1] = IF at[k] = NoTask THEN NoTask ELSE nx[at[k]]
    BY <1>5, <2>2
  <2>4. CASE k < Len(s)
    <3>1. k + 1 \in 1 .. Len(s) /\ at[k] = s[k + 1] /\ s[k + 1] \in Task
      BY <1>2, <2>2, <2>4
    <3>2. at[k + 1] = nx[s[k + 1]]
      BY <1>1, <2>3, <3>1
    <3>3. nx[s[k + 1]] = IF k + 1 = Len(s) THEN NoTask ELSE s[k + 1 + 1]
      BY <3>1 DEF Leads
    <3>4. k \in Nat /\ Len(s) \in Nat
      BY <1>2, <2>2
    <3>5. CASE k + 1 = Len(s)
      BY <3>2, <3>3, <3>4, <3>5
    <3>6. CASE k + 1 # Len(s)
      <4>1. k + 1 < Len(s)
        BY <2>4, <3>4, <3>6
      <4> QED
        BY <3>2, <3>3, <3>6, <4>1
    <3> QED
      BY <3>5, <3>6
  <2>5. CASE ~(k < Len(s))
    BY <1>2, <2>2, <2>3, <2>5
  <2> QED
    BY <2>4, <2>5
<1>8. \A k \in 0 .. N : Found(k)
  <2> HIDE DEF Found
  <2>1. S \in SUBSET Nat
    OBVIOUS
  <2> HIDE DEF S
  <2>2. S = Nat
    BY <1>6, <1>7, <2>1, SetInduction
  <2> QED
    BY <1>1, <2>2 DEF S
<1>9. {n \in DOMAIN at : at[n] # NoTask} = 0 .. Len(s) - 1
  <2>1. ASSUME NEW n \in 0 .. N PROVE at[n] # NoTask <=> n < Len(s)
    <3>1. CASE n < Len(s)
      <4>1. n + 1 \in 1 .. Len(s) /\ at[n] = s[n + 1]
        BY <1>2, <1>8, <3>1
      <4> QED
        BY <1>1, <1>2, <3>1, <4>1
    <3>2. CASE ~(n < Len(s))
      BY <1>8, <3>2
    <3> QED
      BY <3>1, <3>2
  <2> QED
    BY <1>1, <1>2, <1>3, <1>5, <2>1
<1>10. Cardinality(0 .. Len(s) - 1) = Len(s)
  BY <1>2, FS_Interval
<1>11. ChainIn(nx, first) = [i \in 1 .. Len(s) |-> at[i - 1]]
  BY <1>4, <1>9, <1>10 DEF ItsWalk
<1>12. ASSUME NEW i \in 1 .. Len(s) PROVE at[i - 1] = s[i]
  <2>1. i - 1 \in 0 .. N /\ i - 1 < Len(s) /\ i - 1 + 1 = i
    BY <1>1, <1>2, <1>3
  <2> QED
    BY <1>8, <2>1
<1> QED
  BY <1>2, <1>11, <1>12

-----------------------------------------------------------------------------
(* The queue: the first k of its tasks are the batch being drained, which  *)
(* hangs on the pointer batch, the others the list, which hangs on first.  *)
Batch == IF lock \in Drainer THEN todo[lock] ELSE NoTask

Queued(nx, batch, first, w, k) ==
  /\ w \in Seq(Task) /\ Distinct(w) /\ k \in 0 .. Len(w)
  /\ batch = IF k = 0 THEN NoTask ELSE w[1]
  /\ first = IF k = Len(w) THEN NoTask ELSE w[k + 1]
  /\ \A i \in 1 .. Len(w) : nx[w[i]] = IF i = k \/ i = Len(w) THEN NoTask ELSE w[i + 1]
  /\ \A t \in Task : (\A i \in 1 .. Len(w) : w[i] # t) => nx[t] = NoTask

(* Then Chain finds the two parts.                                         *)
LEMMA ChainsAre ==
  ASSUME NEW nx, NEW batch, NEW first, NEW w, NEW k, Queued(nx, batch, first, w, k)
  PROVE  /\ ChainIn(nx, batch) = SubSeq(w, 1, k)
         /\ ChainIn(nx, first) = SubSeq(w, k + 1, Len(w))
         /\ ChainIn(nx, batch) \o ChainIn(nx, first) = w
         /\ DOMAIN ChainIn(nx, batch) = 1 .. k
         /\ \A i \in 1 .. k : ChainIn(nx, batch)[i] = w[i]
         /\ DOMAIN ChainIn(nx, first) = 1 .. Len(w) - k
         /\ \A i \in 1 .. Len(w) - k : ChainIn(nx, first)[i] = w[k + i]
<1> DEFINE b == SubSeq(w, 1, k)
           q == SubSeq(w, k + 1, Len(w))
<1>1. /\ w \in Seq(Task) /\ Distinct(w) /\ k \in 0 .. Len(w)
      /\ Len(w) \in Nat /\ w \in [1 .. Len(w) -> Task] /\ DOMAIN w = 1 .. Len(w)
  BY LenProperties DEF Queued
<1>0. k \in Nat /\ Len(w) \in Nat /\ k <= Len(w)
  BY <1>1
<1>2. b \in Seq(Task) /\ Len(b) = k /\ \A i \in 1 .. k : b[i] = w[i]
  <2>1. \A i \in 1 .. k : w[i] \in Task
    BY <1>1
  <2>2. Len(b) = IF 1 <= k THEN k - 1 + 1 ELSE 0
    BY <1>1, SubSeqProperties
  <2>3. /\ b \in Seq(Task)
        /\ \A i \in 1 .. k - 1 + 1 : b[i] = w[1 + i - 1]
    BY <1>1, <2>1, SubSeqProperties
  <2> HIDE DEF b
  <2>4. \A i \in 1 .. k : i \in 1 .. k - 1 + 1 /\ 1 + i - 1 = i
    BY <1>1
  <2> QED
    BY <1>1, <2>2, <2>3, <2>4
<1>3. q \in Seq(Task) /\ Len(q) = Len(w) - k /\ \A i \in 1 .. Len(w) - k : q[i] = w[k + i]
  <2>1. \A i \in k + 1 .. Len(w) : w[i] \in Task
    BY <1>1
  <2>2. /\ q \in Seq(Task)
        /\ Len(q) = IF k + 1 <= Len(w) THEN Len(w) - (k + 1) + 1 ELSE 0
        /\ \A i \in 1 .. Len(w) - (k + 1) + 1 : q[i] = w[k + 1 + i - 1]
    BY <1>1, <2>1, SubSeqProperties
  <2> HIDE DEF q
  <2>3. \A i \in 1 .. Len(w) - k : i \in 1 .. Len(w) - (k + 1) + 1 /\ k + 1 + i - 1 = k + i
    BY <1>1
  <2>4. Len(q) = Len(w) - k
    BY <1>0, <2>2
  <2>5. ASSUME NEW i \in 1 .. Len(w) - k PROVE q[i] = w[k + i]
    <3>1. i \in 1 .. Len(w) - (k + 1) + 1 /\ k + 1 + i - 1 = k + i
      BY <2>3
    <3> QED
      BY <2>2, <3>1
  <2> QED
    BY <2>2, <2>4, <2>5
<1> HIDE DEF b, q
<1>4. Distinct(b) /\ Leads(nx, batch, b)
  <2>1. Distinct(b)
    BY <1>1, <1>2 DEF Distinct
  <2>2. batch = IF Len(b) = 0 THEN NoTask ELSE b[1]
    <3>1. batch = IF k = 0 THEN NoTask ELSE w[1]
      BY DEF Queued
    <3>2. k # 0 => 1 \in 1 .. k
      BY <1>1
    <3> QED
      BY <1>2, <3>1, <3>2
  <2>3. ASSUME NEW i \in 1 .. Len(b)
        PROVE  nx[b[i]] = IF i = Len(b) THEN NoTask ELSE b[i + 1]
    <3>1. i \in 1 .. Len(w) /\ b[i] = w[i] /\ (i # k => b[i + 1] = w[i + 1] /\ i # Len(w))
      <4>1. i \in Nat /\ k \in Nat /\ Len(w) \in Nat /\ k <= Len(w) /\ 1 <= i /\ i <= k
        BY <1>1, <1>2
      <4>2. i # k => i + 1 \in 1 .. k
        BY <4>1
      <4> QED
        BY <1>2, <4>1, <4>2
    <3>2. nx[w[i]] = IF i = k \/ i = Len(w) THEN NoTask ELSE w[i + 1]
      BY <3>1 DEF Queued
    <3> QED
      BY <1>2, <3>1, <3>2
  <2> QED
    BY <2>1, <2>2, <2>3 DEF Leads
<1>5. Distinct(q) /\ Leads(nx, first, q)
  <2>1. Distinct(q)
    <3> SUFFICES ASSUME NEW i \in 1 .. Len(q), NEW j \in 1 .. Len(q), q[i] = q[j] PROVE i = j
      BY DEF Distinct
    <3>1. w[k + i] = w[k + j] /\ k + i \in 1 .. Len(w) /\ k + j \in 1 .. Len(w)
      <4>1. /\ i \in 1 .. Len(w) - k /\ j \in 1 .. Len(w) - k
            /\ k \in Nat /\ Len(w) \in Nat /\ k <= Len(w)
        BY <1>1, <1>3
      <4>2. k + i \in 1 .. Len(w) /\ k + j \in 1 .. Len(w)
        BY <4>1
      <4> QED
        BY <1>3, <4>1, <4>2
    <3>2. k + i = k + j
      BY <1>1, <3>1 DEF Distinct
    <3> QED
      BY <1>1, <3>2
  <2>2. first = IF Len(q) = 0 THEN NoTask ELSE q[1]
    <3>1. first = IF k = Len(w) THEN NoTask ELSE w[k + 1]
      BY DEF Queued
    <3>2. Len(q) = 0 <=> k = Len(w)
      BY <1>0, <1>3
    <3>3. k # Len(w) => 1 \in 1 .. Len(w) - k
      BY <1>0
    <3>4. k # Len(w) => q[1] = w[k + 1]
      BY <1>3, <3>3
    <3> QED
      BY <3>1, <3>2, <3>4
  <2>3. ASSUME NEW i \in 1 .. Len(q)
        PROVE  nx[q[i]] = IF i = Len(q) THEN NoTask ELSE q[i + 1]
    <3>1. /\ k + i \in 1 .. Len(w) /\ q[i] = w[k + i] /\ k + i # k
          /\ (k + i = Len(w) <=> i = Len(q))
      <4>1. i \in 1 .. Len(w) - k
        BY <1>3
      <4>2. k + i \in 1 .. Len(w) /\ k + i # k /\ (k + i = Len(w) <=> i = Len(w) - k)
        BY <1>0, <4>1
      <4> QED
        BY <1>3, <4>1, <4>2
    <3>2. nx[w[k + i]] = IF k + i = k \/ k + i = Len(w) THEN NoTask ELSE w[k + i + 1]
      BY <3>1 DEF Queued
    <3>3. i # Len(q) => i + 1 \in 1 .. Len(w) - k /\ k + (i + 1) = k + i + 1
      <4>1. i \in 1 .. Len(w) - k /\ Len(q) = Len(w) - k
        BY <1>3
      <4> QED
        BY <1>0, <4>1
    <3>4. i # Len(q) => q[i + 1] = w[k + i + 1]
      BY <1>3, <3>3
    <3> QED
      BY <3>1, <3>2, <3>4
  <2> QED
    BY <2>1, <2>2, <2>3 DEF Leads
<1>6. ChainIn(nx, batch) = b /\ ChainIn(nx, first) = q
  BY <1>2, <1>3, <1>4, <1>5, ChainIs
<1>7. b \o q = w
  <2>1. SubSeq(w, 1, Len(w)) = w
    BY <1>1, SubSeqFull
  <2>2. SubSeq(w, 1, k) \o SubSeq(w, k + 1, Len(w)) = SubSeq(w, 1, Len(w))
    <3>1. /\ 1 \in 1 .. Len(w) + 1 /\ k \in 1 - 1 .. Len(w) /\ Len(w) \in k .. Len(w)
      BY <1>0
    <3> QED
      BY <1>1, <3>1, ConcatAdjacentSubSeq
  <2> QED
    BY <2>1, <2>2 DEF b, q
<1>8. DOMAIN b = 1 .. k /\ DOMAIN q = 1 .. Len(w) - k
  BY <1>2, <1>3, LenProperties
<1>9. /\ DOMAIN ChainIn(nx, batch) = 1 .. k
      /\ \A i \in 1 .. k : ChainIn(nx, batch)[i] = w[i]
      /\ DOMAIN ChainIn(nx, first) = 1 .. Len(w) - k
      /\ \A i \in 1 .. Len(w) - k : ChainIn(nx, first)[i] = w[k + i]
  BY <1>2, <1>3, <1>6, <1>8
<1> QED
  BY <1>6, <1>7, <1>9 DEF b, q

-----------------------------------------------------------------------------
(* Who holds the lock, and who has a batch: only the holder, and only      *)
(* while it drains.                                                        *)
Holder ==
  /\ \A th \in Thread : pc[th] \in {"ldm", "drain", "task"} <=> lock = th
  /\ \A d \in Drainer : d # lock \/ pc[d] = "ldm" => todo[d] = NoTask
  /\ pc[Worker] # "idle" => run

(* Every step keeps it.                                                    *)
LEMMA HolderKept == ASSUME TypeOK, Holder, [Next]_vars PROVE Holder'
<1> USE TaskQueueAssumption DEF TaskQueueAssumption, Thread, Drainer, TypeOK, Holder
<1>1. ASSUME NEW th \in Thread, Enter(th) PROVE Holder'
  BY <1>1 DEF Enter, Acquire
<1>2. ASSUME NEW th \in Thread, QueueCommand(th) PROVE Holder'
  BY <1>2 DEF QueueCommand, Acquire, Detach
<1>3. ASSUME NEW th \in Thread, IoctlDoTasks(th) PROVE Holder'
  BY <1>3 DEF IoctlDoTasks, Detach
<1>4. ASSUME NEW th \in Thread, RunTask(th) PROVE Holder'
  BY <1>4 DEF RunTask
<1>5. ASSUME NEW th \in Thread, TaskReturn(th) PROVE Holder'
  BY <1>5 DEF TaskReturn
<1>6. ASSUME NEW th \in Thread, DrainDone(th) PROVE Holder'
  BY <1>6 DEF DrainDone
<1>7. ASSUME NEW th \in Thread, Leave(th) PROVE Holder'
  BY <1>7 DEF Leave
<1>8. ASSUME NEW th \in Thread, NEW t \in Task, ScheduleTask(th, t) PROVE Holder'
  BY <1>8 DEF ScheduleTask
<1>9. CASE DoTasks
  BY <1>9 DEF DoTasks, Acquire, Detach
<1>10. CASE KickWorker
  BY <1>10 DEF KickWorker
<1>11. CASE TaskletAction
  BY <1>11 DEF TaskletAction
<1>12. CASE MainStep
  BY <1>12 DEF MainStep, TaskletInit, CheckTasks, CheckTasksEarly, StoreVisible,
               KillTakeSched, KillWaitRun, DisableWorker
<1>13. CASE UNCHANGED vars
  BY <1>13 DEF vars
<1> QED
  BY <1>1, <1>2, <1>3, <1>4, <1>5, <1>6, <1>7, <1>8, <1>9, <1>10, <1>11, <1>12,
     <1>13 DEF Next, ThreadStep

-----------------------------------------------------------------------------
(* What is in a queue.                                                     *)
LEMMA QueueFacts ==
  ASSUME NEW nx, NEW batch, NEW first, NEW w, NEW k, Queued(nx, batch, first, w, k)
  PROVE  /\ w \in Seq(Task) /\ Len(w) \in Nat /\ k \in Nat /\ k <= Len(w)
         /\ \A i \in 1 .. Len(w) : w[i] \in Task /\ w[i] # NoTask
         /\ (batch = NoTask <=> k = 0) /\ (k # 0 => batch = w[1])
         /\ (first = NoTask <=> k = Len(w)) /\ (k # Len(w) => first = w[k + 1])
<1>1. /\ w \in Seq(Task) /\ k \in 0 .. Len(w) /\ NoTask \notin Task
      /\ batch = IF k = 0 THEN NoTask ELSE w[1]
      /\ first = IF k = Len(w) THEN NoTask ELSE w[k + 1]
  BY TaskQueueAssumption DEF Queued, TaskQueueAssumption
<1>2. Len(w) \in Nat /\ \A i \in 1 .. Len(w) : w[i] \in Task
  BY <1>1, LenProperties, ElementOfSeq
<1>3. k \in Nat /\ k <= Len(w)
  BY <1>1, <1>2
<1>4. /\ k # 0 => 1 \in 1 .. Len(w)
      /\ k # Len(w) => k + 1 \in 1 .. Len(w)
  BY <1>2, <1>3
<1> QED
  BY <1>1, <1>2, <1>3, <1>4

(* __hpt_do_tasks takes the list: it becomes the batch.                    *)
LEMMA Detached ==
  ASSUME NEW nx, NEW first, NEW w, NEW k, Queued(nx, NoTask, first, w, k)
  PROVE  Queued(nx, first, NoTask, w, Len(w))
<1>1. k = 0 /\ Len(w) \in Nat
  BY QueueFacts
<1>2. first = IF Len(w) = 0 THEN NoTask ELSE w[1]
  BY <1>1 DEF Queued
<1>3. \A i \in 1 .. Len(w) : nx[w[i]] = IF i = Len(w) THEN NoTask ELSE w[i + 1]
  BY <1>1 DEF Queued
<1>4. Len(w) \in 0 .. Len(w)
  BY <1>1
<1> QED
  BY <1>2, <1>3, <1>4 DEF Queued

(* One turn of its loop unlinks the first task.                            *)
LEMMA Popped ==
  ASSUME NEW nx \in [Task -> MaybeTask], NEW batch, NEW first, NEW w, NEW k,
         Queued(nx, batch, first, w, k), batch # NoTask
  PROVE  /\ w # <<>>
         /\ Queued([nx EXCEPT ![batch] = NoTask], nx[batch], first, Tail(w), k - 1)
<1> DEFINE n == [nx EXCEPT ![batch] = NoTask]
           v == Tail(w)
<1>1. /\ w \in Seq(Task) /\ Len(w) \in Nat /\ k \in Nat /\ k <= Len(w) /\ k # 0
      /\ \A i \in 1 .. Len(w) : w[i] \in Task /\ w[i] # NoTask
      /\ batch = w[1] /\ (first = NoTask <=> k = Len(w)) /\ (k # Len(w) => first = w[k + 1])
  BY QueueFacts
<1>2. w # <<>> /\ 1 \in 1 .. Len(w)
  <2>1. 1 \in 1 .. Len(w) /\ Len(w) # 0
    BY <1>1
  <2> QED
    BY <1>1, <2>1, EmptySeq
<1>3. /\ v \in Seq(Task) /\ Len(v) = Len(w) - 1
      /\ \A i \in 1 .. Len(w) - 1 : v[i] = w[i + 1]
  BY <1>1, <1>2, HeadTailProperties
<1>4. /\ Distinct(w)
      /\ \A i \in 1 .. Len(w) : nx[w[i]] = IF i = k \/ i = Len(w) THEN NoTask ELSE w[i + 1]
      /\ \A t \in Task : (\A i \in 1 .. Len(w) : w[i] # t) => nx[t] = NoTask
  BY DEF Queued
<1>5. /\ n[batch] = NoTask
      /\ \A t \in Task : t # batch => n[t] = nx[t]
  BY <1>1, <1>2
<1> HIDE DEF n, v
<1>6. Distinct(v)
  <2> SUFFICES ASSUME NEW i \in 1 .. Len(v), NEW j \in 1 .. Len(v), v[i] = v[j] PROVE i = j
    BY DEF Distinct
  <2>1. /\ i \in 1 .. Len(w) - 1 /\ j \in 1 .. Len(w) - 1
    BY <1>3
  <2>2. i + 1 \in 1 .. Len(w) /\ j + 1 \in 1 .. Len(w)
    BY <1>1, <2>1
  <2>3. w[i + 1] = w[j + 1]
    BY <1>3, <2>1
  <2>4. i + 1 = j + 1
    BY <1>4, <2>2, <2>3 DEF Distinct
  <2> QED
    BY <2>1, <2>4
<1>7. nx[batch] = IF k - 1 = 0 THEN NoTask ELSE v[1]
  <2>1. nx[w[1]] = IF 1 = k \/ 1 = Len(w) THEN NoTask ELSE w[1 + 1]
    BY <1>2, <1>4
  <2>2. k # 1 => 1 \in 1 .. Len(w) - 1 /\ 1 # Len(w)
    BY <1>1
  <2>3. k # 1 => v[1] = w[1 + 1]
    BY <1>3, <2>2
  <2>4. k - 1 = 0 <=> k = 1
    BY <1>1
  <2> QED
    BY <1>1, <2>1, <2>2, <2>3, <2>4
<1>8. first = IF k - 1 = Len(v) THEN NoTask ELSE v[k - 1 + 1]
  <2>1. k - 1 = Len(v) <=> k = Len(w)
    BY <1>1, <1>3
  <2>2. k # Len(w) => k \in 1 .. Len(w) - 1 /\ k - 1 + 1 = k
    BY <1>1
  <2>3. k # Len(w) => v[k - 1 + 1] = w[k + 1]
    BY <1>3, <2>2
  <2> QED
    BY <1>1, <2>1, <2>3
<1>9. ASSUME NEW i \in 1 .. Len(v)
      PROVE  n[v[i]] = IF i = k - 1 \/ i = Len(v) THEN NoTask ELSE v[i + 1]
  <2>1. i \in 1 .. Len(w) - 1
    BY <1>3
  <2>2. /\ i + 1 \in 1 .. Len(w) /\ i + 1 # 1
        /\ (i + 1 = k <=> i = k - 1) /\ (i + 1 = Len(w) <=> i = Len(w) - 1)
        /\ (i # Len(w) - 1 => i + 1 \in 1 .. Len(w) - 1)
    BY <1>1, <2>1
  <2>3. v[i] = w[i + 1] /\ w[i + 1] \in Task
    BY <1>1, <1>3, <2>1, <2>2
  <2>4. w[i + 1] # w[1]
    BY <1>2, <1>4, <2>2 DEF Distinct
  <2>5. n[v[i]] = nx[w[i + 1]]
    BY <1>1, <1>5, <2>3, <2>4
  <2>6. nx[w[i + 1]] = IF i + 1 = k \/ i + 1 = Len(w) THEN NoTask ELSE w[i + 1 + 1]
    BY <1>4, <2>2
  <2>7. i # Len(w) - 1 => v[i + 1] = w[i + 1 + 1]
    BY <1>3, <2>2
  <2> QED
    BY <1>3, <2>2, <2>5, <2>6, <2>7
<1>10. ASSUME NEW t \in Task, \A i \in 1 .. Len(v) : v[i] # t PROVE n[t] = NoTask
  <2>1. CASE t = batch
    BY <1>5, <2>1
  <2>2. CASE t # batch
    <3>1. ASSUME NEW i \in 1 .. Len(w) PROVE w[i] # t
      <4>1. CASE i = 1
        BY <1>1, <2>2, <4>1
      <4>2. CASE i # 1
        <5>1. i - 1 \in 1 .. Len(w) - 1 /\ i - 1 + 1 = i
          BY <1>1, <4>2
        <5>2. v[i - 1] = w[i] /\ v[i - 1] # t
          BY <1>3, <1>10, <5>1
        <5> QED
          BY <5>2
      <4> QED
        BY <4>1, <4>2
    <3> QED
      BY <1>4, <1>5, <2>2, <3>1
  <2> QED
    BY <2>1, <2>2
<1>11. k - 1 \in 0 .. Len(v)
  BY <1>1, <1>3
<1>12. Queued(n, nx[batch], first, v, k - 1)
  BY <1>3, <1>6, <1>7, <1>8, <1>9, <1>10, <1>11 DEF Queued
<1> QED
  BY <1>2, <1>12 DEF n, v

(* os_schedule_task appends a task that is in no list.                     *)
LEMMA Appended ==
  ASSUME NEW nx \in [Task -> MaybeTask], NEW batch, NEW first, NEW w, NEW k,
         Queued(nx, batch, first, w, k), NEW t \in Task, \A i \in 1 .. Len(w) : w[i] # t
  PROVE  /\ first = NoTask => Queued(nx, batch, t, Append(w, t), k)
         /\ first # NoTask =>
              LET c == ChainIn(nx, first)
              IN  Queued([nx EXCEPT ![c[Len(c)]] = t], batch, first, Append(w, t), k)
<1> DEFINE v == Append(w, t)
           N == Len(w)
<1>1. /\ w \in Seq(Task) /\ N \in Nat /\ k \in Nat /\ k <= N
      /\ \A i \in 1 .. N : w[i] \in Task /\ w[i] # NoTask
      /\ (batch = NoTask <=> k = 0) /\ (k # 0 => batch = w[1])
      /\ (first = NoTask <=> k = N) /\ (k # N => first = w[k + 1])
      /\ NoTask \notin Task
  BY QueueFacts, TaskQueueAssumption DEF TaskQueueAssumption
<1>2. /\ v \in Seq(Task) /\ Len(v) = N + 1
      /\ \A i \in 1 .. N : v[i] = w[i]
      /\ v[N + 1] = t
  BY <1>1, AppendProperties
<1>3. /\ Distinct(w)
      /\ \A i \in 1 .. N : nx[w[i]] = IF i = k \/ i = N THEN NoTask ELSE w[i + 1]
      /\ \A x \in Task : (\A i \in 1 .. N : w[i] # x) => nx[x] = NoTask
  BY DEF Queued
<1>4. nx[t] = NoTask
  BY <1>3
<1> HIDE DEF v
<1>5. Distinct(v)
  <2> SUFFICES ASSUME NEW i \in 1 .. N + 1, NEW j \in 1 .. N + 1, v[i] = v[j] PROVE i = j
    BY <1>2 DEF Distinct
  <2>1. CASE i \in 1 .. N /\ j \in 1 .. N
    BY <1>2, <1>3, <2>1 DEF Distinct
  <2>2. CASE i = N + 1 /\ j \in 1 .. N
    BY <1>2, <2>2
  <2>3. CASE i \in 1 .. N /\ j = N + 1
    BY <1>2, <2>3
  <2>4. CASE i = N + 1 /\ j = N + 1
    BY <2>4
  <2>5. (i \in 1 .. N \/ i = N + 1) /\ (j \in 1 .. N \/ j = N + 1)
    BY <1>1
  <2> QED
    BY <2>1, <2>2, <2>3, <2>4, <2>5
<1>6. /\ k \in 0 .. Len(v)
      /\ batch = IF k = 0 THEN NoTask ELSE v[1]
  <2>1. k # 0 => 1 \in 1 .. N
    BY <1>1
  <2> QED
    BY <1>1, <1>2, <2>1
<1>7. CASE first = NoTask
  <2>1. k = N
    BY <1>1, <1>7
  <2>2. t = IF k = Len(v) THEN NoTask ELSE v[k + 1]
    BY <1>1, <1>2, <2>1
  <2>3. ASSUME NEW i \in 1 .. Len(v)
        PROVE  nx[v[i]] = IF i = k \/ i = Len(v) THEN NoTask ELSE v[i + 1]
    <3>1. CASE i = N + 1
      BY <1>2, <1>4, <3>1
    <3>2. CASE i # N + 1
      <4>1. i \in 1 .. N /\ (i # N => i + 1 \in 1 .. N)
        BY <1>1, <1>2, <3>2
      <4>2. nx[w[i]] = IF i = N THEN NoTask ELSE w[i + 1]
        BY <1>3, <2>1, <4>1
      <4> QED
        BY <1>2, <2>1, <3>2, <4>1, <4>2
    <3> QED
      BY <3>1, <3>2
  <2>4. ASSUME NEW x \in Task, \A i \in 1 .. Len(v) : v[i] # x PROVE nx[x] = NoTask
    <3>1. \A i \in 1 .. N : i \in 1 .. Len(v)
      BY <1>1, <1>2
    <3>2. \A i \in 1 .. N : w[i] # x
      BY <1>2, <2>4, <3>1
    <3> QED
      BY <1>3, <3>2
  <2>5. Queued(nx, batch, t, v, k)
    BY <1>2, <1>5, <1>6, <2>2, <2>3, <2>4 DEF Queued
  <2> QED
    BY <1>7, <2>5 DEF v
<1>8. CASE first # NoTask
  <2> DEFINE c == ChainIn(nx, first)
             n == [nx EXCEPT ![w[N]] = t]
  <2>1. k # N /\ N \in 1 .. N /\ k + 1 \in 1 .. N
    BY <1>1, <1>8
  <2>2. c[Len(c)] = w[N]
    <3>1. c = SubSeq(w, k + 1, N)
      BY ChainsAre
    <3>2. \A i \in k + 1 .. N : w[i] \in Task
      BY <1>1
    <3>3. /\ Len(SubSeq(w, k + 1, N)) = IF k + 1 <= N THEN N - (k + 1) + 1 ELSE 0
          /\ \A i \in 1 .. N - (k + 1) + 1 : SubSeq(w, k + 1, N)[i] = w[k + 1 + i - 1]
      BY <1>1, <3>2, SubSeqProperties
    <3> HIDE DEF c
    <3>4. /\ k + 1 <= N /\ N - (k + 1) + 1 \in 1 .. N - (k + 1) + 1
          /\ k + 1 + (N - (k + 1) + 1) - 1 = N
      BY <1>1, <2>1
    <3>5. SubSeq(w, k + 1, N)[N - (k + 1) + 1] = w[k + 1 + (N - (k + 1) + 1) - 1]
      BY <3>3, <3>4
    <3> QED
      BY <3>1, <3>3, <3>4, <3>5
  <2> HIDE DEF c
  <2>3. n[w[N]] = t /\ \A x \in Task : x # w[N] => n[x] = nx[x]
    BY <1>1, <2>1
  <2>4. first = IF k = Len(v) THEN NoTask ELSE v[k + 1]
    BY <1>1, <1>2, <2>1
  <2> HIDE DEF n
  <2>5. ASSUME NEW i \in 1 .. Len(v)
        PROVE  n[v[i]] = IF i = k \/ i = Len(v) THEN NoTask ELSE v[i + 1]
    <3>1. CASE i = N + 1
      <4>1. t # w[N]
        BY <2>1
      <4> QED
        BY <1>2, <1>4, <2>3, <3>1, <4>1
    <3>2. CASE i = N
      <4>1. i # k /\ i # Len(v) /\ i \in 1 .. N
        BY <1>1, <1>2, <2>1, <3>2
      <4> QED
        BY <1>2, <2>3, <3>2, <4>1
    <3>3. CASE i # N + 1 /\ i # N
      <4>1. i \in 1 .. N /\ i + 1 \in 1 .. N
        BY <1>1, <1>2, <3>3
      <4>2. w[i] # w[N]
        BY <1>3, <2>1, <3>3, <4>1 DEF Distinct
      <4>3. n[w[i]] = nx[w[i]]
        BY <1>1, <2>3, <4>1, <4>2
      <4>4. nx[w[i]] = IF i = k THEN NoTask ELSE w[i + 1]
        BY <1>3, <3>3, <4>1
      <4> QED
        BY <1>2, <3>3, <4>1, <4>3, <4>4
    <3> QED
      BY <3>1, <3>2, <3>3
  <2>6. ASSUME NEW x \in Task, \A i \in 1 .. Len(v) : v[i] # x PROVE n[x] = NoTask
    <3>1. \A i \in 1 .. N : i \in 1 .. Len(v)
      BY <1>1, <1>2
    <3>2. \A i \in 1 .. N : w[i] # x
      BY <1>2, <2>6, <3>1
    <3>3. nx[x] = NoTask /\ x # w[N]
      BY <1>3, <2>1, <3>2
    <3> QED
      BY <2>3, <3>3
  <2>7. Queued(n, batch, first, v, k)
    BY <1>2, <1>5, <1>6, <2>4, <2>5, <2>6 DEF Queued
  <2> QED
    BY <1>8, <2>2, <2>7 DEF c, n, v
<1> QED
  BY <1>7, <1>8

-----------------------------------------------------------------------------
(* The three things a step does to the queue: nothing, a task is taken     *)
(* from its front, a task that is not in it is appended.                   *)
Move(w, v) ==
  \/ v = w
  \/ w # <<>> /\ v = Tail(w)
  \/ \E t \in Task : (\A i \in 1 .. Len(w) : w[i] # t) /\ v = Append(w, t)

Stands(w) == \E k : Queued(next, Batch, head, w, k)

(* What is in no list is not in the queue.                                 *)
LEMMA NotLinked ==
  ASSUME Holder, NEW w, Stands(w), NEW t \in Task \ Linked
  PROVE  \A i \in 1 .. Len(w) : w[i] # t
<1>1. PICK k : Queued(next, Batch, head, w, k)
  BY DEF Stands
<1>2. /\ Len(w) \in Nat /\ k \in Nat /\ k <= Len(w)
      /\ Batch = NoTask <=> k = 0
  BY <1>1, QueueFacts
<1>3. /\ DOMAIN Chain(Batch) = 1 .. k
      /\ \A i \in 1 .. k : Chain(Batch)[i] = w[i]
      /\ DOMAIN Chain(head) = 1 .. Len(w) - k
      /\ \A i \in 1 .. Len(w) - k : Chain(head)[i] = w[k + i]
  BY <1>1, ChainsAre, ChainNow
<1>4. SUFFICES ASSUME NEW i \in 1 .. Len(w), w[i] = t PROVE FALSE
  OBVIOUS
<1>5. CASE i \in 1 .. k
  <2>1. lock \in Drainer /\ Batch = todo[lock]
    BY <1>2, <1>5 DEF Batch
  <2>2. t \in Elems(Chain(Batch))
    BY <1>3, <1>4, <1>5 DEF Elems
  <2> QED
    BY <2>1, <2>2 DEF Linked
<1>6. CASE i \notin 1 .. k
  <2>1. i - k \in 1 .. Len(w) - k /\ k + (i - k) = i
    BY <1>2, <1>6
  <2>2. Chain(head)[i - k] = t
    BY <1>3, <1>4, <2>1
  <2>3. t \in Elems(Chain(head))
    BY <1>3, <2>1, <2>2 DEF Elems
  <2> QED
    BY <2>3 DEF Linked
<1> QED
  BY <1>5, <1>6

(* Every step keeps the queue but for such a move.                         *)
LEMMA QueueKept ==
  ASSUME TypeOK, Holder, [Next]_vars, NEW w, Stands(w)
  PROVE  \E v : Stands(v)' /\ Move(w, v)
<1> USE TaskQueueAssumption DEF TaskQueueAssumption, Thread, Drainer
<1>0. PICK k : Queued(next, Batch, head, w, k)
  BY DEF Stands
<1>1. SUFFICES \E v, j : Queued(next', Batch', head', v, j) /\ Move(w, v)
  BY DEF Stands
<1>2. Move(w, w)
  BY DEF Move
<1>3. ASSUME next' = next, Batch' = Batch, head' = head
      PROVE  \E v, j : Queued(next', Batch', head', v, j) /\ Move(w, v)
  BY <1>0, <1>2, <1>3
<1>4. ASSUME next' = next, Batch = NoTask, Batch' = head, head' = NoTask
      PROVE  \E v, j : Queued(next', Batch', head', v, j) /\ Move(w, v)
  <2>1. Queued(next, head, NoTask, w, Len(w))
    BY <1>0, <1>4, Detached
  <2> QED
    BY <1>2, <1>4, <2>1
<1>5. next \in [Task -> MaybeTask] /\ todo \in [Drainer -> MaybeTask]
  BY DEF TypeOK
<1>6. ASSUME NEW th \in Thread, Enter(th) PROVE Batch' = Batch
  <2>1. lock = NoThread /\ lock' = th /\ todo' = todo
    BY <1>6 DEF Enter, Acquire
  <2>2. th \in Drainer => todo[th] = NoTask
    BY <2>1 DEF Holder
  <2> QED
    BY <2>1, <2>2 DEF Batch
<1>7. ASSUME NEW th \in Thread, QueueCommand(th) \/ (th = Worker /\ DoTasks) \/ IoctlDoTasks(th)
      PROVE  next' = next /\ Batch = NoTask /\ Batch' = head /\ head' = NoTask
  <2>1. next' = next /\ head' = NoTask /\ todo' = [todo EXCEPT ![th] = head] /\ th \in Drainer
    BY <1>7 DEF QueueCommand, DoTasks, IoctlDoTasks, Detach
  <2>2. lock' = th
    BY <1>7 DEF QueueCommand, DoTasks, IoctlDoTasks, Acquire, Holder
  <2>3. lock = NoThread \/ (lock = th /\ pc[th] = "ldm")
    BY <1>7 DEF QueueCommand, DoTasks, IoctlDoTasks, Acquire, Holder
  <2>4. Batch = NoTask
    BY <2>1, <2>3 DEF Batch, Holder
  <2>5. Batch' = head
    BY <1>5, <2>1, <2>2 DEF Batch
  <2> QED
    BY <2>1, <2>4, <2>5
<1>8. ASSUME NEW th \in Thread, RunTask(th)
      PROVE  \E v, j : Queued(next', Batch', head', v, j) /\ Move(w, v)
  <2>1. /\ th \in Drainer /\ todo[th] # NoTask /\ lock' = lock /\ head' = head
        /\ todo' = [todo EXCEPT ![th] = next[todo[th]]]
        /\ next' = [next EXCEPT ![todo[th]] = NoTask]
    BY <1>8 DEF RunTask
  <2>2. lock = th
    BY <1>8 DEF RunTask, Holder
  <2>3. Batch = todo[th] /\ Batch' = next[Batch]
    BY <1>5, <2>1, <2>2 DEF Batch
  <2>4. /\ w # <<>>
        /\ Queued([next EXCEPT ![Batch] = NoTask], next[Batch], head, Tail(w), k - 1)
    BY <1>0, <1>5, <2>1, <2>3, Popped
  <2> QED
    BY <2>1, <2>3, <2>4 DEF Move
<1>9. ASSUME NEW th \in Thread, NEW t \in Task, ScheduleTask(th, t)
      PROVE  \E v, j : Queued(next', Batch', head', v, j) /\ Move(w, v)
  <2>1. lock' = lock /\ todo' = todo /\ t \notin Linked
    BY <1>9 DEF ScheduleTask
  <2>2. Batch' = Batch
    BY <2>1 DEF Batch
  <2>3. \A i \in 1 .. Len(w) : w[i] # t
    BY <1>0, <2>1, NotLinked DEF Stands
  <2>4. Move(w, Append(w, t))
    BY <2>3 DEF Move
  <2>5. CASE head = NoTask
    <3>1. head' = t /\ next' = next
      BY <1>9, <2>5 DEF ScheduleTask
    <3>2. Queued(next, Batch, t, Append(w, t), k)
      BY <1>0, <1>5, <2>3, <2>5, Appended
    <3> QED
      BY <2>2, <2>4, <3>1, <3>2
  <2>6. CASE head # NoTask
    <3> DEFINE c == ChainIn(next, head)
    <3>1. head' = head /\ next' = [next EXCEPT ![c[Len(c)]] = t]
      BY <1>9, <2>6, ChainNow DEF ScheduleTask
    <3>2. Queued([next EXCEPT ![c[Len(c)]] = t], Batch, head, Append(w, t), k)
      BY <1>0, <1>5, <2>3, <2>6, Appended
    <3> QED
      BY <2>2, <2>4, <3>1, <3>2
  <2> QED
    BY <2>5, <2>6
<1>10. ASSUME NEW th \in Thread, Leave(th) PROVE Batch' = Batch
  <2>1. lock = th /\ lock' = NoThread
    BY <1>10 DEF Leave, Holder
  <2>2. th \in Drainer => todo[th] = NoTask
    BY <1>10 DEF Leave, Holder
  <2> QED
    BY <2>1, <2>2 DEF Batch
<1>11. ASSUME lock' = lock, todo' = todo PROVE Batch' = Batch
  BY <1>11 DEF Batch
<1>12. ASSUME NEW th \in Thread, TaskReturn(th) \/ DrainDone(th)
       PROVE  next' = next /\ head' = head /\ lock' = lock /\ todo' = todo
  BY <1>12 DEF TaskReturn, DrainDone
<1>13. ASSUME NEW th \in Thread, Enter(th) \/ Leave(th) PROVE next' = next /\ head' = head
  BY <1>13 DEF Enter, Leave
<1>14. ASSUME KickWorker \/ TaskletAction \/ MainStep \/ UNCHANGED vars
       PROVE  next' = next /\ head' = head /\ lock' = lock /\ todo' = todo
  BY <1>14 DEF KickWorker, TaskletAction, MainStep, TaskletInit, CheckTasks, CheckTasksEarly,
               StoreVisible, KillTakeSched, KillWaitRun, DisableWorker, vars
<1> QED
  BY <1>3, <1>4, <1>6, <1>7, <1>8, <1>9, <1>10, <1>11, <1>12, <1>13, <1>14
     DEF Next, ThreadStep

(* The invariant of the lists: they are the two parts of one queue.        *)
ListInv == Holder /\ \E w : Stands(w)

(* So list and batch are at all times the two parts of one queue.          *)
LEMMA QueueStands == Spec => []ListInv
<1>1. Init => ListInv
  <2> SUFFICES ASSUME Init PROVE ListInv
    OBVIOUS
  <2>1. Holder
    BY TaskQueueAssumption DEF TaskQueueAssumption, Init, Holder, Thread, Drainer
  <2>2. Batch = NoTask /\ head = NoTask /\ \A t \in Task : next[t] = NoTask
    BY DEF Init, Batch
  <2>3. Queued(next, Batch, head, <<>>, 0)
    BY <2>2, EmptySeq DEF Queued, Distinct
  <2> QED
    BY <2>1, <2>3 DEF ListInv, Stands
<1>2. TypeOK /\ ListInv /\ [Next]_vars => ListInv'
  BY HolderKept, QueueKept DEF ListInv
<1> QED
  BY <1>1, <1>2, TypeCorrect, PTL DEF Spec

(* Two lists in a row are a pair.                                          *)
LEMMA TwoParts == ASSUME NEW a, NEW b PROVE <<a>> \o <<b>> = <<a, b>>
<1> DEFINE S == {a, b}
<1>1. <<a>> \in Seq(S) /\ <<b>> \in Seq(S)
  OBVIOUS
<1>2. Len(<<a>>) = 1 /\ Len(<<b>>) = 1
  OBVIOUS
<1>3. /\ <<a>> \o <<b>> \in Seq(S) /\ Len(<<a>> \o <<b>>) = 2
      /\ \A i \in 1 .. 2 : (<<a>> \o <<b>>)[i] = IF i <= 1 THEN <<a>>[i] ELSE <<b>>[i - 1]
  BY <1>1, <1>2, ConcatProperties
<1>4. <<a, b>> \in Seq(S) /\ Len(<<a, b>>) = 2
  OBVIOUS
<1>5. (<<a>> \o <<b>>)[1] = a /\ (<<a>> \o <<b>>)[2] = b
  <2>1. (<<a>> \o <<b>>)[1] = <<a>>[1]
    BY <1>3
  <2>2. (<<a>> \o <<b>>)[2] = <<b>>[2 - 1]
    BY <1>3
  <2>3. <<b>>[2 - 1] = b
    OBVIOUS
  <2> QED
    BY <2>1, <2>2, <2>3
<1>6. <<a, b>>[1] = a /\ <<a, b>>[2] = b
  OBVIOUS
<1> DEFINE s == <<a>> \o <<b>>
           t == <<a, b>>
<1> HIDE DEF S, s, t
<1>7. /\ s \in Seq(S) /\ t \in Seq(S) /\ Len(s) = 2 /\ Len(t) = 2
      /\ s[1] = t[1] /\ s[2] = t[2]
  BY <1>3, <1>4, <1>5, <1>6 DEF s, t
<1>8. \A i \in 1 .. Len(s) : s[i] = t[i]
  <2>1. \A i \in 1 .. 2 : i = 1 \/ i = 2
    OBVIOUS
  <2> QED
    BY <1>7, <2>1
<1>9. s = t
  BY <1>7, <1>8, SeqEqual
<1> QED
  BY <1>9 DEF s, t

(* No task is linked twice and a task in no list has a null next pointer,  *)
(* for any tasks, drainers and schedulers: so the append loop ends and a   *)
(* task that is being run can be scheduled again.                          *)
THEOREM TasksAreListed == Spec => []ListsWellFormed
<1>1. ListInv => ListsWellFormed
  <2> SUFFICES ASSUME ListInv PROVE ListsWellFormed
    OBVIOUS
  <2>1. PICK w : Stands(w)
    BY DEF ListInv
  <2>2. PICK k : Queued(next, Batch, head, w, k)
    BY <2>1 DEF Stands
  <2>3. /\ Len(w) \in Nat /\ k \in Nat /\ k <= Len(w)
        /\ Batch = NoTask <=> k = 0
    BY <2>2, QueueFacts
  <2>4. /\ DOMAIN Chain(Batch) = 1 .. k
        /\ \A i \in 1 .. k : Chain(Batch)[i] = w[i]
        /\ DOMAIN Chain(head) = 1 .. Len(w) - k
        /\ \A i \in 1 .. Len(w) - k : Chain(head)[i] = w[k + i]
    BY <2>2, ChainsAre, ChainNow
  <2>5. \A i, j \in 1 .. Len(w) : w[i] = w[j] => i = j
    BY <2>2 DEF Queued, Distinct
  <2>6. ASSUME NEW m \in DOMAIN Chain(Batch), NEW n \in DOMAIN Chain(Batch),
               Chain(Batch)[m] = Chain(Batch)[n]
        PROVE  m = n
    <3>1. m \in 1 .. k /\ n \in 1 .. k /\ m \in 1 .. Len(w) /\ n \in 1 .. Len(w)
      BY <2>3, <2>4
    <3> QED
      BY <2>4, <2>5, <2>6, <3>1
  <2>7. ASSUME NEW m \in DOMAIN Chain(head), NEW n \in DOMAIN Chain(head),
               Chain(head)[m] = Chain(head)[n]
        PROVE  m = n
    <3>1. /\ m \in 1 .. Len(w) - k /\ n \in 1 .. Len(w) - k
      BY <2>4
    <3>2. k + m \in 1 .. Len(w) /\ k + n \in 1 .. Len(w) /\ (k + m = k + n => m = n)
      BY <2>3, <3>1
    <3>3. w[k + m] = w[k + n]
      BY <2>4, <2>7, <3>1
    <3> QED
      BY <2>5, <3>2, <3>3
  <2>8. ASSUME NEW m \in DOMAIN Chain(head), NEW n \in DOMAIN Chain(Batch)
        PROVE  Chain(head)[m] # Chain(Batch)[n]
    <3>1. /\ m \in 1 .. Len(w) - k /\ n \in 1 .. k
      BY <2>4
    <3>2. k + m \in 1 .. Len(w) /\ n \in 1 .. Len(w) /\ k + m # n
      BY <2>3, <3>1
    <3>3. w[k + m] # w[n]
      BY <2>5, <3>2
    <3> QED
      BY <2>4, <3>1, <3>3
  <2>9. ASSUME NEW t \in Task \ Linked PROVE next[t] = NoTask
    <3>1. \A i \in 1 .. Len(w) : w[i] # t
      BY <2>1, NotLinked DEF ListInv
    <3> QED
      BY <2>2, <3>1 DEF Queued
  <2>10. \A d \in Drainer : d # lock => todo[d] = NoTask
    BY DEF ListInv, Holder
  <2> DEFINE chains == <<Chain(head)>> \o
                       (IF lock \in Drainer THEN <<Chain(todo[lock])>> ELSE <<>>)
  <2>11. ASSUME NEW i \in DOMAIN chains, NEW j \in DOMAIN chains,
                NEW m \in DOMAIN chains[i], NEW n \in DOMAIN chains[j],
                chains[i][m] = chains[j][n]
         PROVE  i = j /\ m = n
    <3>1. CASE lock \in Drainer
      <4>1. chains = <<Chain(head), Chain(Batch)>>
        BY <3>1, TwoParts DEF Batch
      <4> HIDE DEF chains
      <4>2. i \in {1, 2} /\ j \in {1, 2} /\ chains[1] = Chain(head) /\ chains[2] = Chain(Batch)
        BY <4>1
      <4>3. CASE i = 1 /\ j = 1
        BY <2>7, <2>11, <4>2, <4>3
      <4>4. CASE i = 2 /\ j = 2
        BY <2>6, <2>11, <4>2, <4>4
      <4>5. CASE i = 1 /\ j = 2
        BY <2>8, <2>11, <4>2, <4>5
      <4>6. CASE i = 2 /\ j = 1
        BY <2>8, <2>11, <4>2, <4>6
      <4> QED
        BY <4>2, <4>3, <4>4, <4>5, <4>6
    <3>2. CASE lock \notin Drainer
      <4>1. chains = <<Chain(head)>>
        BY <3>2
      <4> HIDE DEF chains
      <4>2. i = 1 /\ j = 1 /\ chains[1] = Chain(head)
        BY <4>1
      <4> QED
        BY <2>7, <2>11, <4>2
    <3> QED
      BY <3>1, <3>2
  <2> HIDE DEF chains
  <2>12. \A i, j \in DOMAIN chains : \A m \in DOMAIN chains[i], n \in DOMAIN chains[j] :
            chains[i][m] = chains[j][n] => i = j /\ m = n
    BY <2>11
  <2> QED
    BY <2>9, <2>10, <2>12 DEF ListsWellFormed, chains
<1> QED
  BY <1>1, QueueStands, PTL

(* The two lists are one queue that tasks enter at the end and leave at    *)
(* the front to be run: exactly once each, in the order they came in.      *)
THEOREM Implementation == Spec => ImplementsFifo
<1>1. ASSUME NEW w, Stands(w) PROVE Queue = w
  <2>1. PICK k : Queued(next, Batch, head, w, k)
    BY <1>1 DEF Stands
  <2>2. Queue = ChainIn(next, Batch) \o ChainIn(next, head)
    BY ChainNow DEF Queue, Batch
  <2> QED
    BY <2>1, <2>2, ChainsAre
<1>2. ASSUME NEW w, Stands(w)' PROVE Queue' = w
  <2>1. PICK k : Queued(next', Batch', head', w, k)
    BY <1>2 DEF Stands
  <2>2. Queue' = ChainIn(next', Batch') \o ChainIn(next', head')
    BY ChainNow DEF Queue, Batch
  <2> QED
    BY <2>1, <2>2, ChainsAre
<1>3. Init => Abstract!Init
  <2> SUFFICES ASSUME Init PROVE Queue = <<>>
    BY DEF Abstract!Init
  <2>1. Batch = NoTask /\ head = NoTask /\ \A t \in Task : next[t] = NoTask
    BY TaskQueueAssumption DEF TaskQueueAssumption, Init, Batch
  <2>2. Queued(next, Batch, head, <<>>, 0)
    BY <2>1, EmptySeq DEF Queued, Distinct
  <2> QED
    BY <1>1, <2>2 DEF Stands
<1>4. TypeOK /\ ListInv /\ [Next]_vars => [Abstract!Next]_Queue
  <2> SUFFICES ASSUME TypeOK, ListInv, [Next]_vars PROVE Abstract!Next \/ Queue' = Queue
    OBVIOUS
  <2>1. PICK w : Stands(w)
    BY DEF ListInv
  <2>2. PICK v : Stands(v)' /\ Move(w, v)
    BY <2>1, QueueKept DEF ListInv
  <2>3. Queue = w /\ Queue' = v
    BY <1>1, <1>2, <2>1, <2>2
  <2>4. DOMAIN w = 1 .. Len(w)
    BY <2>1, QueueFacts, LenProperties DEF Stands
  <2> QED
    BY <2>2, <2>3, <2>4 DEF Move, Abstract!Next, Abstract!Run, Abstract!Submit
<1> QED
  BY <1>3, <1>4, TypeCorrect, QueueStands, PTL DEF Spec, ImplementsFifo, Abstract!Spec
=============================================================================
