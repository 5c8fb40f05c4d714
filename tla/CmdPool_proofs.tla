--------------------------- MODULE CmdPool_proofs ---------------------------
(***************************************************************************)
(* Proofs about CmdPool, for any list, any requests and any sizes.  The    *)
(* argument is a balance: the list holds one block for every command that  *)
(* can still be allocated and for every one that is reserved and not taken.*)
(* Reserved commands are counted as a set of tickets, pairs of a request   *)
(* and a number, so that no sum over the requests is needed.               *)
(***************************************************************************)
EXTENDS CmdPool, FiniteSetTheorems, TLAPS

(* The tickets above lo and up to hi of every request.                     *)
Between(lo, hi) ==
  {p \in Group \X (1 .. MaxPerRequest) : lo[p[1]] < p[2] /\ p[2] <= hi[p[1]]}

Taken == [g \in Group |-> Cardinality(held[g])]
Nothing == [g \in Group |-> 0]

Balanced ==
  /\ count + Cardinality(Between(Nothing, grpcnt)) = Reserved
  /\ Cardinality(list) = count + Cardinality(Between(Taken, grpcnt))

PoolInv ==
  /\ TypeOK
  /\ OneOwner
  /\ \A g \in Group : Taken[g] <= grpcnt[g]
  /\ phase = "filling" => /\ count = Reserved /\ Cardinality(list) = filled
                          /\ \A g \in Group : grpcnt[g] = 0
  /\ phase = "in_service" => Balanced
  /\ QuietFreeLeaksNothing

(* There are finitely many tickets.                                        *)
LEMMA TicketsFinite == IsFiniteSet(Group \X (1 .. MaxPerRequest))
<1> USE CmdPoolAssumption DEF CmdPoolAssumption
<1>1. 1 \in Int /\ MaxPerRequest \in Int
  OBVIOUS
<1>2. IsFiniteSet(1 .. MaxPerRequest)
  BY <1>1, FS_Interval, Zenon
<1> QED
  BY <1>2, FS_Product, Zenon

(* The tickets of one request make up hi[g] - lo[g] of all, the others do  *)
(* not depend on lo[g] and hi[g].                                          *)
LEMMA OneRequest ==
  ASSUME NEW g \in Group,
         NEW lo \in [Group -> 0 .. MaxPerRequest], NEW hi \in [Group -> 0 .. MaxPerRequest],
         NEW lo2 \in [Group -> 0 .. MaxPerRequest], NEW hi2 \in [Group -> 0 .. MaxPerRequest],
         lo[g] <= hi[g], lo2[g] <= hi2[g],
         \A k \in Group : k # g => lo2[k] = lo[k] /\ hi2[k] = hi[k]
  PROVE  /\ Cardinality(Between(lo, hi)) \in Nat
         /\ Cardinality(Between(lo2, hi2)) \in Nat
         /\ Cardinality(Between(lo2, hi2)) + (hi[g] - lo[g])
              = Cardinality(Between(lo, hi)) + (hi2[g] - lo2[g])
<1> USE CmdPoolAssumption DEF CmdPoolAssumption
<1> DEFINE Rest == {p \in Group \X (1 .. MaxPerRequest) :
                      /\ p[1] # g /\ lo[p[1]] < p[2] /\ p[2] <= hi[p[1]]}
           Own(l, h) == {g} \X (l + 1 .. h)
<1>1. IsFiniteSet(Group \X (1 .. MaxPerRequest))
  BY TicketsFinite
<1>2. IsFiniteSet(Rest)
  BY <1>1, FS_Subset
<1>3. ASSUME NEW l \in 0 .. MaxPerRequest, NEW h \in 0 .. MaxPerRequest, l <= h
      PROVE  IsFiniteSet(Own(l, h)) /\ Cardinality(Own(l, h)) = h - l
  <2>0. l + 1 \in Int /\ h \in Int
    OBVIOUS
  <2>1. /\ IsFiniteSet((l + 1) .. h)
        /\ Cardinality((l + 1) .. h) = IF l + 1 > h THEN 0 ELSE h - (l + 1) + 1
    BY <2>0, FS_Interval, Zenon
  <2>2. IsFiniteSet((l + 1) .. h) /\ Cardinality((l + 1) .. h) = h - l
    <3> DEFINE n == Cardinality((l + 1) .. h)
    <3>1. n = IF l + 1 > h THEN 0 ELSE h - (l + 1) + 1
      BY <2>1
    <3> HIDE DEF n
    <3>2. n = h - l
      BY <1>3, <3>1
    <3> QED
      BY <2>1, <3>2 DEF n
  <2>3. IsFiniteSet({g}) /\ Cardinality({g}) = 1
    BY FS_Singleton
  <2>4. IsFiniteSet(Own(l, h)) /\ Cardinality(Own(l, h)) = 1 * (h - l)
    <3>1. /\ IsFiniteSet({g} \X ((l + 1) .. h))
          /\ Cardinality({g} \X ((l + 1) .. h)) = Cardinality({g}) * Cardinality((l + 1) .. h)
      BY <2>2, <2>3, FS_Product, Zenon
    <3> QED
      BY <2>2, <2>3, <3>1
  <2> QED
    BY <1>3, <2>4
<1>4. ASSUME NEW l \in 0 .. MaxPerRequest, NEW h \in 0 .. MaxPerRequest, l <= h
      PROVE  /\ IsFiniteSet(Rest \cup Own(l, h))
             /\ Cardinality(Rest \cup Own(l, h)) = Cardinality(Rest) + (h - l)
  <2>1. Rest \cap Own(l, h) = {}
    OBVIOUS
  <2>2. Cardinality(Rest \cap Own(l, h)) = 0
    BY <2>1, FS_EmptySet
  <2>3. /\ IsFiniteSet(Rest \cup Own(l, h))
        /\ Cardinality(Rest \cup Own(l, h)) =
             Cardinality(Rest) + Cardinality(Own(l, h)) - Cardinality(Rest \cap Own(l, h))
    <3>1. IsFiniteSet(Own(l, h))
      BY <1>3, <1>4
    <3> HIDE DEF Rest, Own
    <3> QED
      BY <1>2, <3>1, FS_Union, Zenon
  <2>4. Cardinality(Rest) \in Nat
    BY <1>2, FS_CardinalityType
  <2>5. Cardinality(Own(l, h)) = h - l
    BY <1>3, <1>4
  <2> HIDE DEF Rest, Own
  <2> QED
    BY <1>4, <2>2, <2>3, <2>4, <2>5
<1>5. Between(lo, hi) = Rest \cup Own(lo[g], hi[g])
  BY DEF Between
<1>6. Between(lo2, hi2) = Rest \cup Own(lo2[g], hi2[g])
  BY DEF Between
<1>7. Cardinality(Rest) \in Nat
  BY <1>2, FS_CardinalityType
<1>8. /\ lo[g] \in 0 .. MaxPerRequest /\ hi[g] \in 0 .. MaxPerRequest
      /\ lo2[g] \in 0 .. MaxPerRequest /\ hi2[g] \in 0 .. MaxPerRequest
  OBVIOUS
<1> HIDE DEF Rest, Own
<1>9. /\ Cardinality(Between(lo, hi)) = Cardinality(Rest) + (hi[g] - lo[g])
      /\ Cardinality(Between(lo2, hi2)) = Cardinality(Rest) + (hi2[g] - lo2[g])
  BY <1>4, <1>5, <1>6, <1>8
<1> QED
  BY <1>7, <1>8, <1>9

(* One block more.                                                         *)
LEMMA OneMore ==
  ASSUME NEW S, NEW x, IsFiniteSet(S), x \notin S
  PROVE  Cardinality(S \cup {x}) = Cardinality(S) + 1
  BY FS_AddElement

(* And one block less.                                                     *)
LEMMA OneLess ==
  ASSUME NEW S, NEW x, IsFiniteSet(S), x \in S
  PROVE  Cardinality(S \ {x}) = Cardinality(S) - 1
  BY FS_RemoveElement

(* Blocks and what is held are finite.                                     *)
LEMMA Finite ==
  ASSUME TypeOK
  PROVE  /\ IsFiniteSet(list) /\ Cardinality(list) \in Nat
         /\ \A g \in Group : IsFiniteSet(held[g]) /\ Cardinality(held[g]) \in Nat
         /\ Taken \in [Group -> Nat]
<1>1. IsFiniteSet(Block) /\ list \in SUBSET Block
      /\ \A g \in Group : held[g] \in SUBSET Block
  BY CmdPoolAssumption DEF CmdPoolAssumption, TypeOK
<1>2. IsFiniteSet(list) /\ \A g \in Group : IsFiniteSet(held[g])
  BY <1>1, FS_Subset
<1> QED
  BY <1>2, FS_CardinalityType DEF Taken

(* The invariant holds from the filling of the list to its release.        *)
LEMMA PoolInvariant == Spec => []PoolInv
<1> USE CmdPoolAssumption DEF CmdPoolAssumption
<1>1. Init => PoolInv
  <2> SUFFICES ASSUME Init PROVE PoolInv
    OBVIOUS
  <2>1. /\ phase = "filling" /\ count = Reserved /\ list = {} /\ filled = 0
        /\ held = [g \in Group |-> {}] /\ grpcnt = [g \in Group |-> 0]
    BY DEF Init
  <2>2. TypeOK /\ OneOwner /\ QuietFreeLeaksNothing
    BY <2>1 DEF TypeOK, OneOwner, QuietFreeLeaksNothing
  <2>3. \A g \in Group : Taken[g] <= grpcnt[g]
    BY <2>1, FS_EmptySet DEF Taken
  <2>4. Cardinality(list) = filled
    BY <2>1, FS_EmptySet
  <2> QED
    BY <2>1, <2>2, <2>3, <2>4 DEF PoolInv
<1>2. PoolInv /\ [Next]_vars => PoolInv'
  <2> SUFFICES ASSUME PoolInv, [Next]_vars PROVE PoolInv'
    OBVIOUS
  <2>0. /\ TypeOK /\ OneOwner /\ \A g \in Group : Taken[g] <= grpcnt[g]
        /\ IsFiniteSet(list) /\ Cardinality(list) \in Nat
    BY Finite DEF PoolInv
  <2>a. Taken \in [Group -> 0 .. MaxPerRequest] /\ grpcnt \in [Group -> 0 .. MaxPerRequest]
    BY <2>0, Finite DEF TypeOK, Taken
  <2>b. Nothing \in [Group -> 0 .. MaxPerRequest]
    BY DEF Nothing
  <2>1. CASE Fill
    <3>0. /\ phase = "filling" /\ filled < count
          /\ UNCHANGED <<count, held, grpcnt>>
      BY <2>1 DEF Fill
    <3>1. Taken' = Taken
      BY <3>0 DEF Taken
    <3>2. CASE phase' = "out_of_memory" /\ UNCHANGED <<list, filled>>
      BY <2>0, <3>0, <3>1, <3>2 DEF PoolInv, TypeOK, OneOwner, QuietFreeLeaksNothing
    <3>3. ASSUME NEW x \in Block \ list, list' = list \cup {x},
                 filled' = filled + 1, phase' = phase
          PROVE  PoolInv'
      <4>1. Cardinality(list') = filled'
        BY <2>0, <3>0, <3>3, FS_AddElement DEF PoolInv
      <4>2. \A g \in Group : held[g] = {}
        <5> SUFFICES ASSUME NEW g \in Group PROVE held[g] = {}
          OBVIOUS
        <5>1. Cardinality(held[g]) <= 0 /\ grpcnt[g] = 0
          BY <2>0, <3>0 DEF PoolInv, Taken
        <5> QED
          BY <2>0, <5>1, Finite, FS_EmptySet
      <4>3. TypeOK' /\ OneOwner'
        BY <2>0, <3>0, <3>3, <4>2 DEF PoolInv, TypeOK, OneOwner
      <4> QED
        BY <2>0, <3>0, <3>1, <3>3, <4>1, <4>3 DEF PoolInv, QuietFreeLeaksNothing
    <3> QED
      BY <2>1, <3>0, <3>2, <3>3 DEF Fill
  <2>2. CASE StartService
    <3>0. /\ phase = "filling" /\ filled = count /\ phase' = "in_service"
          /\ UNCHANGED <<count, list, held, grpcnt, filled>>
      BY <2>2 DEF StartService
    <3>1. Between(Nothing, grpcnt) = {} /\ Between(Taken, grpcnt) = {}
      BY <2>0, <2>a, <3>0 DEF PoolInv, Between, Nothing
    <3>2. Balanced
      BY <2>0, <3>0, <3>1, FS_EmptySet DEF PoolInv, Balanced, TypeOK
    <3>3. Balanced' /\ Taken' = Taken
      BY <3>0, <3>2 DEF Balanced, Taken, Nothing, Between
    <3> QED
      BY <2>0, <3>0, <3>3 DEF PoolInv, TypeOK, OneOwner, QuietFreeLeaksNothing
  <2>3. CASE FreeMem
    <3>0. /\ phase = "in_service" /\ phase' = "freed" /\ count' = 0
          /\ UNCHANGED <<held, grpcnt, filled>>
      BY <2>3 DEF FreeMem
    <3>1. PICK F \in SUBSET list : Cardinality(F) = count /\ list' = list \ F
      BY <2>3 DEF FreeMem
    <3>2. ASSUME \A g \in Group : grpcnt[g] = 0 PROVE list' = {}
      <4>1. Between(Taken, grpcnt) = {}
        BY <2>0, <2>a, <3>2 DEF Between
      <4>2. Cardinality(list) = Cardinality(F)
        BY <3>0, <3>1, <4>1, FS_EmptySet DEF PoolInv, Balanced, TypeOK
      <4>3. F = list
        BY <2>0, <4>2, FS_Subset
      <4> QED
        BY <3>1, <4>3
    <3>3. Taken' = Taken
      BY <3>0 DEF Taken
    <3> QED
      BY <2>0, <3>0, <3>1, <3>2, <3>3 DEF PoolInv, TypeOK, OneOwner, QuietFreeLeaksNothing
  (* The steps in service: what they do to one request and to the list.    *)
  <2>s. ASSUME NEW g \in Group, phase = "in_service", phase' = "in_service",
               filled' = filled,
               list' \in SUBSET Block,
               held' \in [Group -> SUBSET Block],
               grpcnt' \in [Group -> 0 .. MaxPerRequest],
               count' \in Nat,
               OneOwner',
               \A k \in Group : k # g => held'[k] = held[k] /\ grpcnt'[k] = grpcnt[k],
               Cardinality(held'[g]) <= grpcnt'[g],
               count' + grpcnt'[g] = count + grpcnt[g],
               Cardinality(list') + Cardinality(held'[g])
                 = Cardinality(list) + Cardinality(held[g])
        PROVE  PoolInv'
    <3>1. /\ \A k \in Group : IsFiniteSet(held'[k]) /\ Cardinality(held'[k]) \in Nat
          /\ IsFiniteSet(list') /\ Cardinality(list') \in Nat
      <4>1. \A S \in SUBSET Block : IsFiniteSet(S) /\ Cardinality(S) \in Nat
        BY FS_Subset, FS_CardinalityType
      <4> QED
        BY <2>s, <4>1
    <3>2. \A k \in Group : Taken'[k] <= grpcnt'[k]
      BY <2>0, <2>s DEF Taken
    <3>3. Taken' \in [Group -> 0 .. MaxPerRequest]
      BY <2>s, <3>1, <3>2 DEF Taken
    <3>4. \A k \in Group : k # g => Taken'[k] = Taken[k]
      BY <2>s DEF Taken
    <3>5. /\ Cardinality(Between(Taken, grpcnt)) \in Nat
          /\ Cardinality(Between(Taken', grpcnt')) \in Nat
          /\ Cardinality(Between(Taken', grpcnt')) + (grpcnt[g] - Taken[g])
               = Cardinality(Between(Taken, grpcnt)) + (grpcnt'[g] - Taken'[g])
      <4>1. /\ Taken[g] <= grpcnt[g] /\ Taken'[g] <= grpcnt'[g]
            /\ \A k \in Group : k # g => Taken'[k] = Taken[k] /\ grpcnt'[k] = grpcnt[k]
        BY <2>0, <2>s, <3>2, <3>4
      <4> HIDE DEF Taken
      <4> QED
        BY <2>a, <2>s, <3>3, <4>1, OneRequest, SMTT(30)
    <3>6. /\ Cardinality(Between(Nothing, grpcnt)) \in Nat
          /\ Cardinality(Between(Nothing, grpcnt')) \in Nat
          /\ Cardinality(Between(Nothing, grpcnt')) + (grpcnt[g] - 0)
               = Cardinality(Between(Nothing, grpcnt)) + (grpcnt'[g] - 0)
      <4>1. /\ Nothing[g] = 0 /\ Nothing[g] <= grpcnt[g] /\ Nothing[g] <= grpcnt'[g]
            /\ \A k \in Group : k # g => Nothing[k] = Nothing[k] /\ grpcnt'[k] = grpcnt[k]
        BY <2>a, <2>s DEF Nothing
      <4> QED
        BY <2>a, <2>b, <2>s, <4>1, OneRequest
    <3>7. /\ grpcnt[g] \in Nat /\ grpcnt'[g] \in Nat /\ Taken[g] \in Nat /\ Taken'[g] \in Nat
          /\ Taken[g] = Cardinality(held[g]) /\ Taken'[g] = Cardinality(held'[g])
          /\ count \in Nat
      BY <2>0, <2>a, <2>s, <3>3 DEF Taken, TypeOK
    <3>8. /\ count' + Cardinality(Between(Nothing, grpcnt')) = Reserved
          /\ Cardinality(list') = count' + Cardinality(Between(Taken', grpcnt'))
      BY <2>0, <2>s, <3>1, <3>5, <3>6, <3>7 DEF PoolInv, Balanced
    <3>9. Balanced'
      BY <3>8 DEF Balanced, Between, Nothing
    <3>10. TypeOK'
      BY <2>0, <2>s, <3>6, <3>8 DEF TypeOK
    <3> QED
      BY <2>s, <3>2, <3>9, <3>10 DEF PoolInv, QuietFreeLeaksNothing
  <2>4. ASSUME NEW g \in Group, GroupGet(g) PROVE PoolInv'
    <3>0. /\ phase = "in_service" /\ grpcnt[g] > Cardinality(held[g])
          /\ UNCHANGED <<phase, count, grpcnt, filled>>
      BY <2>4 DEF GroupGet
    <3>1. PICK x \in list : list' = list \ {x} /\ held' = [held EXCEPT ![g] = held[g] \cup {x}]
      BY <2>4 DEF GroupGet
    <3>2. /\ x \in Block /\ x \notin held[g] /\ IsFiniteSet(held[g])
          /\ Cardinality(held[g]) \in Nat /\ held'[g] = held[g] \cup {x}
      BY <2>0, <3>1, Finite DEF OneOwner, TypeOK
    <3>3. /\ Cardinality(list') = Cardinality(list) - 1
          /\ Cardinality(held'[g]) = Cardinality(held[g]) + 1
      <4>1. Cardinality(list \ {x}) = Cardinality(list) - 1
        BY <2>0, <3>1, OneLess
      <4>2. Cardinality(held[g] \cup {x}) = Cardinality(held[g]) + 1
        BY <3>2, OneMore
      <4> QED
        BY <3>1, <3>2, <4>1, <4>2
    <3>4. OneOwner'
      BY <2>0, <3>1, <3>2 DEF OneOwner, TypeOK
    <3>5. held' \in [Group -> SUBSET Block] /\ list' \in SUBSET Block
      BY <2>0, <3>1, <3>2 DEF TypeOK
    <3>6. \A k \in Group : k # g => held'[k] = held[k] /\ grpcnt'[k] = grpcnt[k]
      BY <2>0, <3>0, <3>1 DEF TypeOK
    <3>7. /\ Cardinality(held'[g]) <= grpcnt'[g]
          /\ Cardinality(list') + Cardinality(held'[g]) = Cardinality(list) + Cardinality(held[g])
      BY <2>0, <2>a, <3>0, <3>2, <3>3
    <3> QED
      BY <2>0, <2>a, <2>s, <3>0, <3>4, <3>5, <3>6, <3>7 DEF TypeOK
  <2>5. ASSUME NEW g \in Group, GroupPut(g) PROVE PoolInv'
    <3>0. /\ phase = "in_service" /\ Cardinality(held[g]) > 1
          /\ UNCHANGED <<phase, count, grpcnt, filled>>
      BY <2>5 DEF GroupPut
    <3>1. PICK x \in held[g] : list' = list \cup {x} /\ held' = [held EXCEPT ![g] = held[g] \ {x}]
      BY <2>5 DEF GroupPut
    <3>2. /\ x \in Block /\ x \notin list /\ IsFiniteSet(held[g])
          /\ Cardinality(held[g]) \in Nat /\ held'[g] = held[g] \ {x}
      BY <2>0, <3>1, Finite DEF OneOwner, TypeOK
    <3>3. /\ Cardinality(list') = Cardinality(list) + 1
          /\ Cardinality(held'[g]) = Cardinality(held[g]) - 1
      <4>1. Cardinality(list \cup {x}) = Cardinality(list) + 1
        BY <2>0, <3>2, OneMore
      <4>2. Cardinality(held[g] \ {x}) = Cardinality(held[g]) - 1
        BY <3>1, <3>2, OneLess
      <4> QED
        BY <3>1, <3>2, <4>1, <4>2
    <3>4. OneOwner'
      BY <2>0, <3>1, <3>2 DEF OneOwner, TypeOK
    <3>5. held' \in [Group -> SUBSET Block] /\ list' \in SUBSET Block
      BY <2>0, <3>1, <3>2 DEF TypeOK
    <3>6. \A k \in Group : k # g => held'[k] = held[k] /\ grpcnt'[k] = grpcnt[k]
      BY <2>0, <3>0, <3>1 DEF TypeOK
    <3>7. /\ Cardinality(held'[g]) <= grpcnt'[g]
          /\ Cardinality(list') + Cardinality(held'[g]) = Cardinality(list) + Cardinality(held[g])
      BY <2>0, <2>a, <3>0, <3>2, <3>3 DEF Taken
    <3> QED
      BY <2>0, <2>a, <2>s, <3>0, <3>4, <3>5, <3>6, <3>7 DEF TypeOK
  <2>6. ASSUME NEW g \in Group, FreeCmds(g) PROVE PoolInv'
    <3>0. /\ phase = "in_service" /\ Cardinality(held[g]) = 1
          /\ UNCHANGED <<phase, filled>>
          /\ list' = list \cup held[g] /\ held' = [held EXCEPT ![g] = {}]
          /\ count' = count + grpcnt[g] /\ grpcnt' = [grpcnt EXCEPT ![g] = 0]
      BY <2>6 DEF FreeCmds
    <3>1. PICK x : held[g] = {x}
      BY <2>0, <3>0, Finite, FS_Singleton
    <3>2. x \in Block /\ x \notin list /\ held'[g] = {} /\ grpcnt'[g] = 0
      BY <2>0, <3>0, <3>1 DEF OneOwner, TypeOK
    <3>3. /\ Cardinality(list') = Cardinality(list) + 1
          /\ Cardinality(held'[g]) = 0
      <4>1. Cardinality(list \cup {x}) = Cardinality(list) + 1
        BY <2>0, <3>2, OneMore
      <4> QED
        BY <3>0, <3>1, <3>2, <4>1, FS_EmptySet
    <3>4. OneOwner'
      BY <2>0, <3>0, <3>2 DEF OneOwner, TypeOK
    <3>5. /\ held' \in [Group -> SUBSET Block] /\ list' \in SUBSET Block
          /\ grpcnt' \in [Group -> 0 .. MaxPerRequest] /\ grpcnt[g] \in Nat /\ count' \in Nat
      BY <2>0, <3>0, <3>1, <3>2 DEF TypeOK
    <3>6. \A k \in Group : k # g => held'[k] = held[k] /\ grpcnt'[k] = grpcnt[k]
      BY <2>0, <3>0 DEF TypeOK
    <3>7. /\ Cardinality(held'[g]) <= grpcnt'[g]
          /\ count' + grpcnt'[g] = count + grpcnt[g]
          /\ Cardinality(list') + Cardinality(held'[g]) = Cardinality(list) + Cardinality(held[g])
      BY <2>0, <3>0, <3>2, <3>3, <3>5 DEF TypeOK
    <3> QED
      BY <2>s, <3>0, <3>4, <3>5, <3>6, <3>7
  <2>7. ASSUME NEW g \in Group, NEW n \in 1 .. MaxPerRequest, AllocCmds(g, n)
        PROVE  PoolInv'
    <3>0. /\ phase = "in_service" /\ grpcnt[g] = 0 /\ count >= n
          /\ UNCHANGED <<phase, filled>>
          /\ grpcnt' = [grpcnt EXCEPT ![g] = n] /\ count' = count - n
      BY <2>7 DEF AllocCmds
    <3>1. PICK x \in list : list' = list \ {x} /\ held' = [held EXCEPT ![g] = {x}]
      BY <2>7 DEF AllocCmds
    <3>2. /\ x \in Block /\ held'[g] = {x} /\ grpcnt'[g] = n
          /\ \A k \in Group : x \notin held[k]
      BY <2>0, <3>0, <3>1 DEF OneOwner, TypeOK
    <3>3. /\ Cardinality(list') = Cardinality(list) - 1
          /\ Cardinality(held'[g]) = 1 /\ Cardinality(held[g]) = 0
      <4>1. Cardinality(held[g]) <= 0 /\ Cardinality(held[g]) \in Nat
        BY <2>0, <3>0, Finite DEF Taken
      <4>2. Cardinality(list \ {x}) = Cardinality(list) - 1
        BY <2>0, <3>1, OneLess
      <4>3. Cardinality({x}) = 1
        BY FS_Singleton
      <4> QED
        BY <3>1, <3>2, <4>1, <4>2, <4>3
    <3>4. OneOwner'
      BY <2>0, <3>1, <3>2 DEF OneOwner, TypeOK
    <3>5. /\ held' \in [Group -> SUBSET Block] /\ list' \in SUBSET Block
          /\ grpcnt' \in [Group -> 0 .. MaxPerRequest] /\ count' \in Nat
      BY <2>0, <3>0, <3>1, <3>2 DEF TypeOK
    <3>6. \A k \in Group : k # g => held'[k] = held[k] /\ grpcnt'[k] = grpcnt[k]
      BY <2>0, <3>0, <3>1 DEF TypeOK
    <3>7. /\ Cardinality(held'[g]) <= grpcnt'[g]
          /\ count' + grpcnt'[g] = count + grpcnt[g]
          /\ Cardinality(list') + Cardinality(held'[g]) = Cardinality(list) + Cardinality(held[g])
      BY <2>0, <3>0, <3>2, <3>3 DEF TypeOK
    <3> QED
      BY <2>s, <3>0, <3>4, <3>5, <3>6, <3>7
  <2>8. CASE UNCHANGED vars
    BY <2>8 DEF vars, PoolInv, TypeOK, OneOwner, QuietFreeLeaksNothing, Balanced,
                Taken, Between, Nothing
  <2> QED
    BY <2>1, <2>2, <2>3, <2>4, <2>5, <2>6, <2>7, <2>8 DEF Next
<1> QED
  BY <1>1, <1>2, PTL DEF Spec

(* For any list: a count that is not 0 has a block behind it, and every    *)
(* command that was reserved finds a block when it is taken.               *)
THEOREM ReservationsAreHonoured == Spec => [](HeadBehindCount /\ ReservationHonoured)
<1>1. PoolInv => HeadBehindCount /\ ReservationHonoured
  <2> SUFFICES ASSUME PoolInv, phase = "in_service",
                      count > 0 \/ \E g \in Group : grpcnt[g] > Cardinality(held[g])
               PROVE  list # {}
    BY DEF HeadBehindCount, ReservationHonoured
  <2>1. /\ TypeOK /\ Balanced
        /\ IsFiniteSet(list) /\ Cardinality(list) \in Nat /\ count \in Nat
    BY Finite DEF PoolInv, TypeOK
  <2>2. /\ IsFiniteSet(Between(Taken, grpcnt))
        /\ Cardinality(Between(Taken, grpcnt)) \in Nat
    <3>1. IsFiniteSet(Group \X (1 .. MaxPerRequest))
      BY TicketsFinite
    <3>2. Between(Taken, grpcnt) \in SUBSET (Group \X (1 .. MaxPerRequest))
      BY DEF Between
    <3> QED
      BY <3>1, <3>2, FS_Subset, FS_CardinalityType
  <2>3. CASE count > 0
    BY <2>1, <2>2, <2>3, FS_EmptySet DEF Balanced
  <2>4. ASSUME NEW g \in Group, grpcnt[g] > Cardinality(held[g]) PROVE list # {}
    <3>1. /\ grpcnt[g] \in 1 .. MaxPerRequest /\ Taken[g] < grpcnt[g]
      BY <2>1, <2>4, Finite DEF TypeOK, Taken
    <3>2. <<g, grpcnt[g]>> \in Between(Taken, grpcnt)
      BY <3>1 DEF Between
    <3>3. Cardinality(Between(Taken, grpcnt)) # 0
      BY <2>2, <3>2, FS_EmptySet
    <3> QED
      BY <2>1, <2>2, <3>3, FS_EmptySet DEF Balanced
  <2> QED
    BY <2>3, <2>4
<1> QED
  BY <1>1, PoolInvariant, PTL

(* A block is never in two places, and a quiet release frees them all.     *)
THEOREM BlocksAreOwned == Spec => [](TypeOK /\ OneOwner /\ QuietFreeLeaksNothing)
<1>1. PoolInv => TypeOK /\ OneOwner /\ QuietFreeLeaksNothing
  BY DEF PoolInv
<1> QED
  BY <1>1, PoolInvariant, PTL

(* freelist_get is not led by a stale count to the missing first block of  *)
(* an empty list.                                                          *)
THEOREM CountIsBacked == Spec => []HeadBehindCount
<1>1. HeadBehindCount /\ ReservationHonoured => HeadBehindCount
  OBVIOUS
<1> QED
  BY <1>1, ReservationsAreHonoured, PTL

(* hpt_free_mem, which frees as many blocks as count says, frees every     *)
(* block when no request is at work.                                       *)
THEOREM QuietReleaseIsComplete == Spec => []QuietFreeLeaksNothing
<1>1. TypeOK /\ OneOwner /\ QuietFreeLeaksNothing => QuietFreeLeaksNothing
  OBVIOUS
<1> QED
  BY <1>1, BlocksAreOwned, PTL
=============================================================================
