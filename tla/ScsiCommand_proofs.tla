------------------------- MODULE ScsiCommand_proofs -------------------------
(***************************************************************************)
(* Proofs about the way of a SCSI command: ScsiCommand, for any number of  *)
(* commands, any size of the freelist and of the requests; SgList, its     *)
(* scatter/gather list, for any lists of segments, any limit and any set   *)
(* of boundaries; and ScsiAnswers, what the disk driver learns and asks    *)
(* for, for any values of a byte, capacities and block sizes.  That no     *)
(* COMMAND is lost is about a sum over all the commands, so the first part *)
(* shows how such a sum changes; the provers have no induction scheme, and *)
(* the part begins with one, a minimal counterexample among the subsets of *)
(* a finite set.                                                           *)
(***************************************************************************)
EXTENDS ScsiCommand, SgList, ScsiAnswers, FiniteSetTheorems, SequenceTheorems, TLAPS

(* A family of subsets of a finite set that has every subset whose smaller *)
(* subsets it has, has them all.                                           *)
LEMMA SubsetInduction ==
  ASSUME NEW S, IsFiniteSet(S), NEW F \in SUBSET (SUBSET S),
         \A T \in SUBSET S : (\A U \in SUBSET T : U # T => U \in F) => T \in F
  PROVE  F = SUBSET S
<1> DEFINE rest == (SUBSET S) \ F
<1>1. SUFFICES ASSUME rest # {} PROVE FALSE
  OBVIOUS
<1>2. rest \subseteq FiniteSubsetsOf(S)
  BY FS_FiniteSubsetsOfFinite
<1> HIDE DEF rest
<1>3. PICK T \in rest : \A U \in rest : ~(<<U, T>> \in StrictSubsetOrdering(S))
  BY <1>1, <1>2, FS_StrictSubsetOrderingWellFounded, WFMin
<1> USE DEF rest
<1>4. ASSUME NEW U \in SUBSET T, U # T PROVE U \in F
  <2>1. <<U, T>> \in StrictSubsetOrdering(S)
    BY <1>4 DEF StrictSubsetOrdering
  <2> QED
    BY <1>3, <2>1
<1> QED
  BY <1>3, <1>4

-----------------------------------------------------------------------------
(* The equation of the function in Total.                                  *)
Sums(f, S, sum) ==
  sum = [T \in SUBSET S |->
           IF T = {} THEN 0 ELSE LET c == CHOOSE x \in T : TRUE IN f[c] + sum[T \ {c}]]

(* The element Total takes first.                                          *)
One(T) == CHOOSE x \in T : TRUE

(* It is one of the set.                                                   *)
LEMMA OneIn == ASSUME NEW T, T # {} PROVE One(T) \in T
BY DEF One

(* What the equation says of one set.                                      *)
LEMMA SumsAt ==
  ASSUME NEW f, NEW S, NEW sum, Sums(f, S, sum), NEW T \in SUBSET S
  PROVE  sum[T] = IF T = {} THEN 0 ELSE f[One(T)] + sum[T \ {One(T)}]
BY DEF Sums, One

(* Two solutions agree on the sets both are about.                         *)
LEMMA SumsAgree ==
  ASSUME NEW f, NEW S, NEW R \in SUBSET S, IsFiniteSet(S),
         NEW s, NEW r, Sums(f, S, s), Sums(f, R, r)
  PROVE  \A T \in SUBSET R : s[T] = r[T]
<1> DEFINE F == {T \in SUBSET R : s[T] = r[T]}
<1>1. IsFiniteSet(R)
  BY FS_Subset
<1>2. ASSUME NEW T \in SUBSET R, \A U \in SUBSET T : U # T => U \in F PROVE T \in F
  <2>1. CASE T = {}
    BY <2>1, SumsAt
  <2>2. CASE T # {}
    <3>1. One(T) \in T
      BY <2>2, OneIn
    <3>2. s[T \ {One(T)}] = r[T \ {One(T)}]
      BY <1>2, <3>1
    <3>3. s[T] = f[One(T)] + s[T \ {One(T)}]
      <4>1. T \in SUBSET S
        OBVIOUS
      <4> QED
        BY <2>2, <4>1, SumsAt
    <3>4. r[T] = f[One(T)] + r[T \ {One(T)}]
      BY <2>2, SumsAt
    <3> QED
      BY <3>2, <3>3, <3>4
  <2> QED
    BY <2>1, <2>2
<1> HIDE DEF F
<1>3. F = SUBSET R
  <2>1. F \in SUBSET (SUBSET R)
    BY DEF F
  <2> QED
    BY <1>1, <1>2, <2>1, SubsetInduction
<1> QED
  BY <1>3 DEF F

(* There is a solution.                                                    *)
LEMMA SumsExist ==
  ASSUME NEW f, NEW S, IsFiniteSet(S)
  PROVE  \E sum : Sums(f, S, sum)
<1> DEFINE F == {T \in SUBSET S : \E sum : Sums(f, T, sum)}
<1>1. ASSUME NEW T \in SUBSET S, \A U \in SUBSET T : U # T => U \in F PROVE T \in F
  <2> DEFINE own(U) == CHOOSE sum : Sums(f, U, sum)
             below(U) == IF U = {} THEN 0 ELSE f[One(U)] + own(U \ {One(U)})[U \ {One(U)}]
             g == [U \in SUBSET T |-> below(U)]
  <2>1. ASSUME NEW U \in SUBSET T, U # T PROVE Sums(f, U, own(U)) /\ IsFiniteSet(U)
    BY <1>1, <2>1, FS_Subset
  <2>2. ASSUME NEW U \in SUBSET T, U # T PROVE own(U)[U] = below(U)
    <3>1. CASE U = {}
      BY <2>1, <2>2, <3>1, SumsAt
    <3>2. CASE U # {}
      <4>1. own(U)[U] = f[One(U)] + own(U)[U \ {One(U)}]
        BY <2>1, <2>2, <3>2, SumsAt
      <4>2. /\ U \ {One(U)} \in SUBSET U /\ U \ {One(U)} # T
            /\ U \ {One(U)} \in SUBSET T
        BY <2>2, <3>2, OneIn
      <4>3. Sums(f, U \ {One(U)}, own(U \ {One(U)}))
        BY <2>1, <4>2
      <4> HIDE DEF own
      <4>4. own(U)[U \ {One(U)}] = own(U \ {One(U)})[U \ {One(U)}]
        BY <2>1, <2>2, <4>2, <4>3, SumsAgree
      <4> QED
        BY <3>2, <4>1, <4>4
    <3> QED
      BY <3>1, <3>2
  <2> HIDE DEF own
  <2>3. ASSUME NEW U \in SUBSET T, U # {}
        PROVE  g[U \ {One(U)}] = own(U \ {One(U)})[U \ {One(U)}]
    <3>1. U \ {One(U)} \in SUBSET T /\ U \ {One(U)} # T
      BY <2>3, OneIn
    <3> QED
      BY <2>2, <3>1
  <2>4. \A U \in SUBSET T :
          g[U] = IF U = {} THEN 0 ELSE f[One(U)] + g[U \ {One(U)}]
    BY <2>3
  <2>5. g = [U \in SUBSET T |-> g[U]]
    OBVIOUS
  <2> HIDE DEF g
  <2>6. g = [U \in SUBSET T |-> IF U = {} THEN 0 ELSE f[One(U)] + g[U \ {One(U)}]]
    BY <2>4, <2>5
  <2>7. Sums(f, T, g)
    BY <2>6 DEF Sums, One
  <2> QED
    BY <2>7
<1> HIDE DEF F
<1>2. F = SUBSET S
  <2>1. F \in SUBSET (SUBSET S)
    BY DEF F
  <2> QED
    BY <1>1, <2>1, SubsetInduction
<1> QED
  BY <1>2 DEF F

(* Total of the empty set, and what one element of a set contributes to    *)
(* it, whichever element Total takes first.                                *)
LEMMA TotalSums ==
  ASSUME NEW f, NEW S, IsFiniteSet(S)
  PROVE  \E sum : Sums(f, S, sum) /\ Total(f, S) = sum[S]
<1> DEFINE own == CHOOSE sum : Sums(f, S, sum)
<1>1. Sums(f, S, own)
  BY SumsExist
<1>2. Total(f, S) = own[S]
  BY DEF Total, Sums
<1> QED
  BY <1>1, <1>2

(* Nothing is the total of nothing.                                        *)
LEMMA TotalEmpty == ASSUME NEW f PROVE Total(f, {}) = 0
<1>1. PICK sum : Sums(f, {}, sum) /\ Total(f, {}) = sum[{}]
  BY FS_EmptySet, TotalSums
<1> QED
  BY <1>1, SumsAt

(* A total is what one element contributes, and the total of the others:   *)
(* first the element Total takes.                                          *)
LEMMA TotalTakesOne ==
  ASSUME NEW f, NEW S, IsFiniteSet(S), S # {}
  PROVE  Total(f, S) = f[One(S)] + Total(f, S \ {One(S)})
<1>1. PICK s : Sums(f, S, s) /\ Total(f, S) = s[S]
  BY TotalSums
<1>2. S \ {One(S)} \in SUBSET S /\ IsFiniteSet(S \ {One(S)})
  BY FS_Subset
<1>3. PICK r : Sums(f, S \ {One(S)}, r) /\ Total(f, S \ {One(S)}) = r[S \ {One(S)}]
  BY <1>2, TotalSums
<1>4. s[S \ {One(S)}] = r[S \ {One(S)}]
  BY <1>1, <1>2, <1>3, SumsAgree
<1>5. s[S] = f[One(S)] + s[S \ {One(S)}]
  BY <1>1, SumsAt
<1> QED
  BY <1>1, <1>3, <1>4, <1>5

(* A total of naturals is one.                                             *)
LEMMA TotalNat ==
  ASSUME NEW f, NEW S, IsFiniteSet(S), \A x \in S : f[x] \in Nat
  PROVE  Total(f, S) \in Nat
<1> DEFINE F == {T \in SUBSET S : Total(f, T) \in Nat}
<1>1. ASSUME NEW T \in SUBSET S, \A U \in SUBSET T : U # T => U \in F PROVE T \in F
  <2>1. CASE T = {}
    BY <2>1, TotalEmpty
  <2>2. CASE T # {}
    <3>1. One(T) \in T /\ IsFiniteSet(T)
      BY <2>2, OneIn, FS_Subset
    <3>2. Total(f, T \ {One(T)}) \in Nat
      BY <1>1, <3>1
    <3>3. Total(f, T) = f[One(T)] + Total(f, T \ {One(T)})
      BY <2>2, <3>1, TotalTakesOne
    <3> QED
      BY <3>1, <3>2, <3>3
  <2> QED
    BY <2>1, <2>2
<1> HIDE DEF F
<1>2. F = SUBSET S
  <2>1. F \in SUBSET (SUBSET S)
    BY DEF F
  <2> QED
    BY <1>1, <2>1, SubsetInduction
<1> QED
  BY <1>2 DEF F

(* The same for any element.                                               *)
LEMMA TotalTakesAny ==
  ASSUME NEW f, NEW S, IsFiniteSet(S), \A x \in S : f[x] \in Nat, NEW y \in S
  PROVE  Total(f, S) = f[y] + Total(f, S \ {y})
<1> DEFINE F == {T \in SUBSET S : \A x \in T : Total(f, T) = f[x] + Total(f, T \ {x})}
<1>1. ASSUME NEW T \in SUBSET S, \A U \in SUBSET T : U # T => U \in F PROVE T \in F
  <2> SUFFICES ASSUME NEW x \in T PROVE Total(f, T) = f[x] + Total(f, T \ {x})
    OBVIOUS
  <2> DEFINE c == One(T)  rest == T \ {x, c}
  <2>1. c \in T
    BY OneIn
  <2> HIDE DEF c
  <2>2. Total(f, T) = f[c] + Total(f, T \ {c})
    BY FS_Subset, TotalTakesOne DEF c
  <2>3. CASE x # c
    <3>1. (T \ {c}) \ {x} = rest /\ (T \ {x}) \ {c} = rest
      OBVIOUS
    <3>2. Total(f, T \ {c}) = f[x] + Total(f, rest)
      <4>1. T \ {c} \in F /\ x \in T \ {c}
        BY <1>1, <2>1, <2>3
      <4> QED
        BY <3>1, <4>1
    <3>3. Total(f, T \ {x}) = f[c] + Total(f, rest)
      <4>1. T \ {x} \in F /\ c \in T \ {x}
        BY <1>1, <2>1, <2>3
      <4> QED
        BY <3>1, <4>1
    <3>4. f[x] \in Nat /\ f[c] \in Nat /\ Total(f, rest) \in Nat
      <4>1. IsFiniteSet(rest) /\ \A z \in rest : f[z] \in Nat
        BY FS_Subset
      <4> HIDE DEF rest
      <4> QED
        BY <2>1, <4>1, TotalNat
    <3> HIDE DEF rest
    <3> QED
      BY <2>2, <3>2, <3>3, <3>4
  <2> QED
    BY <2>2, <2>3
<1> HIDE DEF F
<1>2. F = SUBSET S
  <2>1. F \in SUBSET (SUBSET S)
    BY DEF F
  <2> QED
    BY <1>1, <2>1, SubsetInduction
<1> QED
  BY <1>2 DEF F

(* Totals of functions that agree, and of the parts of a set.              *)
LEMMA TotalSame ==
  ASSUME NEW f, NEW g, NEW S, IsFiniteSet(S), \A x \in S : f[x] = g[x]
  PROVE  Total(f, S) = Total(g, S)
<1> DEFINE F == {T \in SUBSET S : Total(f, T) = Total(g, T)}
<1>1. ASSUME NEW T \in SUBSET S, \A U \in SUBSET T : U # T => U \in F PROVE T \in F
  <2>1. CASE T = {}
    BY <2>1, TotalEmpty
  <2>2. CASE T # {}
    <3>1. One(T) \in T /\ IsFiniteSet(T)
      BY <2>2, OneIn, FS_Subset
    <3>2. Total(f, T \ {One(T)}) = Total(g, T \ {One(T)})
      BY <1>1, <3>1
    <3>3. /\ Total(f, T) = f[One(T)] + Total(f, T \ {One(T)})
          /\ Total(g, T) = g[One(T)] + Total(g, T \ {One(T)})
      BY <2>2, <3>1, TotalTakesOne
    <3> QED
      BY <3>1, <3>2, <3>3
  <2> QED
    BY <2>1, <2>2
<1> HIDE DEF F
<1>2. F = SUBSET S
  <2>1. F \in SUBSET (SUBSET S)
    BY DEF F
  <2> QED
    BY <1>1, <2>1, SubsetInduction
<1> QED
  BY <1>2 DEF F

(* Zeros add up to zero.                                                   *)
LEMMA TotalZero ==
  ASSUME NEW f, NEW S, IsFiniteSet(S), \A x \in S : f[x] = 0
  PROVE  Total(f, S) = 0
<1> DEFINE F == {T \in SUBSET S : Total(f, T) = 0}
<1>1. ASSUME NEW T \in SUBSET S, \A U \in SUBSET T : U # T => U \in F PROVE T \in F
  <2>1. CASE T = {}
    BY <2>1, TotalEmpty
  <2>2. CASE T # {}
    <3>1. One(T) \in T /\ IsFiniteSet(T)
      BY <2>2, OneIn, FS_Subset
    <3>2. Total(f, T \ {One(T)}) = 0 /\ f[One(T)] = 0
      BY <1>1, <3>1
    <3>3. Total(f, T) = f[One(T)] + Total(f, T \ {One(T)})
      BY <2>2, <3>1, TotalTakesOne
    <3> QED
      BY <3>2, <3>3
  <2> QED
    BY <2>1, <2>2
<1> HIDE DEF F
<1>2. F = SUBSET S
  <2>1. F \in SUBSET (SUBSET S)
    BY DEF F
  <2> QED
    BY <1>1, <2>1, SubsetInduction
<1> QED
  BY <1>2 DEF F

(* A total is that of a part and that of the rest.                         *)
LEMMA TotalOfParts ==
  ASSUME NEW f, NEW S, IsFiniteSet(S), \A x \in S : f[x] \in Nat, NEW P \in SUBSET S
  PROVE  Total(f, S) = Total(f, P) + Total(f, S \ P)
<1> DEFINE F == {T \in SUBSET S : Total(f, S) = Total(f, T) + Total(f, S \ T)}
<1>1. ASSUME NEW T \in SUBSET S, \A U \in SUBSET T : U # T => U \in F PROVE T \in F
  <2>1. CASE T = {}
    <3>1. Total(f, S) \in Nat /\ S \ T = S /\ Total(f, T) = 0
      BY <2>1, TotalEmpty, TotalNat
    <3>2. Total(f, S) = Total(f, T) + Total(f, S \ T)
      <4>1. Total(f, S) = 0 + Total(f, S)
        BY <3>1
      <4> QED
        BY <3>1, <4>1
    <3> QED
      BY <3>2
  <2>2. CASE T # {}
    <3> DEFINE x == One(T)
    <3>1. x \in T
      BY <2>2, OneIn
    <3> HIDE DEF x
    <3>2. IsFiniteSet(T) /\ IsFiniteSet(T \ {x}) /\ IsFiniteSet(S \ T) /\ IsFiniteSet(S \ (T \ {x}))
      BY FS_Subset
    <3>3. Total(f, S) = Total(f, T \ {x}) + Total(f, S \ (T \ {x}))
      BY <1>1, <3>1
    <3>4. Total(f, T) = f[x] + Total(f, T \ {x})
      BY <3>1, <3>2, TotalTakesAny
    <3>5. Total(f, S \ (T \ {x})) = f[x] + Total(f, S \ T)
      <4>1. (S \ (T \ {x})) \ {x} = S \ T /\ x \in S \ (T \ {x})
        BY <3>1
      <4> QED
        BY <3>2, <4>1, TotalTakesAny
    <3>6. f[x] \in Nat /\ Total(f, T \ {x}) \in Nat /\ Total(f, S \ T) \in Nat
      BY <3>1, <3>2, TotalNat
    <3> QED
      BY <3>3, <3>4, <3>5, <3>6
  <2> QED
    BY <2>1, <2>2
<1> HIDE DEF F
<1>2. F = SUBSET S
  <2>1. F \in SUBSET (SUBSET S)
    BY DEF F
  <2> QED
    BY <1>1, <2>1, SubsetInduction
<1> QED
  BY <1>2 DEF F

(* What the total becomes when one value changes, or some become 0.        *)
LEMMA TotalOfChange ==
  ASSUME NEW f, NEW g, NEW S, IsFiniteSet(S), NEW y \in S,
         \A x \in S : f[x] \in Nat /\ g[x] \in Nat,
         \A x \in S \ {y} : g[x] = f[x]
  PROVE  Total(g, S) + f[y] = Total(f, S) + g[y]
<1>1. Total(f, S) = f[y] + Total(f, S \ {y}) /\ Total(g, S) = g[y] + Total(g, S \ {y})
  BY TotalTakesAny
<1>2. IsFiniteSet(S \ {y})
  BY FS_Subset
<1>3. Total(g, S \ {y}) = Total(f, S \ {y}) /\ Total(f, S \ {y}) \in Nat
  BY <1>2, TotalSame, TotalNat
<1> QED
  BY <1>1, <1>3

(* What is cleared is missing in the total.                                *)
LEMMA TotalOfCleared ==
  ASSUME NEW f, NEW g, NEW S, IsFiniteSet(S), NEW P \in SUBSET S,
         \A x \in S : f[x] \in Nat, \A x \in P : g[x] = 0,
         \A x \in S \ P : g[x] = f[x]
  PROVE  Total(f, S) = Total(f, P) + Total(g, S)
<1>1. \A x \in S : g[x] \in Nat
  OBVIOUS
<1>2. Total(f, S) = Total(f, P) + Total(f, S \ P)
  BY TotalOfParts
<1>3. Total(g, S) = Total(g, P) + Total(g, S \ P)
  BY <1>1, TotalOfParts
<1>4. IsFiniteSet(P) /\ IsFiniteSet(S \ P)
  BY FS_Subset
<1>5. Total(g, P) = 0 /\ Total(g, S \ P) = Total(f, S \ P) /\ Total(f, S \ P) \in Nat
  BY <1>4, TotalZero, TotalSame, TotalNat
<1>6. Total(g, S) = Total(f, S \ P)
  BY <1>3, <1>5
<1> QED
  BY <1>2, <1>6

-----------------------------------------------------------------------------
(* The three properties hold one another up: a command that is sent has no *)
(* COMMANDs to lose because it is not with the LDM, and it is not because  *)
(* what the LDM has is active or timed out.  What must be added is that    *)
(* the error handler works on a quiet host: from its start to its end a    *)
(* command has timed out, so none is sent, and none is active.             *)
Recovery ==
  eh => /\ \E c \in Cmd : mid[c] = "timed_out"
        /\ \A c \in Cmd : mid[c] # "active"

(* The inductive invariant: the three properties need each other.          *)
CmdInv == TypeOK /\ Accounted /\ NothingLeaks /\ DmaOnlyMapped /\ Recovery

(* The sum in NothingLeaks.                                                *)
Balanced == avail + Total(cmds, Cmd) = Pool

(* os_cmddone of any commands keeps the freelist's account.                *)
LEMMA CmdDoneBalances ==
  ASSUME TypeOK, Balanced, NEW S \in SUBSET Cmd, CmdDone(S)
  PROVE  /\ cmds' \in [Cmd -> 0 .. MaxNeed] /\ avail' \in 0 .. Pool /\ Balanced'
         /\ ldm' \in [Cmd -> {"none", "held", "dma"}] /\ dma' \in [Cmd -> BOOLEAN]
<1>1. IsFiniteSet(Cmd) /\ MaxNeed \in Nat /\ Pool \in Nat
  BY ScsiCommandAssumption DEF ScsiCommandAssumption
<1>2. cmds \in [Cmd -> 0 .. MaxNeed] /\ avail \in Nat
  BY <1>1 DEF TypeOK
<1>3. cmds' = [c \in Cmd |-> IF c \in S THEN 0 ELSE cmds[c]]
  BY DEF CmdDone
<1>4. cmds' \in [Cmd -> 0 .. MaxNeed]
  BY <1>1, <1>2, <1>3
<1>5. /\ \A c \in Cmd : cmds[c] \in Nat
      /\ \A c \in S : cmds'[c] = 0
      /\ \A c \in Cmd \ S : cmds'[c] = cmds[c]
  BY <1>1, <1>2, <1>3
<1>6. Total(cmds, Cmd) = Total(cmds, S) + Total(cmds', Cmd)
  BY <1>1, <1>5, TotalOfCleared
<1>7. Total(cmds, S) \in Nat /\ Total(cmds', Cmd) \in Nat
  <2>1. IsFiniteSet(S) /\ \A c \in Cmd : cmds'[c] \in Nat
    BY <1>1, <1>4, FS_Subset
  <2> QED
    BY <1>1, <1>5, <2>1, TotalNat
<1>8. avail' = avail + Total(cmds, S) /\ avail + Total(cmds, Cmd) = Pool
  BY DEF CmdDone, Balanced
<1>9. avail' \in 0 .. Pool /\ avail' + Total(cmds', Cmd) = Pool
  BY <1>1, <1>2, <1>6, <1>7, <1>8
<1>10. ldm' \in [Cmd -> {"none", "held", "dma"}] /\ dma' \in [Cmd -> BOOLEAN]
  <2>1. ldm' \in [Cmd -> {"none", "held", "dma"}]
    BY DEF CmdDone, TypeOK
  <2>2. dma' \in [Cmd -> BOOLEAN]
    BY DEF CmdDone, TypeOK
  <2> QED
    BY <2>1, <2>2
<1> QED
  BY <1>4, <1>9, <1>10 DEF Balanced

(* So does ldm_alloc_cmds for a command that has none.                     *)
AllocCmds(c) ==
  /\ avail >= need[c] /\ avail' = avail - need[c]
  /\ cmds' = [cmds EXCEPT ![c] = need[c]]

(* ldm_alloc_cmds keeps the freelist's account.                            *)
LEMMA AllocBalances ==
  ASSUME TypeOK, Balanced, NEW c \in Cmd, cmds[c] = 0, AllocCmds(c)
  PROVE  cmds' \in [Cmd -> 0 .. MaxNeed] /\ avail' \in 0 .. Pool /\ Balanced'
<1>1. IsFiniteSet(Cmd) /\ MaxNeed \in Nat /\ Pool \in Nat
  BY ScsiCommandAssumption DEF ScsiCommandAssumption
<1>2. /\ cmds \in [Cmd -> 0 .. MaxNeed] /\ avail \in 0 .. Pool
      /\ need[c] \in 1 .. MaxNeed
  BY <1>1 DEF TypeOK
<1>3. cmds' \in [Cmd -> 0 .. MaxNeed]
  BY <1>1, <1>2 DEF AllocCmds
<1>4. /\ \A d \in Cmd : cmds[d] \in Nat /\ cmds'[d] \in Nat
      /\ cmds'[c] = need[c]
      /\ \A d \in Cmd \ {c} : cmds'[d] = cmds[d]
  BY <1>1, <1>2, <1>3 DEF AllocCmds
<1>5. Total(cmds', Cmd) + cmds[c] = Total(cmds, Cmd) + cmds'[c]
  BY <1>1, <1>4, TotalOfChange
<1>6. Total(cmds, Cmd) \in Nat /\ Total(cmds', Cmd) \in Nat
  BY <1>1, <1>4, TotalNat
<1>7. avail' \in 0 .. Pool
  BY <1>1, <1>2 DEF AllocCmds
<1>8. avail' + Total(cmds', Cmd) = Pool
  BY <1>1, <1>2, <1>4, <1>5, <1>6 DEF Balanced, AllocCmds
<1> QED
  BY <1>3, <1>7, <1>8 DEF Balanced

-----------------------------------------------------------------------------
(* What the parts of the invariant say of each command.                    *)
PerCommand ==
  \A c \in Cmd : /\ mid[c] = "active" => ldm[c] # "none"
                 /\ ldm[c] # "none" => mid[c] \in {"active", "timed_out"}
                 /\ ldm[c] = "none" => cmds[c] = 0 /\ ~dma[c]
                 /\ ldm[c] = "dma" => dma[c]
                 /\ ldm[c] # "none" => mapped[c] = dma[c]

(* The same in parts that speak of one command, and of the sum.            *)
LEMMA InvParts ==
  /\ CmdInv <=> TypeOK /\ PerCommand /\ Balanced /\ Recovery
  /\ CmdInv' <=> TypeOK' /\ PerCommand' /\ Balanced' /\ Recovery'
BY DEF CmdInv, Accounted, NothingLeaks, DmaOnlyMapped, PerCommand, Balanced

(* Commands the LDM has are completed, and some others are answered.       *)
LEMMA DoneKeeps ==
  ASSUME CmdInv, NEW S \in SUBSET Cmd, NEW A \in SUBSET Cmd, CmdDone(S),
         \A c \in A : mid[c] # "timed_out" /\ ldm[c] = "none",
         mid' = ScsiDone(S \cup A), UNCHANGED <<kind, need, retries, mapped, eh>>
  PROVE  CmdInv'
<1>1. TypeOK /\ PerCommand /\ Balanced /\ Recovery
  BY InvParts
<1>2. /\ cmds' \in [Cmd -> 0 .. MaxNeed] /\ avail' \in 0 .. Pool /\ Balanced'
      /\ ldm' \in [Cmd -> {"none", "held", "dma"}] /\ dma' \in [Cmd -> BOOLEAN]
  BY <1>1, CmdDoneBalances
<1>3. \A c \in Cmd :
        /\ ldm'[c] = IF c \in S THEN "none" ELSE ldm[c]
        /\ cmds'[c] = IF c \in S THEN 0 ELSE cmds[c]
        /\ dma'[c] = (dma[c] /\ ~(c \in S /\ mapped[c]))
        /\ mid'[c] = IF c \in S \cup A /\ mid[c] # "timed_out" THEN "idle" ELSE mid[c]
  BY DEF CmdDone, ScsiDone
<1>4. mid' \in [Cmd -> {"idle", "queued", "requeued", "active", "timed_out"}]
  BY <1>1 DEF TypeOK, ScsiDone
<1>5. TypeOK'
  BY <1>1, <1>2, <1>4 DEF TypeOK
<1>6. PerCommand'
  BY <1>1, <1>3 DEF PerCommand, TypeOK
<1>7. Recovery'
  BY <1>1, <1>3 DEF Recovery
<1> QED
  BY <1>2, <1>5, <1>6, <1>7, InvParts

(* Every step keeps it.                                                    *)
LEMMA CmdInvKept == CmdInv /\ [Next]_vars => CmdInv'
<1> SUFFICES ASSUME CmdInv, [Next]_vars PROVE CmdInv'
  OBVIOUS
<1>0. TypeOK /\ PerCommand /\ Balanced /\ Recovery
  BY InvParts
<1>1. ASSUME NEW c \in Cmd, Issue(c) PROVE CmdInv'
  <2>1. PICK k \in Kinds, n \in 1 .. MaxNeed :
          kind' = [kind EXCEPT ![c] = k] /\ need' = [need EXCEPT ![c] = n]
    BY <1>1 DEF Issue
  <2>2. TypeOK'
    BY <1>0, <1>1, <2>1, ScsiCommandAssumption DEF Issue, TypeOK, ScsiCommandAssumption
  <2>3. PerCommand'
    BY <1>0, <1>1 DEF Issue, TypeOK, PerCommand
  <2>4. Balanced'
    BY <1>0, <1>1 DEF Issue, Balanced
  <2>5. Recovery'
    BY <1>0, <1>1 DEF Issue, TypeOK, Recovery
  <2> QED
    BY <2>2, <2>3, <2>4, <2>5, InvParts
<1>2. ASSUME NEW c \in Cmd, Answer(c) \/ Reject(c) PROVE CmdInv'
  <2>1. /\ mid' = ScsiDone({c}) /\ mid[c] \in {"queued", "requeued"}
        /\ UNCHANGED <<kind, need, retries, ldm, cmds, avail, mapped, dma, eh>>
    BY <1>2 DEF Answer, Reject, Sent
  <2>2. \A d \in Cmd : mid'[d] = IF d = c THEN "idle" ELSE mid[d]
    BY <2>1 DEF ScsiDone
  <2>3. TypeOK'
    BY <1>0, <2>1 DEF TypeOK, ScsiDone
  <2>4. PerCommand'
    BY <1>0, <2>1, <2>2 DEF PerCommand
  <2>5. Balanced'
    BY <1>0, <2>1 DEF Balanced
  <2>6. Recovery'
    BY <1>0, <2>1, <2>2 DEF Recovery
  <2> QED
    BY <2>3, <2>4, <2>5, <2>6, InvParts
<1>3. ASSUME NEW c \in Cmd, Start(c) PROVE CmdInv'
  <2>1. PICK S \in SUBSET InLdm : CmdDone(S) /\ mid' = ScsiDone(S \cup {c})
    BY <1>3 DEF Start
  <2>2. mid[c] \in {"queued", "requeued"} /\ UNCHANGED <<kind, need, retries, mapped, eh>>
    BY <1>3 DEF Start, Sent
  <2>3. ldm[c] = "none"
    BY <1>0, <2>2 DEF PerCommand
  <2>4. S \in SUBSET Cmd /\ {c} \in SUBSET Cmd
    BY DEF InLdm
  <2>5. \A d \in {c} : mid[d] # "timed_out" /\ ldm[d] = "none"
    BY <2>2, <2>3
  <2> QED
    BY <2>1, <2>2, <2>4, <2>5, DoneKeeps
<1>4. ASSUME NEW c \in Cmd, Busy(c) PROVE CmdInv'
  <2>1. /\ mid' = [mid EXCEPT ![c] = "requeued"] /\ mid[c] \in {"queued", "requeued"}
        /\ UNCHANGED <<kind, need, retries, ldm, cmds, avail, mapped, dma, eh>>
    BY <1>4 DEF Busy, Sent
  <2>2. TypeOK'
    BY <1>0, <2>1 DEF TypeOK
  <2>3. PerCommand'
    BY <1>0, <2>1 DEF PerCommand, TypeOK
  <2>4. Balanced'
    BY <1>0, <2>1 DEF Balanced
  <2>5. Recovery'
    BY <1>0, <2>1 DEF Recovery, TypeOK
  <2> QED
    BY <2>2, <2>3, <2>4, <2>5, InvParts
<1>5. ASSUME NEW c \in Cmd, Queue(c) PROVE CmdInv'
  <2>1. /\ mid[c] \in {"queued", "requeued"} /\ \A d \in Cmd : mid[d] # "timed_out"
        /\ mapped' = [mapped EXCEPT ![c] = FALSE]
        /\ ldm' = [ldm EXCEPT ![c] = "held"]
        /\ mid' = [mid EXCEPT ![c] = "active"]
        /\ UNCHANGED <<kind, need, retries, dma, eh>>
    BY <1>5 DEF Queue, Sent
  <2>2. AllocCmds(c)
    BY <1>5 DEF Queue, AllocCmds
  <2>3. ldm[c] = "none" /\ cmds[c] = 0 /\ ~dma[c]
    BY <1>0, <2>1 DEF PerCommand
  <2>4. cmds' \in [Cmd -> 0 .. MaxNeed] /\ avail' \in 0 .. Pool /\ Balanced'
    BY <1>0, <2>2, <2>3, AllocBalances
  <2>5. TypeOK'
    BY <1>0, <2>1, <2>4 DEF TypeOK
  <2>6. PerCommand'
    <3>1. ASSUME NEW d \in Cmd, d # c
          PROVE  /\ mid'[d] = mid[d] /\ ldm'[d] = ldm[d] /\ cmds'[d] = cmds[d]
                 /\ dma'[d] = dma[d] /\ mapped'[d] = mapped[d]
      BY <1>0, <2>1, <2>2, <3>1 DEF TypeOK, AllocCmds
    <3>2. mid'[c] = "active" /\ ldm'[c] = "held" /\ mapped'[c] = FALSE /\ dma'[c] = FALSE
      BY <1>0, <2>1, <2>3 DEF TypeOK
    <3> QED
      BY <1>0, <3>1, <3>2 DEF PerCommand
  <2>7. Recovery'
    BY <1>0, <2>1 DEF Recovery
  <2> QED
    BY <2>4, <2>5, <2>6, <2>7, InvParts
<1>6. ASSUME NEW c \in Cmd, BuildSgl(c) PROVE CmdInv'
  <2>1. ldm[c] # "none" /\ UNCHANGED <<mid, kind, need, retries, cmds, avail, eh>>
    BY <1>6 DEF BuildSgl
  <2>2. Balanced' /\ Recovery'
    BY <1>0, <2>1 DEF Balanced, Recovery
  <2>3. CASE UNCHANGED <<ldm, mapped, dma>>
    BY <1>0, <2>1, <2>2, <2>3, InvParts DEF TypeOK, PerCommand
  <2>4. CASE /\ mapped' = [mapped EXCEPT ![c] = TRUE]
             /\ dma' = [dma EXCEPT ![c] = dma[c] \/ ~mapped[c]]
             /\ ldm' \in {ldm, [ldm EXCEPT ![c] = "dma"]}
    <3>1. mapped[c] = dma[c]
      BY <1>0, <2>1 DEF PerCommand
    <3>2. (dma[c] \/ ~mapped[c]) = TRUE
      BY <3>1
    <3>3. dma' = [dma EXCEPT ![c] = TRUE]
      BY <2>4, <3>2
    <3>4. TypeOK'
      BY <1>0, <2>1, <2>4, <3>3 DEF TypeOK
    <3>5. ASSUME NEW d \in Cmd, d # c
          PROVE  ldm'[d] = ldm[d] /\ dma'[d] = dma[d] /\ mapped'[d] = mapped[d]
      BY <1>0, <2>4, <3>3, <3>5 DEF TypeOK
    <3>6. ldm'[c] # "none" /\ mapped'[c] = TRUE /\ dma'[c] = TRUE
      BY <1>0, <2>1, <2>4, <3>3 DEF TypeOK
    <3>7. PerCommand'
      BY <1>0, <2>1, <3>5, <3>6 DEF PerCommand
    <3> QED
      BY <2>2, <3>4, <3>7, InvParts
  <2> QED
    BY <1>6, <2>3, <2>4 DEF BuildSgl
<1>7. ASSUME NEW c \in Cmd, TransferEnds(c) PROVE CmdInv'
  <2>1. /\ ldm[c] = "dma" /\ ldm' = [ldm EXCEPT ![c] = "held"]
        /\ UNCHANGED <<mid, kind, need, retries, cmds, avail, mapped, dma, eh>>
    BY <1>7 DEF TransferEnds
  <2>2. TypeOK' /\ Balanced' /\ Recovery'
    BY <1>0, <2>1 DEF TypeOK, Balanced, Recovery
  <2>3. PerCommand'
    BY <1>0, <2>1 DEF PerCommand, TypeOK
  <2> QED
    BY <2>2, <2>3, InvParts
<1>8. ASSUME NEW c \in Cmd, Complete(c) PROVE CmdInv'
  <2>1. /\ CmdDone({c}) /\ mid' = ScsiDone({c} \cup {})
        /\ UNCHANGED <<kind, need, retries, mapped, eh>>
    BY <1>8 DEF Complete
  <2>2. {c} \in SUBSET Cmd /\ {} \in SUBSET Cmd
    OBVIOUS
  <2> QED
    BY <2>1, <2>2, DoneKeeps
<1>9. ASSUME NEW c \in Cmd, TimeOut(c) PROVE CmdInv'
  <2>1. /\ mid[c] = "active" /\ mid' = [mid EXCEPT ![c] = "timed_out"]
        /\ UNCHANGED <<kind, need, retries, ldm, cmds, avail, mapped, dma, eh>>
    BY <1>9 DEF TimeOut
  <2>2. TypeOK' /\ Balanced'
    BY <1>0, <2>1 DEF TypeOK, Balanced
  <2>3. PerCommand'
    BY <1>0, <2>1 DEF PerCommand, TypeOK
  <2>4. Recovery'
    BY <1>0, <2>1 DEF Recovery, TypeOK
  <2> QED
    BY <2>2, <2>3, <2>4, InvParts
<1>10. CASE StartRecovery
  <2>1. UNCHANGED <<mid, kind, need, retries, ldm, cmds, avail, mapped, dma>> /\ eh' = TRUE
    BY <1>10 DEF StartRecovery
  <2>2. TypeOK' /\ Balanced' /\ PerCommand'
    BY <1>0, <2>1 DEF TypeOK, Balanced, PerCommand
  <2>3. Recovery'
    BY <1>10 DEF StartRecovery, Recovery
  <2> QED
    BY <2>2, <2>3, InvParts
<1>11. CASE ResetVbus
  <2>1. PICK S \in SUBSET InLdm : CmdDone(S) /\ mid' = ScsiDone(S \cup {})
    BY <1>11 DEF ResetVbus
  <2>2. S \in SUBSET Cmd /\ {} \in SUBSET Cmd
    BY DEF InLdm
  <2>3. UNCHANGED <<kind, need, retries, mapped, eh>>
    BY <1>11 DEF ResetVbus
  <2> QED
    BY <2>1, <2>2, <2>3, DoneKeeps
<1>12. CASE ResetSucceeds
  <2>1. /\ eh /\ CmdDone(InLdm) /\ TakeBack /\ UNCHANGED <<kind, need, mapped>>
    BY <1>12 DEF ResetSucceeds
  <2>2. InLdm \in SUBSET Cmd
    BY DEF InLdm
  <2>3. /\ cmds' \in [Cmd -> 0 .. MaxNeed] /\ avail' \in 0 .. Pool /\ Balanced'
        /\ ldm' \in [Cmd -> {"none", "held", "dma"}] /\ dma' \in [Cmd -> BOOLEAN]
    BY <1>0, <2>1, <2>2, CmdDoneBalances
  <2>4. /\ mid' \in [Cmd -> {"idle", "queued", "requeued"}] /\ eh' = FALSE
        /\ retries' = [c \in Cmd |-> IF mid[c] = "timed_out" /\ mid'[c] = "queued"
                                     THEN retries[c] + 1 ELSE retries[c]]
        /\ \A c \in Cmd : mid[c] = "timed_out" /\ mid'[c] = "queued" => retries[c] < MaxRetries
    BY <2>1 DEF TakeBack
  <2>5. retries' \in [Cmd -> 0 .. MaxRetries]
    BY <1>0, <2>4, ScsiCommandAssumption DEF TypeOK, ScsiCommandAssumption
  <2>6. TypeOK'
    BY <1>0, <2>1, <2>3, <2>4, <2>5 DEF TypeOK
  <2>7. \A c \in Cmd : ldm'[c] = "none" /\ cmds'[c] = 0 /\ ~dma'[c]
    <3>1. ASSUME NEW c \in Cmd, c \in InLdm PROVE ldm'[c] = "none" /\ cmds'[c] = 0 /\ ~dma'[c]
      BY <1>0, <2>1, <3>1 DEF CmdDone, InLdm, PerCommand
    <3>2. ASSUME NEW c \in Cmd, c \notin InLdm PROVE ldm'[c] = "none" /\ cmds'[c] = 0 /\ ~dma'[c]
      BY <1>0, <2>1, <3>2 DEF CmdDone, InLdm, PerCommand
    <3> QED
      BY <3>1, <3>2
  <2>8. PerCommand'
    BY <2>4, <2>7 DEF PerCommand
  <2>9. Recovery'
    BY <2>4 DEF Recovery
  <2> QED
    BY <2>3, <2>6, <2>8, <2>9, InvParts
<1>13. CASE UNCHANGED vars
  <2>1. TypeOK' /\ Balanced' /\ PerCommand' /\ Recovery'
    BY <1>0, <1>13 DEF vars, TypeOK, Balanced, PerCommand, Recovery
  <2> QED
    BY <2>1, InvParts
<1> QED
  BY <1>1, <1>2, <1>3, <1>4, <1>5, <1>6, <1>7, <1>8, <1>9, <1>10, <1>11, <1>12, <1>13
     DEF Next, QueueCommand

(* It holds in every reachable state.                                      *)
LEMMA CmdInvariant == Spec => []CmdInv
<1>1. Init => CmdInv
  <2> SUFFICES ASSUME Init PROVE CmdInv
    OBVIOUS
  <2>1. Balanced
    <3>1. IsFiniteSet(Cmd) /\ Pool \in Nat /\ \A c \in Cmd : cmds[c] = 0
      BY ScsiCommandAssumption DEF ScsiCommandAssumption, Init
    <3>2. Total(cmds, Cmd) = 0
      BY <3>1, TotalZero
    <3> QED
      BY <3>1, <3>2 DEF Balanced, Init
  <2>2. TypeOK
    <3>1. 1 \in 1 .. MaxNeed /\ 0 \in 0 .. MaxNeed /\ 0 \in 0 .. MaxRetries /\ Pool \in 0 .. Pool
      BY ScsiCommandAssumption DEF ScsiCommandAssumption
    <3>2. /\ need \in [Cmd -> 1 .. MaxNeed] /\ cmds \in [Cmd -> 0 .. MaxNeed]
          /\ retries \in [Cmd -> 0 .. MaxRetries]
      BY <3>1 DEF Init
    <3>3. kind \in [Cmd -> Kinds]
      BY DEF Init, Kinds
    <3> QED
      BY <3>1, <3>2, <3>3 DEF Init, TypeOK
  <2>3. PerCommand /\ Recovery
    BY DEF Init, PerCommand, Recovery
  <2> QED
    BY <2>1, <2>2, <2>3, InvParts
<1> QED
  BY <1>1, CmdInvKept, PTL DEF Spec

(* No command is lost between the mid layer and the LDM, nor completed     *)
(* while the LDM still has it, with any number of commands, timeouts and   *)
(* resets at the same time.                                                *)
THEOREM CommandsAreAccounted == Spec => []Accounted
<1>1. CmdInv => Accounted
  BY DEF CmdInv
<1> QED
  BY <1>1, CmdInvariant, PTL

(* Whatever ends a command, its COMMANDs and its DMA mapping are given     *)
(* back, and the COMMANDs in the freelist and in use are always as many as *)
(* were made.                                                              *)
THEOREM CommandsLeakNothing == Spec => []NothingLeaks
<1>1. CmdInv => NothingLeaks
  BY DEF CmdInv
<1> QED
  BY <1>1, CmdInvariant, PTL

(* The adapter never transfers into a buffer that is not mapped, and       *)
(* os_cmddone unmaps exactly what was mapped.                              *)
THEOREM TransfersAreMapped == Spec => []DmaOnlyMapped
<1>1. CmdInv => DmaOnlyMapped
  BY DEF CmdInv
<1> QED
  BY <1>1, CmdInvariant, PTL

-----------------------------------------------------------------------------
(* The scatter/gather list (SgList).                                       *)

(* What a chosen list of segments looks like.                              *)
LEMMA SegmentsTyped ==
  ASSUME segs \in Inputs
  PROVE  /\ Len(segs) \in Nat
         /\ \A i \in 1 .. Len(segs) : /\ segs[i].addr \in Nat
                                      /\ segs[i].len \in Nat \ {0}
<1>1. segs \in Seq([addr : Nat, len : Nat \ {0}])
  BY SgListAssumption DEF SgListAssumption
<1>2. \A i \in 1 .. Len(segs) : segs[i] \in [addr : Nat, len : Nat \ {0}]
  BY <1>1, ElementOfSeq
<1> QED
  BY <1>1, <1>2, LenProperties

(* The types are preserved by every step.                                  *)
THEOREM SgTypeCorrect == SgSpec => []SgTypeOK
<1>1. SgInit => SgTypeOK
  BY SegmentsTyped DEF SgInit, SgTypeOK
<1>2. SgTypeOK /\ [SgNext]_sgVars => SgTypeOK'
  <2> SUFFICES ASSUME SgTypeOK, [SgNext]_sgVars PROVE SgTypeOK'
    OBVIOUS
  <2>0. Len(segs) \in Nat /\ idx \in Nat /\ idx <= Len(segs)
    BY SegmentsTyped DEF SgTypeOK
  <2>1. ASSUME Building PROVE /\ idx + 1 \in 1 .. Len(segs)
                              /\ Segment.addr \in Nat /\ Segment.len \in Nat
    BY <2>0, <2>1, SegmentsTyped DEF Building, Segment, SgTypeOK
  <2>2. ASSUME Building, AddDescriptor
        PROVE  /\ psg' \in Seq(Descriptor)
               /\ first' \in Seq(1 .. Len(segs))
               /\ Len(psg') = Len(psg) + 1 /\ Len(first') = Len(first) + 1
               /\ idx' \in 0 .. Len(segs) /\ idx' = idx + 1
    <3> DEFINE d == [addr |-> Segment.addr, size |-> Segment.len, eot |-> IsLast]
    <3>1. d \in Descriptor
      BY <2>1, <2>2 DEF Descriptor, IsLast
    <3>2. psg' = Append(psg, d) /\ first' = Append(first, idx + 1) /\ idx' = idx + 1
      BY <2>2 DEF AddDescriptor
    <3> QED
      BY <2>0, <2>1, <2>2, <3>1, <3>2, AppendProperties DEF SgTypeOK
  <2>3. CASE CopyLogical
    BY <2>0, <2>2, <2>3 DEF CopyLogical, SgTypeOK
  <2>4. CASE NewDescriptor
    <3>1. /\ Building /\ AddDescriptor
          /\ last' = Segment.addr + Segment.len
          /\ UNCHANGED <<logical, segs, result>>
      BY <2>4 DEF NewDescriptor
    <3>2. last' \in Nat
      BY <2>1, <3>1
    <3>3. Len(first') = Len(psg') /\ Len(psg') <= idx'
      BY <2>0, <2>2, <3>1, LenProperties DEF SgTypeOK
    <3>4. Len(psg') > 0
      BY <2>2, <3>1, LenProperties DEF SgTypeOK
    <3> QED
      BY <2>2, <3>1, <3>2, <3>3, <3>4 DEF SgTypeOK
  <2>5. CASE Merge
    <3>1. Building /\ Mergeable /\ psg' = [psg EXCEPT ![Len(psg)] = Grown(IsLast)]
      BY <2>5 DEF Merge
    <3>2. Len(psg) \in 1 .. Len(psg) /\ Current \in Descriptor
      BY <2>0, <3>1, ElementOfSeq, LenProperties DEF Mergeable, Current, SgTypeOK
    <3>3. Grown(IsLast) \in Descriptor
      BY <2>1, <3>1, <3>2 DEF Grown, Descriptor, IsLast
    <3>4. psg' \in Seq(Descriptor) /\ Len(psg') = Len(psg)
      BY <3>1, <3>2, <3>3, ExceptSeq DEF SgTypeOK
    <3> QED
      BY <2>0, <2>1, <2>5, <3>1, <3>4 DEF Merge, SgTypeOK
  <2>6. CASE Refuse
    BY <2>6 DEF Refuse, SgTypeOK
  <2>7. CASE Return
    BY <2>7 DEF Return, SgTypeOK
  <2>8. CASE UNCHANGED sgVars
    BY <2>8 DEF sgVars, SgTypeOK
  <2> QED
    BY <2>3, <2>4, <2>5, <2>6, <2>7, <2>8 DEF SgNext
<1> QED
  BY <1>1, <1>2, PTL DEF SgSpec

(* last is the end of the segment before; with it the three invariants     *)
(* are inductive.                                                          *)
LastIsEnd == ~logical /\ idx > 0 => last = End(segs[idx])
ListInv == SameBytes /\ EotAtEnd /\ Transferable /\ LastIsEnd

(* What a new descriptor leaves as it is, and what it adds.                *)
LEMMA Added ==
  ASSUME SgTypeOK, Building, AddDescriptor, segs' = segs
  PROVE  /\ idx' = idx + 1 /\ idx \in Nat /\ Len(psg) \in Nat
         /\ Len(psg') = Len(psg) + 1
         /\ \A k \in 1 .. Len(psg) : /\ psg'[k] = psg[k] /\ first'[k] = first[k]
                                      /\ LastOf(k)' = LastOf(k)
         /\ psg'[Len(psg) + 1] = [addr |-> Segment.addr, size |-> Segment.len,
                                  eot |-> IsLast]
         /\ first'[Len(psg) + 1] = idx + 1
         /\ \A k : k = Len(psg) + 1 => LastOf(k)' = idx + 1
<1> DEFINE d == [addr |-> Segment.addr, size |-> Segment.len, eot |-> IsLast]
<1>1. /\ idx \in Nat /\ Len(segs) \in Nat /\ idx < Len(segs)
      /\ Len(psg) \in Nat /\ Len(first) = Len(psg)
  BY SegmentsTyped, LenProperties DEF SgTypeOK, Building
<1>2. Segment.addr \in Nat /\ Segment.len \in Nat
  BY <1>1, SegmentsTyped DEF Segment, SgTypeOK
<1>3. d \in Descriptor
  BY <1>2 DEF Descriptor, IsLast
<1>4. psg' = Append(psg, d) /\ first' = Append(first, idx + 1) /\ idx' = idx + 1
  BY DEF AddDescriptor
<1>5. /\ Len(psg') = Len(psg) + 1 /\ psg'[Len(psg) + 1] = d
      /\ \A k \in 1 .. Len(psg) : psg'[k] = psg[k]
  BY <1>3, <1>4, AppendProperties DEF SgTypeOK
<1>6. idx + 1 \in 1 .. Len(segs)
  BY <1>1
<1>7. /\ first'[Len(psg) + 1] = idx + 1
      /\ \A k \in 1 .. Len(psg) : first'[k] = first[k]
  BY <1>1, <1>4, <1>6, AppendProperties DEF SgTypeOK
<1>8. \A k : k = Len(psg) + 1 => LastOf(k)' = idx + 1
  BY <1>1, <1>4, <1>5 DEF LastOf
<1>9. \A k \in 1 .. Len(psg) : LastOf(k)' = LastOf(k)
  <2> SUFFICES ASSUME NEW k \in 1 .. Len(psg) PROVE LastOf(k)' = LastOf(k)
    OBVIOUS
  <2>1. CASE k = Len(psg)
    BY <1>1, <1>5, <1>7, <2>1 DEF LastOf
  <2>2. CASE k < Len(psg)
    BY <1>1, <1>5, <1>7, <2>2 DEF LastOf
  <2> QED
    BY <1>1, <2>1, <2>2
<1> QED
  BY <1>1, <1>4, <1>5, <1>7, <1>8, <1>9

(* What merging a segment into the last descriptor changes.                *)
LEMMA Merged ==
  ASSUME SgTypeOK, Merge
  PROVE  /\ idx' = idx + 1 /\ idx \in Nat /\ Len(psg) \in Nat \ {0}
         /\ Len(psg') = Len(psg) /\ first' = first /\ segs' = segs
         /\ \A k \in 1 .. Len(psg) - 1 : psg'[k] = psg[k] /\ LastOf(k)' = LastOf(k)
         /\ psg'[Len(psg)] = Grown(IsLast)
         /\ \A k : k = Len(psg) => LastOf(k) = idx /\ LastOf(k)' = idx + 1
<1>1. /\ idx \in Nat /\ Len(segs) \in Nat /\ idx < Len(segs) /\ idx > 0
      /\ Len(psg) \in Nat \ {0}
  BY SegmentsTyped, LenProperties DEF SgTypeOK, Building, Merge, Mergeable
<1>2. Segment.addr \in Nat /\ Segment.len \in Nat
  BY <1>1, SegmentsTyped DEF Segment, SgTypeOK
<1>3. Current \in Descriptor
  BY <1>1, ElementOfSeq DEF Current, SgTypeOK
<1>4. Grown(IsLast) \in Descriptor
  BY <1>2, <1>3 DEF Grown, Descriptor, IsLast
<1>5. /\ psg' = [psg EXCEPT ![Len(psg)] = Grown(IsLast)]
      /\ idx' = idx + 1 /\ first' = first /\ segs' = segs
  BY DEF Merge
<1>6. /\ Len(psg') = Len(psg) /\ psg'[Len(psg)] = Grown(IsLast)
      /\ \A k \in 1 .. Len(psg) - 1 : psg'[k] = psg[k]
  BY <1>1, <1>4, <1>5, ExceptSeq DEF SgTypeOK
<1>7. \A k : k = Len(psg) => LastOf(k) = idx /\ LastOf(k)' = idx + 1
  BY <1>1, <1>5, <1>6 DEF LastOf
<1>8. \A k \in 1 .. Len(psg) - 1 : LastOf(k)' = LastOf(k)
  <2> SUFFICES ASSUME NEW k \in 1 .. Len(psg) - 1 PROVE LastOf(k)' = LastOf(k)
    OBVIOUS
  <2>1. k # Len(psg) /\ k # Len(psg')
    BY <1>1, <1>6
  <2>2. LastOf(k) = first[k + 1] - 1 /\ LastOf(k)' = first'[k + 1] - 1
    BY <2>1 DEF LastOf
  <2> QED
    BY <1>5, <2>2
<1> QED
  BY <1>1, <1>5, <1>6, <1>7, <1>8

(* For any input: the list names the bytes of the segments, its end is     *)
(* marked once and at the end, and the adapter can take every descriptor.  *)
THEOREM ListIsRight == SgSpec => [](SameBytes /\ EotAtEnd /\ Transferable)
<1>1. SgInit => ListInv
  <2> SUFFICES ASSUME SgInit PROVE ListInv
    OBVIOUS
  <2>1. idx = 0 /\ psg = <<>> /\ 1 .. Len(psg) = {}
    BY DEF SgInit
  <2> QED
    BY <2>1 DEF ListInv, SameBytes, EotAtEnd, Transferable, LastIsEnd
<1>2. SgTypeOK /\ SgTypeOK' /\ ListInv /\ [SgNext]_sgVars => ListInv'
  <2> SUFFICES ASSUME SgTypeOK, SgTypeOK', ListInv, [SgNext]_sgVars PROVE ListInv'
    OBVIOUS
  <2>0. Len(segs) \in Nat /\ idx \in Nat /\ Len(psg) \in Nat
    BY SegmentsTyped, LenProperties DEF SgTypeOK
  <2>1. ASSUME Building PROVE /\ Segment = segs[idx + 1] /\ idx + 1 \in 1 .. Len(segs)
                              /\ Segment.addr \in Nat /\ Segment.len \in Nat \ {0}
    BY <2>0, <2>1, SegmentsTyped DEF Building, Segment, SgTypeOK
  <2>2. ASSUME Building, AddDescriptor, segs' = segs PROVE SameBytes' /\ EotAtEnd'
    <3>0. /\ 1 .. Len(psg') = (1 .. Len(psg)) \cup {Len(psg) + 1}
          /\ Len(psg') = Len(psg) + 1 /\ Len(psg) + 1 \notin 1 .. Len(psg)
      BY <2>0, <2>2, Added
    <3>1. SameBytes'
      <4>1. first'[1] = 1
        <5>1. CASE idx = 0
          BY <2>0, <2>2, <5>1, Added DEF SgTypeOK
        <5>2. CASE idx > 0
          <6>1. first[1] = 1 /\ 1 \in 1 .. Len(psg)
            BY <2>0, <5>2 DEF SgTypeOK, ListInv, SameBytes
          <6>2. \A k \in 1 .. Len(psg) : first'[k] = first[k]
            BY <2>2, Added
          <6> QED
            BY <6>1, <6>2
        <5> QED
          BY <2>0, <5>1, <5>2
      <4>2. \A k \in 1 .. Len(psg) :
              /\ first'[k] <= LastOf(k)'
              /\ psg'[k].addr = segs'[first'[k]].addr
              /\ psg'[k].addr + psg'[k].size = End(segs'[LastOf(k)'])
              /\ \A i \in first'[k] + 1 .. LastOf(k)' : segs'[i].addr = End(segs'[i - 1])
        BY <2>2, Added DEF ListInv, SameBytes
      <4>3. ASSUME NEW k, k = Len(psg) + 1
            PROVE  /\ first'[k] <= LastOf(k)'
                   /\ psg'[k].addr = segs'[first'[k]].addr
                   /\ psg'[k].addr + psg'[k].size = End(segs'[LastOf(k)'])
                   /\ \A i \in first'[k] + 1 .. LastOf(k)' : segs'[i].addr = End(segs'[i - 1])
        <5>1. first'[k] = idx + 1 /\ LastOf(k)' = idx + 1 /\ first'[k] + 1 .. LastOf(k)' = {}
          BY <2>0, <2>2, <4>3, Added
        <5>2. psg'[k].addr = Segment.addr /\ psg'[k].size = Segment.len
          BY <2>2, <4>3, Added
        <5> QED
          BY <2>0, <2>1, <2>2, <5>1, <5>2 DEF End
      <4> QED
        BY <3>0, <4>1, <4>2, <4>3 DEF SameBytes, End
    <3>2. EotAtEnd'
      <4>1. \A k \in 1 .. Len(psg) : ~psg'[k].eot
        BY <2>0, <2>2, Added DEF ListInv, EotAtEnd, Building
      <4>2. psg'[Len(psg) + 1].eot = IsLast
        BY <2>2, Added
      <4>3. IsLast <=> idx' = Len(segs')
        BY <2>0, <2>2, Added DEF IsLast
      <4> QED
        BY <2>0, <3>0, <4>1, <4>2, <4>3, Added, <2>2 DEF EotAtEnd
    <3> QED
      BY <3>1, <3>2
  <2>3. CASE CopyLogical
    <3>1. /\ Building /\ AddDescriptor /\ logical
          /\ segs' = segs /\ logical' = logical /\ last' = last
      BY <2>3 DEF CopyLogical
    <3> QED
      BY <2>2, <3>1 DEF ListInv, Transferable, LastIsEnd
  <2>4. CASE NewDescriptor
    <3>1. /\ Building /\ AddDescriptor /\ ~logical
          /\ segs' = segs /\ logical' = logical
          /\ last' = Segment.addr + Segment.len
      BY <2>4 DEF NewDescriptor
    <3>2. Segment.addr % 2 = 0 /\ Segment.len % 2 = 0
      BY <2>4 DEF NewDescriptor
    <3>3. LastIsEnd'
      BY <2>1, <3>1, Added DEF LastIsEnd, End
    <3>4. \A k \in 1 .. Len(psg') :
            /\ psg'[k].addr % 2 = 0 /\ psg'[k].size % 2 = 0
            /\ first'[k] < LastOf(k)' => psg'[k].size <= Limit
            /\ Crosses(psg'[k].addr, psg'[k].size) =>
                 \E i \in first'[k] .. LastOf(k)' : Crosses(segs'[i].addr, segs'[i].len)
      <4>1. ASSUME NEW k \in 1 .. Len(psg)
            PROVE  /\ psg'[k].addr % 2 = 0 /\ psg'[k].size % 2 = 0
                   /\ first'[k] < LastOf(k)' => psg'[k].size <= Limit
                   /\ Crosses(psg'[k].addr, psg'[k].size) =>
                        \E i \in first'[k] .. LastOf(k)' : Crosses(segs'[i].addr, segs'[i].len)
        BY <3>1, <4>1, Added DEF ListInv, Transferable
      <4>2. ASSUME NEW k, k = Len(psg) + 1
            PROVE  /\ psg'[k].addr % 2 = 0 /\ psg'[k].size % 2 = 0
                   /\ first'[k] < LastOf(k)' => psg'[k].size <= Limit
                   /\ Crosses(psg'[k].addr, psg'[k].size) =>
                        \E i \in first'[k] .. LastOf(k)' : Crosses(segs'[i].addr, segs'[i].len)
        <5>1. psg'[k].addr = Segment.addr /\ psg'[k].size = Segment.len
          BY <3>1, <4>2, Added
        <5>2. first'[k] = idx + 1 /\ LastOf(k)' = idx + 1 /\ idx + 1 \in first'[k] .. LastOf(k)'
          BY <2>0, <3>1, <4>2, Added
        <5> QED
          BY <2>0, <2>1, <3>1, <3>2, <5>1, <5>2
      <4>3. 1 .. Len(psg') = (1 .. Len(psg)) \cup {Len(psg) + 1}
        BY <2>0, <3>1, Added
      <4> QED
        BY <4>1, <4>2, <4>3
    <3> QED
      BY <2>2, <3>1, <3>3, <3>4 DEF ListInv, Transferable, Crosses
  <2>5. CASE Merge
    <3>0. /\ Building /\ Mergeable /\ ~logical /\ logical' = logical
          /\ last' = last + Segment.len
      BY <2>5 DEF Merge
    <3>1. /\ idx > 0 /\ last = Segment.addr /\ Current.size + Segment.len <= Limit
          /\ Segment.addr \notin Boundaries
          /\ (Current.size + Segment.len) % 2 = 0
      BY <2>5 DEF Merge, Mergeable
    <3>2. /\ Len(psg) \in 1 .. Len(psg) /\ Current = psg[Len(psg)]
          /\ Current.addr \in Nat /\ Current.size \in Nat
      <4>1. Len(psg) \in 1 .. Len(psg)
        BY <2>0, <2>5, Merged
      <4>2. Current = psg[Len(psg)] /\ Current \in Descriptor
        BY <4>1, ElementOfSeq DEF Current, SgTypeOK
      <4> QED
        BY <4>1, <4>2 DEF Descriptor
    <3>3. segs[idx + 1].addr = End(segs[idx])
      BY <2>1, <3>0, <3>1 DEF ListInv, LastIsEnd
    <3>4. /\ Len(psg') = Len(psg)
          /\ 1 .. Len(psg') = (1 .. Len(psg) - 1) \cup {Len(psg)}
      BY <2>0, <2>5, Merged
    <3>5. /\ psg'[Len(psg)].addr = Current.addr
          /\ psg'[Len(psg)].size = Current.size + Segment.len
          /\ psg'[Len(psg)].eot = IsLast
      BY <2>5, Merged DEF Grown
    <3>6. ASSUME NEW k, k = Len(psg)
          PROVE  /\ LastOf(k) = idx /\ LastOf(k)' = idx + 1 /\ first'[k] = first[k]
                 /\ k \in 1 .. Len(psg) /\ first[k] \in Nat /\ first[k] <= idx
                 /\ Current.addr = segs[first[k]].addr
                 /\ Current.addr + Current.size = End(segs[idx])
                 /\ \A i \in first[k] + 1 .. idx : segs[i].addr = End(segs[i - 1])
      <4>1. LastOf(k) = idx /\ LastOf(k)' = idx + 1 /\ first' = first /\ k \in 1 .. Len(psg)
        BY <2>5, <3>2, <3>6, Merged
      <4>2. first[k] \in 1 .. Len(segs)
        BY <4>1, ElementOfSeq DEF SgTypeOK
      <4>3. /\ first[k] <= LastOf(k) /\ psg[k].addr = segs[first[k]].addr
            /\ psg[k].addr + psg[k].size = End(segs[LastOf(k)])
            /\ \A i \in first[k] + 1 .. LastOf(k) : segs[i].addr = End(segs[i - 1])
        BY <4>1 DEF ListInv, SameBytes
      <4> QED
        BY <2>0, <3>2, <3>6, <4>1, <4>2, <4>3
    <3>7. SameBytes'
      <4>1. first'[1] = 1
        BY <2>5, <3>1, Merged DEF ListInv, SameBytes
      <4>2. \A k \in 1 .. Len(psg) - 1 :
              /\ first'[k] <= LastOf(k)'
              /\ psg'[k].addr = segs'[first'[k]].addr
              /\ psg'[k].addr + psg'[k].size = End(segs'[LastOf(k)'])
              /\ \A i \in first'[k] + 1 .. LastOf(k)' : segs'[i].addr = End(segs'[i - 1])
        BY <2>5, <3>4, Merged DEF ListInv, SameBytes
      <4>3. ASSUME NEW k, k = Len(psg)
            PROVE  /\ first'[k] <= LastOf(k)'
                   /\ psg'[k].addr = segs'[first'[k]].addr
                   /\ psg'[k].addr + psg'[k].size = End(segs'[LastOf(k)'])
                   /\ \A i \in first'[k] + 1 .. LastOf(k)' : segs'[i].addr = End(segs'[i - 1])
        <5>1. psg'[k].addr + psg'[k].size = End(segs[idx + 1])
          BY <2>1, <3>0, <3>2, <3>3, <3>5, <3>6, <4>3 DEF End
        <5>2. segs' = segs
          BY <2>5, Merged
        <5>3. \A i \in first[k] + 1 .. idx + 1 : segs[i].addr = End(segs[i - 1])
          <6> SUFFICES ASSUME NEW i \in first[k] + 1 .. idx + 1
                       PROVE  segs[i].addr = End(segs[i - 1])
            OBVIOUS
          <6>1. CASE i = idx + 1
            <7>1. i - 1 = idx
              BY <2>0, <6>1
            <7> QED
              BY <3>3, <6>1, <7>1
          <6>2. CASE i \in first[k] + 1 .. idx
            BY <3>6, <4>3, <6>2
          <6> QED
            BY <2>0, <3>6, <4>3, <6>1, <6>2
        <5>4. psg'[k].addr = segs[first[k]].addr
          BY <3>5, <3>6, <4>3
        <5> QED
          BY <2>0, <3>6, <4>3, <5>1, <5>2, <5>3, <5>4
      <4> QED
        BY <3>4, <4>1, <4>2, <4>3 DEF SameBytes, End
    <3>8. EotAtEnd'
      <4>1. \A k \in 1 .. Len(psg) - 1 : ~psg'[k].eot
        BY <2>0, <2>5, <3>0, <3>4, Merged DEF ListInv, EotAtEnd, Building
      <4>2. IsLast <=> idx' = Len(segs')
        BY <2>0, <2>5, Merged DEF IsLast
      <4> QED
        BY <2>0, <3>4, <3>5, <4>1, <4>2 DEF EotAtEnd
    <3>9. LastIsEnd'
      BY <2>1, <2>5, <3>0, <3>1, Merged DEF LastIsEnd, End
    <3>10. Transferable'
      <4>1. ASSUME NEW k \in 1 .. Len(psg) - 1
            PROVE  /\ psg'[k].addr % 2 = 0 /\ psg'[k].size % 2 = 0
                   /\ first'[k] < LastOf(k)' => psg'[k].size <= Limit
                   /\ Crosses(psg'[k].addr, psg'[k].size) =>
                        \E i \in first'[k] .. LastOf(k)' : Crosses(segs'[i].addr, segs'[i].len)
        BY <2>5, <3>0, <3>4, <4>1, Merged DEF ListInv, Transferable
      <4>2. ASSUME NEW k, k = Len(psg)
            PROVE  /\ psg'[k].addr % 2 = 0 /\ psg'[k].size % 2 = 0
                   /\ first'[k] < LastOf(k)' => psg'[k].size <= Limit
                   /\ Crosses(psg'[k].addr, psg'[k].size) =>
                        \E i \in first'[k] .. LastOf(k)' : Crosses(segs'[i].addr, segs'[i].len)
        <5>1. Current.addr % 2 = 0
          BY <3>0, <3>2 DEF ListInv, Transferable
        <5>2. ASSUME Crosses(psg'[k].addr, psg'[k].size)
              PROVE  \E i \in first'[k] .. LastOf(k)' : Crosses(segs'[i].addr, segs'[i].len)
          <6>1. segs' = segs
            BY <2>5, Merged
          <6>2. Current.addr + Current.size = Segment.addr
            BY <2>1, <3>0, <3>3, <3>6, <4>2
          <6>0. /\ psg'[k].addr = Current.addr
                /\ psg'[k].addr + psg'[k].size = Segment.addr + Segment.len
            BY <2>1, <3>0, <3>2, <3>5, <4>2, <6>2
          <6>3. PICK b \in Boundaries : /\ Current.addr < b
                                        /\ b < Segment.addr + Segment.len
            BY <5>2, <6>0 DEF Crosses
          <6>4. b \in Nat /\ b # Segment.addr
            BY <3>1, <6>3, SgListAssumption DEF SgListAssumption
          <6>5. CASE b < Segment.addr
            <7>1. Crosses(Current.addr, Current.size)
              BY <6>2, <6>3, <6>5 DEF Crosses
            <7>2. \E i \in first[k] .. LastOf(k) : Crosses(segs[i].addr, segs[i].len)
              BY <3>0, <3>2, <3>6, <4>2, <7>1 DEF ListInv, Transferable
            <7> QED
              BY <2>0, <3>6, <4>2, <6>1, <7>2
          <6>6. CASE b > Segment.addr
            <7>1. Crosses(Segment.addr, Segment.len)
              BY <6>3, <6>6 DEF Crosses
            <7>2. idx + 1 \in first'[k] .. LastOf(k)'
              BY <2>0, <3>6, <4>2
            <7> QED
              BY <2>1, <3>0, <6>1, <7>1, <7>2
          <6> QED
            BY <2>1, <3>0, <6>4, <6>5, <6>6
        <5> QED
          BY <3>1, <3>5, <4>2, <5>1, <5>2
      <4> QED
        BY <3>4, <4>1, <4>2 DEF Transferable, Crosses
    <3> QED
      BY <3>7, <3>8, <3>9, <3>10 DEF ListInv
  <2>6. CASE Refuse
    BY <2>6 DEF Refuse, ListInv, SameBytes, EotAtEnd, Transferable, LastIsEnd, LastOf
  <2>7. CASE Return
    BY <2>7 DEF Return, ListInv, SameBytes, EotAtEnd, Transferable, LastIsEnd, LastOf
  <2>8. CASE UNCHANGED sgVars
    BY <2>8 DEF sgVars, ListInv, SameBytes, EotAtEnd, Transferable, LastIsEnd, LastOf
  <2> QED
    BY <2>3, <2>4, <2>5, <2>6, <2>7, <2>8 DEF SgNext
<1> QED
  BY <1>1, <1>2, SgTypeCorrect, PTL DEF SgSpec, ListInv

(* The adapter finds an end mark, and finds it on the last descriptor,     *)
(* whichever segments os_buildsgl merged into it.                          *)
THEOREM EndIsMarked == SgSpec => []EotAtEnd
<1>1. SameBytes /\ EotAtEnd /\ Transferable => EotAtEnd
  OBVIOUS
<1> QED
  BY <1>1, ListIsRight, PTL

-----------------------------------------------------------------------------
(* What the disk driver learns and asks for (ScsiAnswers).  First, the     *)
(* bytes of a number.                                                      *)

(* The powers of Byte.                                                     *)
LEMMA Powers ==
  /\ Power[0] = 1
  /\ \A n \in 1 .. 8 : Power[n] = Byte * Power[n - 1]
  /\ \A n \in 0 .. 8 : Power[n] \in Nat \ {0}
<1>1. Byte \in Nat \ {0}
  BY ScsiAnswersAssumption DEF ScsiAnswersAssumption
<1> DEFINE Is(f) == f = [n \in 0 .. 8 |-> IF n = 0 THEN 1 ELSE Byte * f[n - 1]]
           b1 == Byte * 1  b2 == Byte * b1  b3 == Byte * b2  b4 == Byte * b3
           b5 == Byte * b4  b6 == Byte * b5  b7 == Byte * b6  b8 == Byte * b7
           f == [n \in 0 .. 8 |-> CASE n = 0 -> 1 [] n = 1 -> b1 [] n = 2 -> b2
                                    [] n = 3 -> b3 [] n = 4 -> b4 [] n = 5 -> b5
                                    [] n = 6 -> b6 [] n = 7 -> b7 [] n = 8 -> b8]
<1>2. Is(f)
  <2>1. ASSUME NEW n \in 0 .. 8 PROVE f[n] = IF n = 0 THEN 1 ELSE Byte * f[n - 1]
    <3> HIDE <1>1
    <3>1. n \in {0, 1, 2, 3, 4, 5, 6, 7, 8}
      OBVIOUS
    <3> QED
      BY <3>1
  <2> QED
    BY <2>1
<1>3. Is(Power)
  <2> HIDE DEF f
  <2>1. Power = CHOOSE g : Is(g)
    BY DEF Power
  <2> HIDE DEF Is
  <2> QED
    BY <1>2, <2>1
<1> HIDE DEF f
<1>4. Power[0] = 1 /\ \A n \in 1 .. 8 : Power[n] = Byte * Power[n - 1]
  BY <1>3
<1> HIDE DEF Is
<1>5. ASSUME NEW n \in 1 .. 8, Power[n - 1] \in Nat \ {0} PROVE Power[n] \in Nat \ {0}
  BY <1>1, <1>4, <1>5
<1>6. Power[0] \in Nat \ {0} /\ Power[1] \in Nat \ {0} /\ Power[2] \in Nat \ {0}
  BY <1>4, <1>5
<1>7. Power[3] \in Nat \ {0} /\ Power[4] \in Nat \ {0} /\ Power[5] \in Nat \ {0}
  BY <1>5, <1>6
<1>8. Power[6] \in Nat \ {0} /\ Power[7] \in Nat \ {0} /\ Power[8] \in Nat \ {0}
  BY <1>5, <1>7
<1> QED
  BY <1>4, <1>6, <1>7, <1>8

(* One more byte.                                                          *)
LEMMA OneMoreByte ==
  ASSUME NEW b \in Nat \ {0}, NEW p \in Nat \ {0}, NEW x \in Nat
  PROVE  x \div p = (x \div (b * p)) * b + ((x \div p) % b)
<1> DEFINE y == x \div p
           q == y \div b
<1>1. y \in Nat
  OBVIOUS
<1>2. q = x \div (b * p)
  <2>1. q = x \div (p * b)
    OBVIOUS
  <2>2. p * b = b * p
    OBVIOUS
  <2> QED
    BY <2>1, <2>2
<1> HIDE DEF y
<1>3. q \in Nat /\ y % b = y - b * q
  BY <1>1
<1> HIDE DEF q
<1>4. b * q = q * b
  BY <1>3
<1>5. (y % b) + q * b = y
  BY <1>1, <1>3, <1>4
<1>6. y % b \in Nat /\ q * b \in Nat
  BY <1>1, <1>3
<1>7. y = q * b + (y % b)
  <2> DEFINE r == y % b
             m == q * b
  <2>1. r + m = y /\ r \in Nat /\ m \in Nat
    BY <1>5, <1>6
  <2> HIDE DEF r, m
  <2>2. y = m + r
    BY <2>1
  <2>3. y = q * b + (y % b)
    BY <2>2, Zenon DEF r, m
  <2> QED
    BY <2>3
<1> QED
  BY <1>2, <1>7 DEF y

(* A table of n entries is a sequence.                                     *)
LEMMA TableIsSeq ==
  ASSUME NEW S, NEW n \in Nat, NEW f \in [1 .. n -> S]
  PROVE  f \in Seq(S) /\ Len(f) = n
<1>1. f \in Seq(S)
  OBVIOUS
<1> QED
  BY <1>1, LenProperties

(* A number that n bytes can hold comes out of them again.                 *)
LEMMA ValueOfBytes ==
  ASSUME NEW n \in 1 .. 8, NEW x \in Nat, x < Power[n]
  PROVE  Value(Bytes(x, n)) = x
<1> DEFINE bytes == Bytes(x, n)
           Is(v) == v = [k \in 0 .. n |-> IF k = 0 THEN 0 ELSE v[k - 1] * Byte + bytes[k]]
           w == [k \in 0 .. n |-> x \div Power[n - k]]
<1>1. Byte \in Nat \ {0}
  BY ScsiAnswersAssumption DEF ScsiAnswersAssumption
<1>2. bytes \in Seq(Int) /\ Len(bytes) = n
      /\ \A k \in 1 .. n : bytes[k] = (x \div Power[n - k]) % Byte
  <2>1. bytes = [k \in 1 .. n |-> (x \div Power[n - k]) % Byte]
    BY DEF Bytes
  <2>2. \A k \in 1 .. n : (x \div Power[n - k]) % Byte \in Int
    <3> TAKE k \in 1 .. n
    <3>1. n - k \in 0 .. 8
      OBVIOUS
    <3>2. Power[n - k] \in Nat \ {0}
      BY <3>1, Powers
    <3> QED
      BY <1>1, <3>2
  <2> HIDE DEF bytes
  <2>3. bytes \in [1 .. n -> Int]
    BY <2>1, <2>2
  <2> QED
    BY <2>1, <2>3, TableIsSeq
<1> HIDE DEF bytes
<1>3. ASSUME NEW k \in 1 .. n
      PROVE  x \div Power[n - k] = (x \div Power[n - (k - 1)]) * Byte + bytes[k]
  <2>1. n - k \in 0 .. 8 /\ n - (k - 1) \in 1 .. 8 /\ n - (k - 1) - 1 = n - k
    OBVIOUS
  <2>2. Power[n - k] \in Nat \ {0} /\ Power[n - (k - 1)] = Byte * Power[n - k]
    BY <2>1, Powers
  <2>3. bytes[k] = (x \div Power[n - k]) % Byte
    BY <1>2
  <2> DEFINE p == Power[n - k]
  <2> HIDE DEF p
  <2>4. x \div p = (x \div (Byte * p)) * Byte + ((x \div p) % Byte)
    BY <1>1, <2>2, OneMoreByte DEF p
  <2>5. x \div Power[n - (k - 1)] = x \div (Byte * p)
    BY <2>2 DEF p
  <2>6. bytes[k] = (x \div p) % Byte
    BY <2>3 DEF p
  <2>7. x \div p = (x \div Power[n - (k - 1)]) * Byte + bytes[k]
    BY <2>4, <2>5, <2>6
  <2> QED
    BY <2>7 DEF p
<1>4. x \div Power[n] = 0 /\ x \div Power[0] = x
  <2>1. Power[n] \in Nat /\ Power[n] > x /\ Power[0] = 1
    BY Powers
  <2> QED
    BY <2>1
<1>5. Is(w)
  <2>1. ASSUME NEW k \in 0 .. n
        PROVE  w[k] = IF k = 0 THEN 0 ELSE w[k - 1] * Byte + bytes[k]
    <3>1. CASE k = 0
      <4>1. n - 0 = n
        OBVIOUS
      <4> QED
        BY <1>4, <3>1, <4>1
    <3>2. CASE k # 0
      <4>1. k \in 1 .. n /\ k - 1 \in 0 .. n
        BY <3>2
      <4>2. w[k] = x \div Power[n - k] /\ w[k - 1] = x \div Power[n - (k - 1)]
        BY <4>1
      <4> HIDE DEF w
      <4> QED
        BY <1>3, <3>2, <4>1, <4>2
    <3> QED
      BY <3>1, <3>2
  <2>2. w = [k \in 0 .. n |-> w[k]]
    OBVIOUS
  <2> HIDE DEF w
  <2> QED
    BY <2>1, <2>2
<1> DEFINE u == CHOOSE v : Is(v)
<1>6. Value(bytes) = u[n]
  BY <1>2 DEF Value
<1>7. Is(u)
  <2> HIDE DEF Is, w
  <2> QED
    BY <1>5
<1> HIDE DEF u
<1> DEFINE Right(k) == k <= n => u[k] = x \div Power[n - k]
<1>8. Right(0)
  <2>1. u[0] = 0 /\ n - 0 = n
    BY <1>7
  <2> QED
    BY <1>4, <2>1
<1>9. ASSUME NEW k \in 1 .. 8, Right(k - 1) PROVE Right(k)
  <2>1. SUFFICES ASSUME k <= n PROVE u[k] = x \div Power[n - k]
    OBVIOUS
  <2>2. k \in 1 .. n /\ k - 1 <= n
    BY <2>1
  <2>3. u[k] = u[k - 1] * Byte + bytes[k]
    BY <1>7, <2>2
  <2>4. u[k - 1] = x \div Power[n - (k - 1)]
    BY <1>9, <2>2
  <2> QED
    BY <1>3, <2>2, <2>3, <2>4
<1>10. \A k \in 0 .. 8 : Right(k)
  <2> HIDE DEF Right
  <2>1. Right(1) /\ Right(2)
    BY <1>8, <1>9
  <2>2. Right(3) /\ Right(4)
    BY <1>9, <2>1
  <2>3. Right(5) /\ Right(6)
    BY <1>9, <2>2
  <2>4. Right(7) /\ Right(8)
    BY <1>9, <2>3
  <2> QED
    BY <1>8, <2>1, <2>2, <2>3, <2>4
<1>11. u[n] = x \div Power[0]
  <2>1. Right(n) /\ n - n = 0 /\ n <= n
    BY <1>10
  <2> QED
    BY <2>1
<1> QED
  BY <1>4, <1>6, <1>11 DEF bytes

(* Adding a byte to the bytes of a number leaves them as they are.         *)
LEMMA WithOneMore ==
  ASSUME NEW n \in 1 .. 8, NEW x \in Int, NEW byte
  PROVE  LET both == Bytes(x, n) \o <<byte>>
         IN  SubSeq(both, 1, n) = Bytes(x, n) /\ both[n + 1] = byte
<1> DEFINE bytes == Bytes(x, n)
           S == Range(bytes) \cup {byte}
           one == <<byte>>
           both == bytes \o one
           sub == SubSeq(both, 1, n)
<1>1. bytes = [k \in 1 .. n |-> bytes[k]]
  BY DEF Bytes
<1> HIDE DEF bytes
<1>2. bytes \in [1 .. n -> S]
  BY <1>1 DEF Range
<1>3. bytes \in Seq(S) /\ Len(bytes) = n
  BY <1>2, TableIsSeq
<1>4. one \in Seq(S) /\ Len(one) = 1 /\ one[1] = byte
  OBVIOUS
<1> HIDE DEF S, one
<1>5. /\ both \in Seq(S) /\ Len(both) = n + 1
      /\ \A i \in 1 .. n + 1 : both[i] = IF i <= n THEN bytes[i] ELSE one[i - n]
  <2>1. /\ both \in Seq(S) /\ Len(both) = Len(bytes) + Len(one)
        /\ \A i \in 1 .. Len(bytes) + Len(one) :
             both[i] = IF i <= Len(bytes) THEN bytes[i] ELSE one[i - Len(bytes)]
    <3>1. bytes \in Seq(S) /\ one \in Seq(S)
      BY <1>3, <1>4
    <3> QED
      BY ONLY <3>1, ConcatProperties DEF both
  <2> HIDE DEF both
  <2> QED
    BY <1>3, <1>4, <2>1
<1> HIDE DEF both
<1>6. \A i \in 1 .. n : both[i] = bytes[i] /\ both[i] \in S
  <2> TAKE i \in 1 .. n
  <2>1. i \in 1 .. n + 1 /\ i <= n
    OBVIOUS
  <2> QED
    BY <1>2, <1>5, <2>1
<1>7. both[n + 1] = byte
  <2>1. n + 1 \in 1 .. n + 1 /\ ~(n + 1 <= n) /\ n + 1 - n = 1
    OBVIOUS
  <2>2. both[n + 1] = IF n + 1 <= n THEN bytes[n + 1] ELSE one[n + 1 - n]
    BY <1>5, <2>1
  <2>3. both[n + 1] = one[1]
    BY <2>1, <2>2
  <2> QED
    BY <1>4, <2>3
<1>8. /\ sub \in Seq(S) /\ Len(sub) = n
      /\ \A i \in 1 .. n : sub[i] = both[i]
  <2>1. /\ sub \in Seq(S)
        /\ Len(sub) = IF 1 <= n THEN n - 1 + 1 ELSE 0
        /\ \A i \in 1 .. n - 1 + 1 : sub[i] = both[1 + i - 1]
    BY <1>5, <1>6, SubSeqProperties
  <2> HIDE DEF sub
  <2>2. 1 <= n /\ n - 1 + 1 = n /\ \A i \in 1 .. n : 1 + i - 1 = i
    OBVIOUS
  <2> QED
    BY <2>1, <2>2
<1> HIDE DEF sub
<1>9. sub = bytes
  BY <1>3, <1>6, <1>8, SeqEqual
<1> QED
  BY <1>7, <1>9 DEF bytes, one, both, sub

(* The two middle bytes of four are the two of READ_10.                    *)
LEMMA LowBytes ==
  ASSUME NEW x \in Nat
  PROVE  SubSeq(Bytes(x, 4), 3, 4) = Bytes(x, 2)
<1> DEFINE four == Bytes(x, 4)
           two == Bytes(x, 2)
           sub == SubSeq(four, 3, 4)
           S == Range(four) \cup Range(two)
<1>1. /\ four = [k \in 1 .. 4 |-> (x \div Power[4 - k]) % Byte]
      /\ two = [k \in 1 .. 2 |-> (x \div Power[2 - k]) % Byte]
  BY DEF Bytes
<1> HIDE DEF four, two
<1>2. four \in [1 .. 4 -> S] /\ two \in [1 .. 2 -> S]
  BY <1>1 DEF Range
<1> HIDE DEF S
<1>3. /\ four \in Seq(S) /\ Len(four) = 4 /\ two \in Seq(S) /\ Len(two) = 2
      /\ \A k \in 1 .. 4 : four[k] \in S
  <2>1. four \in Seq(S) /\ two \in Seq(S)
    BY <1>2, TableIsSeq
  <2>2. Len(four) = 4 /\ Len(two) = 2
    BY <1>2, TableIsSeq
  <2> QED
    BY <1>2, <2>1, <2>2
<1>4. four[3] = two[1] /\ four[4] = two[2]
  <2>1. four[3] = (x \div Power[1]) % Byte /\ four[4] = (x \div Power[0]) % Byte
    BY <1>1
  <2>2. two[1] = (x \div Power[1]) % Byte /\ two[2] = (x \div Power[0]) % Byte
    BY <1>1
  <2> QED
    BY <2>1, <2>2
<1>5. /\ sub \in Seq(S) /\ Len(sub) = 2
      /\ sub[1] = four[3] /\ sub[2] = four[4]
  <2>1. /\ sub \in Seq(S)
        /\ Len(sub) = IF 3 <= 4 THEN 4 - 3 + 1 ELSE 0
        /\ \A i \in 1 .. 4 - 3 + 1 : sub[i] = four[3 + i - 1]
    BY <1>3, SubSeqProperties
  <2> HIDE DEF sub
  <2> QED
    BY <2>1
<1> HIDE DEF sub
<1>6. \A i \in 1 .. Len(sub) : sub[i] = two[i]
  BY <1>4, <1>5
<1>7. sub = two
  BY <1>3, <1>5, <1>6, SeqEqual
<1> QED
  BY <1>7 DEF four, two, sub

-----------------------------------------------------------------------------
(* ModePagesFillTheLength of one answer.                                   *)
Fills(a) ==
  LET f == a.filled
      next(k) == f[k].at + 2 + f[k].page.len
  IN  /\ f # <<>> => f[1].at = Header(a.op)
      /\ \A k \in 1 .. Len(f) - 1 : f[k + 1].at = next(k)
      /\ a.bufflen >= a.length => f # <<>> /\ next(Len(f)) = a.length

(* MODE SENSE of a known page into a large enough buffer.                  *)
Pages(op, page, bufflen) ==
  FillPages([output_len |-> Header(op), filled |-> <<>>], page, bufflen)

(* An answer that is not a check condition is made of the pages.           *)
LEMMA ModeAnswer ==
  ASSUME NEW op \in {"MODE_SENSE", "MODE_SENSE_10"}, NEW control, NEW page, NEW bufflen \in Nat,
         DoModeSense(op, control, page, bufflen).result = "ok"
  PROVE  /\ page \in ModePages
         /\ DoModeSense(op, control, page, bufflen) =
              [op |-> op, result |-> "ok", page |-> page, bufflen |-> bufflen,
               length |-> IF op = "MODE_SENSE" THEN ((Pages(op, page, bufflen).output_len - 1) % 256) + 1
                                               ELSE Pages(op, page, bufflen).output_len,
               filled |-> Pages(op, page, bufflen).filled]
BY DEF DoModeSense, CheckCondition, Pages

(* The places of pages in a row.                                           *)
LEMMA Appending ==
  ASSUME NEW a, NEW b, NEW c
  PROVE  /\ Append(<<>>, a) = <<a>>
         /\ Append(<<a>>, b) = <<a, b>>
         /\ Append(<<a, b>>, c) = <<a, b, c>>
<1> DEFINE S == {a, b, c}
           s1 == <<a>>
           s2 == <<a, b>>
           s3 == <<a, b, c>>
           t2 == Append(s1, b)
           t3 == Append(s2, c)
<1>1. /\ s1 \in Seq(S) /\ Len(s1) = 1 /\ s1[1] = a
      /\ s2 \in Seq(S) /\ Len(s2) = 2 /\ s2[1] = a /\ s2[2] = b
      /\ s3 \in Seq(S) /\ Len(s3) = 3 /\ s3[1] = a /\ s3[2] = b /\ s3[3] = c
      /\ b \in S /\ c \in S
  OBVIOUS
<1>2. Append(<<>>, a) = s1
  OBVIOUS
<1> HIDE DEF S, s1, s2, s3
<1>3. /\ t2 \in Seq(S) /\ Len(t2) = 1 + 1 /\ t2[1] = a /\ t2[1 + 1] = b
      /\ t3 \in Seq(S) /\ Len(t3) = 2 + 1 /\ t3[1] = a /\ t3[2] = b /\ t3[2 + 1] = c
  <2>1. 1 \in 1 .. 1 /\ 1 \in 1 .. 2 /\ 2 \in 1 .. 2
    OBVIOUS
  <2>a. s1 \in Seq(S) /\ s2 \in Seq(S) /\ b \in S /\ c \in S
    BY <1>1
  <2>2. /\ t2 \in Seq(S) /\ Len(t2) = Len(s1) + 1
        /\ \A i \in 1 .. Len(s1) : t2[i] = s1[i]
        /\ t2[Len(s1) + 1] = b
    BY <2>a, AppendProperties
  <2>3. /\ t3 \in Seq(S) /\ Len(t3) = Len(s2) + 1
        /\ \A i \in 1 .. Len(s2) : t3[i] = s2[i]
        /\ t3[Len(s2) + 1] = c
    BY <2>a, AppendProperties
  <2> HIDE DEF t2, t3
  <2> QED
    BY <1>1, <2>1, <2>2, <2>3
<1> HIDE DEF t2, t3
<1>4. t2 = s2
  <2>1. \A i \in 1 .. 2 : t2[i] = s2[i]
    BY <1>1, <1>3
  <2>2. Len(t2) = Len(s2)
    BY <1>1, <1>3
  <2>3. Len(t2) = 2
    BY <1>3
  <2> QED
    BY <1>1, <1>3, <2>1, <2>2, <2>3, SeqEqual
<1>5. t3 = s3
  <2>1. \A i \in 1 .. 3 : t3[i] = s3[i]
    BY <1>1, <1>3
  <2>2. Len(t3) = Len(s3)
    BY <1>1, <1>3
  <2>3. Len(t3) = 3
    BY <1>3
  <2> QED
    BY <1>1, <1>3, <2>1, <2>2, <2>3, SeqEqual
<1> QED
  BY <1>2, <1>4, <1>5 DEF s1, s2, s3, t2, t3

(* What fill_msense_* have filled: as many of the pages as the buffer      *)
(* holds, one behind the other.                                            *)
LEMMA PagesFilled ==
  ASSUME NEW op \in {"MODE_SENSE", "MODE_SENSE_10"}, NEW page \in ModePages, NEW bufflen \in Nat
  PROVE  LET h == Header(op)
             P(at, p) == [at |-> at, page |-> p]
             Single(p) == /\ Pages(op, page, bufflen).output_len = h + p.size
                          /\ Pages(op, page, bufflen).filled =
                               IF h + p.size <= bufflen THEN <<P(h, p)>> ELSE <<>>
         IN  /\ page = 1 => Single(RwRecoveryPage)
             /\ page = 8 => Single(CachingPage)
             /\ page = 10 => Single(ControlPage)
             /\ page = 63 =>
                  /\ Pages(op, page, bufflen).output_len = h + 44
                  /\ Pages(op, page, bufflen).filled =
                       IF h + 44 <= bufflen
                       THEN <<P(h, RwRecoveryPage), P(h + 12, CachingPage), P(h + 32, ControlPage)>>
                       ELSE IF h + 32 <= bufflen
                       THEN <<P(h, RwRecoveryPage), P(h + 12, CachingPage)>>
                       ELSE IF h + 12 <= bufflen
                       THEN <<P(h, RwRecoveryPage)>>
                       ELSE <<>>
<1> DEFINE h == Header(op)
           P(at, p) == [at |-> at, page |-> p]
           start == [output_len |-> h, filled |-> <<>>]
<1>1. h \in {4, 8}
  BY DEF Header
<1>2. RwRecoveryPage.size = 12 /\ CachingPage.size = 20 /\ ControlPage.size = 12
  BY DEF RwRecoveryPage, CachingPage, ControlPage
<1> HIDE DEF h
<1>3. ASSUME NEW p
      PROVE  FillMsense(start, p, bufflen) =
               [output_len |-> h + p.size,
                filled |-> IF h + p.size <= bufflen THEN <<P(h, p)>> ELSE <<>>]
  BY Appending DEF FillMsense
<1>4. /\ page = 1 => Pages(op, page, bufflen) = FillMsense(start, RwRecoveryPage, bufflen)
      /\ page = 8 => Pages(op, page, bufflen) = FillMsense(start, CachingPage, bufflen)
      /\ page = 10 => Pages(op, page, bufflen) = FillMsense(start, ControlPage, bufflen)
      /\ page = 63 => Pages(op, page, bufflen) =
                        FillMsense(FillMsense(FillMsense(start, RwRecoveryPage, bufflen),
                                              CachingPage, bufflen), ControlPage, bufflen)
  BY DEF Pages, FillPages, h
<1>5. CASE page # 63
  <2>1. page \in {1, 8, 10}
    BY <1>5 DEF ModePages
  <2>2. ASSUME NEW p, Pages(op, page, bufflen) = FillMsense(start, p, bufflen)
        PROVE  /\ Pages(op, page, bufflen).output_len = h + p.size
               /\ Pages(op, page, bufflen).filled =
                    IF h + p.size <= bufflen THEN <<P(h, p)>> ELSE <<>>
    <3> DEFINE f == IF h + p.size <= bufflen THEN <<P(h, p)>> ELSE <<>>
    <3>1. Pages(op, page, bufflen) = [output_len |-> h + p.size, filled |-> f]
      BY <1>3, <2>2
    <3> HIDE DEF f, P, start
    <3> QED
      BY <3>1 DEF f
  <2>3. CASE page = 1
    BY <1>4, <2>2, <2>3 DEF h
  <2>4. CASE page = 8
    BY <1>4, <2>2, <2>4 DEF h
  <2>5. CASE page = 10
    BY <1>4, <2>2, <2>5 DEF h
  <2> QED
    BY <2>1, <2>3, <2>4, <2>5
<1>6. CASE page = 63
  <2> DEFINE r == P(h, RwRecoveryPage)
             c == P(h + 12, CachingPage)
             t == P(h + 32, ControlPage)
             o1 == FillMsense(start, RwRecoveryPage, bufflen)
             o2 == FillMsense(o1, CachingPage, bufflen)
             o3 == FillMsense(o2, ControlPage, bufflen)
  <2>1. o1 = [output_len |-> h + 12, filled |-> IF h + 12 <= bufflen THEN <<r>> ELSE <<>>]
    BY <1>2, <1>3
  <2> HIDE DEF o1
  <2>2. o2 = [output_len |-> h + 32,
              filled |-> IF h + 32 <= bufflen THEN <<r, c>>
                         ELSE IF h + 12 <= bufflen THEN <<r>> ELSE <<>>]
    <3>1. o2.output_len = h + 32 /\ o2 = [output_len |-> o2.output_len, filled |-> o2.filled]
      BY <1>1, <1>2, <2>1 DEF FillMsense
    <3>2. CASE h + 32 <= bufflen
      <4>1. h + 12 <= bufflen /\ o1.filled = <<r>> /\ o1.output_len = h + 12 /\ h + 12 + 20 = h + 32
        BY <1>1, <2>1, <3>2
      <4>2. o2.filled = Append(<<r>>, c)
        BY <1>2, <3>2, <4>1 DEF FillMsense
      <4> HIDE DEF r, c
      <4> QED
        BY <3>1, <3>2, <4>2, Appending
    <3>3. CASE ~(h + 32 <= bufflen)
      <4>1. o1.output_len + 20 = h + 32
        BY <1>1, <2>1
      <4>2. o2.filled = o1.filled
        BY <1>2, <3>3, <4>1 DEF FillMsense
      <4> QED
        BY <2>1, <3>1, <3>3, <4>2
    <3> QED
      BY <3>2, <3>3
  <2> HIDE DEF o2
  <2>3. o3 = [output_len |-> h + 44,
              filled |-> IF h + 44 <= bufflen THEN <<r, c, t>>
                         ELSE IF h + 32 <= bufflen THEN <<r, c>>
                         ELSE IF h + 12 <= bufflen THEN <<r>> ELSE <<>>]
    <3>1. o3.output_len = h + 44 /\ o3 = [output_len |-> o3.output_len, filled |-> o3.filled]
      BY <1>1, <1>2, <2>2 DEF FillMsense
    <3>2. CASE h + 44 <= bufflen
      <4>1. h + 32 <= bufflen /\ o2.filled = <<r, c>> /\ o2.output_len = h + 32 /\ h + 32 + 12 = h + 44
        BY <1>1, <2>2, <3>2
      <4>2. o3.filled = Append(<<r, c>>, t)
        BY <1>2, <3>2, <4>1 DEF FillMsense
      <4> HIDE DEF r, c, t
      <4> QED
        BY <3>1, <3>2, <4>2, Appending
    <3>3. CASE ~(h + 44 <= bufflen)
      <4>1. o2.output_len + 12 = h + 44
        BY <1>1, <2>2
      <4>2. o3.filled = o2.filled
        BY <1>2, <3>3, <4>1 DEF FillMsense
      <4> QED
        BY <2>2, <3>1, <3>3, <4>2
    <3> QED
      BY <3>2, <3>3
  <2>4. Pages(op, page, bufflen) = o3
    BY <1>4, <1>6 DEF o1, o2
  <2> HIDE DEF o3
  <2>5. /\ Pages(op, page, bufflen).output_len = h + 44
        /\ Pages(op, page, bufflen).filled =
             IF h + 44 <= bufflen THEN <<r, c, t>>
             ELSE IF h + 32 <= bufflen THEN <<r, c>>
             ELSE IF h + 12 <= bufflen THEN <<r>> ELSE <<>>
    BY <2>3, <2>4
  <2> QED
    BY <1>6, <2>5 DEF h
<1> QED
  BY <1>5, <1>6

(* So the pages of an answer are where a reader looks for them.            *)
LEMMA ModeSenseFills ==
  ASSUME NEW op \in {"MODE_SENSE", "MODE_SENSE_10"}, NEW control, NEW page, NEW bufflen \in Nat,
         DoModeSense(op, control, page, bufflen).result = "ok"
  PROVE  Fills(DoModeSense(op, control, page, bufflen))
<1> DEFINE a == DoModeSense(op, control, page, bufflen)
           h == Header(op)
           P(at, p) == [at |-> at, page |-> p]
           n == Pages(op, page, bufflen).output_len
           f == Pages(op, page, bufflen).filled
<1>1. page \in ModePages /\ h \in {4, 8}
  BY ModeAnswer DEF Header
<1>2. /\ RwRecoveryPage.size = 12 /\ RwRecoveryPage.len = 10
      /\ CachingPage.size = 20 /\ CachingPage.len = 18
      /\ ControlPage.size = 12 /\ ControlPage.len = 10
  BY DEF RwRecoveryPage, CachingPage, ControlPage
<1>3. /\ a.op = op /\ a.bufflen = bufflen /\ a.filled = f
      /\ a.length = IF op = "MODE_SENSE" THEN ((n - 1) % 256) + 1 ELSE n
  BY ModeAnswer
<1>4. /\ page = 1 => n = h + 12 /\ f = IF h + 12 <= bufflen THEN <<P(h, RwRecoveryPage)>> ELSE <<>>
      /\ page = 8 => n = h + 20 /\ f = IF h + 20 <= bufflen THEN <<P(h, CachingPage)>> ELSE <<>>
      /\ page = 10 => n = h + 12 /\ f = IF h + 12 <= bufflen THEN <<P(h, ControlPage)>> ELSE <<>>
      /\ page = 63 =>
           /\ n = h + 44
           /\ f = IF h + 44 <= bufflen
                  THEN <<P(h, RwRecoveryPage), P(h + 12, CachingPage), P(h + 32, ControlPage)>>
                  ELSE IF h + 32 <= bufflen
                  THEN <<P(h, RwRecoveryPage), P(h + 12, CachingPage)>>
                  ELSE IF h + 12 <= bufflen
                  THEN <<P(h, RwRecoveryPage)>>
                  ELSE <<>>
  <2> DEFINE Single(p) == n = h + p.size /\ f = IF h + p.size <= bufflen THEN <<P(h, p)>> ELSE <<>>
  <2>1. /\ page = 1 => Single(RwRecoveryPage)
        /\ page = 8 => Single(CachingPage)
        /\ page = 10 => Single(ControlPage)
    BY <1>1, PagesFilled
  <2>2. /\ page = 1 => n = h + 12 /\ f = IF h + 12 <= bufflen THEN <<P(h, RwRecoveryPage)>> ELSE <<>>
        /\ page = 8 => n = h + 20 /\ f = IF h + 20 <= bufflen THEN <<P(h, CachingPage)>> ELSE <<>>
        /\ page = 10 => n = h + 12 /\ f = IF h + 12 <= bufflen THEN <<P(h, ControlPage)>> ELSE <<>>
    <3> HIDE DEF h, n, f, P
    <3> QED
      BY <1>2, <2>1
  <2> QED
    BY <1>1, <2>2, PagesFilled
<1> HIDE DEF a, h, n, f
<1>5. n \in h + 12 .. h + 44
  BY <1>1, <1>4 DEF ModePages
<1>6. a.length = n
  BY <1>1, <1>3, <1>5
<1> DEFINE next(k) == f[k].at + 2 + f[k].page.len
<1>7. /\ f # <<>> => f[1].at = h
      /\ \A k \in 1 .. Len(f) - 1 : f[k + 1].at = next(k)
      /\ bufflen >= n => f # <<>> /\ next(Len(f)) = n
  <2>1. ASSUME NEW p, n = h + p.size, p.size = 2 + p.len, p.size \in Nat, p.len \in Nat,
               f = IF h + p.size <= bufflen THEN <<P(h, p)>> ELSE <<>>
        PROVE  <1>7!:
    <3>1. CASE f = <<>>
      BY <1>1, <2>1, <3>1
    <3>2. CASE f # <<>>
      <4>1. Len(f) = 1 /\ f[1].at = h /\ f[1].page = p
        BY <2>1, <3>2
      <4> QED
        BY <1>1, <2>1, <3>2, <4>1
    <3> QED
      BY <3>1, <3>2
  <2>2. CASE page \in {1, 8, 10}
    BY <1>2, <1>4, <2>1, <2>2
  <2>3. CASE page = 63
    <3>1. CASE h + 44 <= bufflen
      <4>1. /\ Len(f) = 3 /\ f # <<>>
            /\ f[1].at = h /\ f[1].page = RwRecoveryPage
            /\ f[2].at = h + 12 /\ f[2].page = CachingPage
            /\ f[3].at = h + 32 /\ f[3].page = ControlPage
        BY <1>4, <2>3, <3>1
      <4>2. n = h + 44 /\ \A k \in 1 .. Len(f) - 1 : k = 1 \/ k = 2
        BY <1>4, <2>3, <4>1
      <4>3. /\ f[1 + 1].at = next(1) /\ f[2 + 1].at = next(2)
            /\ bufflen >= n => next(3) = n
        BY <1>1, <1>2, <4>1, <4>2
      <4> QED
        BY <4>1, <4>2, <4>3
    <3>2. CASE ~(h + 44 <= bufflen) /\ h + 32 <= bufflen
      <4>1. /\ Len(f) = 2 /\ f # <<>>
            /\ f[1].at = h /\ f[1].page = RwRecoveryPage
            /\ f[2].at = h + 12 /\ f[2].page = CachingPage
        <5>1. f = <<P(h, RwRecoveryPage), P(h + 12, CachingPage)>>
          BY <1>4, <2>3, <3>2
        <5> QED
          BY <5>1
      <4>2. n = h + 44 /\ \A k \in 1 .. Len(f) - 1 : k = 1
        BY <1>4, <2>3, <4>1
      <4>3. f[1 + 1].at = next(1) /\ ~(bufflen >= n)
        BY <1>1, <1>2, <3>2, <4>1, <4>2
      <4> QED
        BY <4>1, <4>2, <4>3
    <3>3. CASE ~(h + 32 <= bufflen)
      <4>1. n = h + 44 /\ ~(h + 44 <= bufflen)
            /\ f = IF h + 12 <= bufflen THEN <<P(h, RwRecoveryPage)>> ELSE <<>>
        BY <1>1, <1>4, <2>3, <3>3
      <4>2. CASE f = <<>>
        BY <1>1, <4>1, <4>2
      <4>3. CASE f # <<>>
        <5>1. Len(f) = 1 /\ f[1].at = h
          BY <4>1, <4>3
        <5> QED
          BY <1>1, <4>1, <4>3, <5>1
      <4> QED
        BY <4>2, <4>3
    <3> QED
      BY <3>1, <3>2, <3>3
  <2> QED
    BY <1>1, <2>2, <2>3 DEF ModePages
<1>8. Fills(a)
  BY <1>3, <1>6, <1>7 DEF Fills, h
<1> QED
  BY <1>8 DEF a

(* What is answered for a VPD page.                                        *)
Payload(v) == {v.payload[k] : k \in 1 .. v.len}

(* A page is answered if it is known and the buffer holds the standard     *)
(* INQUIRY data; page 0 lists the pages that are answered.                 *)
LEMMA VpdAnswer ==
  ASSUME NEW page, NEW buflen \in Nat
  PROVE  LET v == VpdPage(page, buflen)
         IN  /\ v.result = "ok" <=> buflen >= 36 /\ page \in {0, 128, 131}
             /\ v.result = "ok" => v.code = page /\ v.len = Len(v.payload)
             /\ v.result = "ok" /\ page = 0 => Payload(v) = {0, 128, 131}
<1> DEFINE v == VpdPage(page, buflen)
<1>1. /\ v.result = "ok" <=> buflen >= 36 /\ page \in {0, 128, 131}
      /\ v.result = "ok" => v.code = page /\ v.len = Len(v.payload)
      /\ v.result = "ok" /\ page = 0 => v.len = 3 /\ v.payload = <<0, 128, 131>>
  BY DEF VpdPage, VpdList, CheckCondition
<1> HIDE DEF v
<1>2. {<<0, 128, 131>>[k] : k \in 1 .. 3} = {0, 128, 131}
  OBVIOUS
<1> QED
  BY <1>1, <1>2 DEF v, Payload

-----------------------------------------------------------------------------
(* Sectors of 512 bytes in a block of the disk.                            *)
Factor == 2 ^ vdev.sector_size_shift

(* Every disk has room for one of its blocks.                              *)
WholeBlocks == \A c \in Capacities, s \in Shifts \cup {0} : 2 ^ s <= c

AnswersTypeOK ==
  /\ vdev \in [type : {"raw", "array"}, capacity : Capacities,
               sector_size_shift : Shifts \cup {0}, cache_policy : {"through", "back"}]
  /\ probe \in {"capacity10", "capacity16", "mode4", "mode", "ready"}
  /\ sd \in [sectors : Nat, sector_size : Nat, length : Nat, WCE : BOOLEAN]
  /\ grown \in BOOLEAN
  /\ pages \in {{0}, {0, 128, 131}}

(* What sd knows on its way: the size of the disk, now and when it learned *)
(* it, and the length it is going to ask for.                              *)
Learned ==
  /\ probe \in {"mode4", "mode", "ready"} /\ ~grown =>
       /\ sd.sector_size = 512 * Factor
       /\ sd.sectors = vdev.capacity \div Factor
  /\ sd.sectors # 0 => /\ sd.sector_size = 512 * Factor
                       /\ sd.sectors * Factor <= vdev.capacity
  /\ probe = "mode" => sd.length = 24
  /\ probe = "ready" => (sd.WCE <=> vdev.cache_policy = "back")

(* Blocks and sectors.                                                     *)
LEMMA Scaled ==
  ASSUME NEW z \in {1, 2, 4, 8}, NEW c \in Nat
  PROVE  /\ c \div z \in Nat /\ c \div z <= c /\ (c \div z) * z <= c
         /\ z <= c => c \div z # 0
         /\ (c * 512) \div (512 * z) = c \div z
<1>1. CASE z = 1
  BY <1>1
<1>2. CASE z = 2
  BY <1>2
<1>3. CASE z = 4
  BY <1>3
<1>4. CASE z = 8
  BY <1>4
<1> QED
  BY <1>1, <1>2, <1>3, <1>4

(* What the types say of a disk and its block.                             *)
LEMMA Factors ==
  ASSUME AnswersTypeOK
  PROVE  /\ Factor \in {1, 2, 4, 8}
         /\ vdev.capacity \in Nat /\ vdev.capacity < Power[8]
         /\ SectorSizeByte * 256 = 512 * Factor
         /\ WholeBlocks => Factor <= vdev.capacity
<1>1. /\ vdev.sector_size_shift \in Shifts \cup {0} /\ vdev.capacity \in Capacities
      /\ vdev.sector_size_shift \in {0, 1, 2, 3} /\ vdev.capacity \in 1 .. Power[8] - 1
  <2>1. vdev.sector_size_shift \in Shifts \cup {0} /\ vdev.capacity \in Capacities
    BY DEF AnswersTypeOK
  <2>2. Shifts \subseteq 0 .. 3 /\ Capacities \subseteq 1 .. Power[8] - 1
    BY ScsiAnswersAssumption DEF ScsiAnswersAssumption
  <2>3. 0 .. 3 = {0, 1, 2, 3}
    OBVIOUS
  <2> QED
    BY <2>1, <2>2, <2>3
<1>2. Factor \in {1, 2, 4, 8}
  <2>1. 2 ^ 0 = 1 /\ 2 ^ 1 = 2 /\ 2 ^ 2 = 4 /\ 2 ^ 3 = 8
    OBVIOUS
  <2> QED
    BY <1>1, <2>1 DEF Factor
<1>3. Power[8] \in Nat
  BY Powers
<1>4. vdev.capacity \in Nat /\ vdev.capacity < Power[8]
  BY <1>1, <1>3
<1>5. SectorSizeByte * 256 = 512 * Factor
  <2>1. SectorSizeByte = (2 * Factor) % 256
    BY DEF SectorSizeByte, Factor
  <2> QED
    BY <1>2, <2>1
<1>6. WholeBlocks => Factor <= vdev.capacity
  BY <1>1 DEF WholeBlocks, Factor
<1> QED
  BY <1>2, <1>4, <1>5, <1>6

(* What sd learns from READ CAPACITY.                                      *)
LEMMA CapacityLearned ==
  ASSUME AnswersTypeOK, WholeBlocks
  PROVE  LET top == Value(SubSeq(ReadCapacity, 1, 4))
             cap == vdev.capacity \div Factor
         IN  /\ top # Power[4] - 1 => top + 1 = cap
             /\ ReadCapacity[5] * 256 = 512 * Factor
             /\ Value(SubSeq(ReadCapacity16, 1, 8)) + 1 = cap
             /\ ReadCapacity16[9] * 256 = 512 * Factor
<1> DEFINE cap == vdev.capacity \div Factor
           x == IF cap > Power[4] - 1 THEN Power[4] - 1 ELSE cap - 1
<1>1. /\ Factor \in {1, 2, 4, 8} /\ vdev.capacity \in Nat /\ vdev.capacity < Power[8]
      /\ SectorSizeByte * 256 = 512 * Factor /\ Factor <= vdev.capacity
  BY Factors
<1>2. cap \in Nat /\ cap <= vdev.capacity /\ cap # 0
  BY <1>1, Scaled
<1>3. /\ ReadCapacity = Bytes(x, 4) \o <<SectorSizeByte>>
      /\ ReadCapacity16 = Bytes(cap - 1, 8) \o <<SectorSizeByte>>
  BY DEF ReadCapacity, ReadCapacity16, Factor
<1> HIDE DEF cap
<1>4. Power[4] \in Nat \ {0} /\ Power[8] \in Nat \ {0}
  BY Powers
<1>5. x \in Nat /\ x < Power[4] /\ cap - 1 \in Nat /\ cap - 1 < Power[8]
  BY <1>1, <1>2, <1>4
<1>6. x # Power[4] - 1 => x + 1 = cap
  BY <1>2, <1>4
<1> HIDE DEF x
<1>7. SubSeq(ReadCapacity, 1, 4) = Bytes(x, 4) /\ ReadCapacity[5] = SectorSizeByte
  <2>1. x \in Int /\ 4 \in 1 .. 8 /\ 4 + 1 = 5
    BY <1>5
  <2>2. /\ SubSeq(Bytes(x, 4) \o <<SectorSizeByte>>, 1, 4) = Bytes(x, 4)
        /\ (Bytes(x, 4) \o <<SectorSizeByte>>)[4 + 1] = SectorSizeByte
    BY <2>1, WithOneMore
  <2> QED
    BY <1>3, <2>1, <2>2
<1>8. SubSeq(ReadCapacity16, 1, 8) = Bytes(cap - 1, 8) /\ ReadCapacity16[9] = SectorSizeByte
  <2>1. cap - 1 \in Int /\ 8 \in 1 .. 8 /\ 8 + 1 = 9
    BY <1>5
  <2>2. /\ SubSeq(Bytes(cap - 1, 8) \o <<SectorSizeByte>>, 1, 8) = Bytes(cap - 1, 8)
        /\ (Bytes(cap - 1, 8) \o <<SectorSizeByte>>)[8 + 1] = SectorSizeByte
    BY <2>1, WithOneMore
  <2> QED
    BY <1>3, <2>1, <2>2
<1>9. Value(Bytes(x, 4)) = x /\ Value(Bytes(cap - 1, 8)) = cap - 1
  BY <1>5, ValueOfBytes
<1>10. /\ Value(SubSeq(ReadCapacity, 1, 4)) # Power[4] - 1
             => Value(SubSeq(ReadCapacity, 1, 4)) + 1 = cap
       /\ Value(SubSeq(ReadCapacity16, 1, 8)) + 1 = cap
  <2>1. cap - 1 + 1 = cap
    BY <1>2
  <2> QED
    BY <1>6, <1>7, <1>8, <1>9, <2>1
<1> QED
  BY <1>1, <1>7, <1>8, <1>10 DEF cap

(* What it learns from MODE SENSE.                                         *)
LEMMA ModeLearned ==
  /\ LET a == DoModeSense("MODE_SENSE", 0, 8, 4) IN a.result = "ok" /\ a.length = 24
  /\ LET a == DoModeSense("MODE_SENSE", 0, 8, 24)
     IN  a.result = "ok" /\ a.filled # <<>> /\ a.filled[1].page.WCE = CachingPage.WCE
<1>1. ASSUME NEW bufflen \in Nat, bufflen >= 4
      PROVE  DoModeSense("MODE_SENSE", 0, 8, bufflen).result = "ok"
  BY <1>1 DEF DoModeSense, Header, ModePages
<1>2. CachingPage.size = 20 /\ Header("MODE_SENSE") = 4 /\ 8 \in ModePages
  BY DEF CachingPage, Header, ModePages
<1>3. ASSUME NEW bufflen \in Nat
      PROVE  /\ Pages("MODE_SENSE", 8, bufflen).output_len = 24
             /\ Pages("MODE_SENSE", 8, bufflen).filled =
                  IF 24 <= bufflen THEN <<[at |-> 4, page |-> CachingPage]>> ELSE <<>>
  <2>1. /\ Pages("MODE_SENSE", 8, bufflen).output_len = 4 + CachingPage.size
        /\ Pages("MODE_SENSE", 8, bufflen).filled =
             IF 4 + CachingPage.size <= bufflen THEN <<[at |-> 4, page |-> CachingPage]>> ELSE <<>>
    BY <1>2, PagesFilled
  <2> QED
    BY <1>2, <2>1
<1>4. DoModeSense("MODE_SENSE", 0, 8, 4).length = 24
  <2>1. DoModeSense("MODE_SENSE", 0, 8, 4).length
          = ((Pages("MODE_SENSE", 8, 4).output_len - 1) % 256) + 1
    BY <1>1, ModeAnswer
  <2> QED
    BY <1>3, <2>1
<1>5. DoModeSense("MODE_SENSE", 0, 8, 24).filled = <<[at |-> 4, page |-> CachingPage]>>
  <2>1. DoModeSense("MODE_SENSE", 0, 8, 24).filled = Pages("MODE_SENSE", 8, 24).filled
    BY <1>1, ModeAnswer
  <2> QED
    BY <1>3, <2>1
<1> QED
  BY <1>1, <1>4, <1>5

-----------------------------------------------------------------------------
(* An answer to MODE SENSE says so.                                        *)
LEMMA ModeOp ==
  ASSUME NEW op, NEW control, NEW page, NEW bufflen
  PROVE  DoModeSense(op, control, page, bufflen).op = op
BY DEF DoModeSense, CheckCondition

(* Where the answer in hand comes from.                                    *)
LEMMA AnswerFrom ==
  ASSUME [AnswersNext]_answersVars, probe = "mode" => sd.length = 24
  PROVE  \/ answer' = answer /\ pages' = pages
         \/ answer' = None /\ pages' = pages
         \/ /\ pages' = pages
            /\ \E op \in {"MODE_SENSE", "MODE_SENSE_10"}, control \in {0, 1, 3},
                  page \in {1, 8, 10, 12, 63}, bufflen \in Nat :
                 answer' = DoModeSense(op, control, page, bufflen)
         \/ AskVpd
<1>1. ASSUME LearnModeLength
      PROVE  /\ pages' = pages
             /\ \E op \in {"MODE_SENSE", "MODE_SENSE_10"}, control \in {0, 1, 3},
                  page \in {1, 8, 10, 12, 63}, bufflen \in Nat :
                 answer' = DoModeSense(op, control, page, bufflen)
  BY <1>1 DEF LearnModeLength
<1>2. ASSUME LearnCachePolicy
      PROVE  /\ pages' = pages
             /\ \E op \in {"MODE_SENSE", "MODE_SENSE_10"}, control \in {0, 1, 3},
                  page \in {1, 8, 10, 12, 63}, bufflen \in Nat :
                 answer' = DoModeSense(op, control, page, bufflen)
  <2>1. (IF sd.length > 20 THEN 20 ELSE sd.length) + 4 = 24
    BY <1>2 DEF LearnCachePolicy
  <2> QED
    BY <1>2, <2>1 DEF LearnCachePolicy
<1>3. ASSUME AskMode
      PROVE  /\ pages' = pages
             /\ \E op \in {"MODE_SENSE", "MODE_SENSE_10"}, control \in {0, 1, 3},
                  page \in {1, 8, 10, 12, 63}, bufflen \in Nat :
                 answer' = DoModeSense(op, control, page, bufflen)
  <2>1. {4, 8, 20, 24, 28, 40, 48, 52, 64} \subseteq Nat
    OBVIOUS
  <2> QED
    BY <1>3, <2>1 DEF AskMode
<1>4. CASE LearnCapacity10 \/ LearnCapacity16 \/ Grow \/ Revalidate \/ Transfer \/ Passthrough
           \/ AnswerDone \/ UNCHANGED answersVars
  BY <1>4 DEF LearnCapacity10, LearnCapacity16, Grow, Revalidate, Transfer, Passthrough,
              AnswerDone, answersVars
<1> QED
  BY <1>1, <1>2, <1>3, <1>4 DEF AnswersNext

(* What sd announces in its second MODE SENSE.                             *)
LengthKnown ==
  /\ DOMAIN sd = {"sectors", "sector_size", "length", "WCE"}
  /\ probe = "mode" => sd.length = 24

(* It announces the caching page alone.                                    *)
LEMMA LengthIsKnown == AnswersSpec => []LengthKnown
<1>1. AnswersInit => LengthKnown
  BY DEF AnswersInit, LengthKnown
<1>2. LengthKnown /\ [AnswersNext]_answersVars => LengthKnown'
  <2> SUFFICES ASSUME LengthKnown, [AnswersNext]_answersVars PROVE LengthKnown'
    OBVIOUS
  <2>1. CASE LearnModeLength
    <3>1. answer'.result = "ok" /\ answer'.length = 24
      BY <2>1, ModeLearned DEF LearnModeLength
    <3>2. sd' = [sd EXCEPT !.length = 24]
      BY <2>1, <3>1 DEF LearnModeLength
    <3> QED
      BY <3>2 DEF LengthKnown
  <2>2. CASE LearnCapacity10 \/ LearnCapacity16
    <3>1. DOMAIN sd' = DOMAIN sd /\ probe' # "mode"
      BY <2>2 DEF LearnCapacity10, LearnCapacity16, LengthKnown
    <3> QED
      BY <3>1 DEF LengthKnown
  <2>3. CASE LearnCachePolicy
    <3>1. DOMAIN sd' = DOMAIN sd /\ probe' # "mode"
      BY <2>3 DEF LearnCachePolicy, LengthKnown
    <3> QED
      BY <3>1 DEF LengthKnown
  <2>4. CASE AskMode \/ AskVpd \/ Grow \/ Revalidate \/ Transfer \/ Passthrough
             \/ AnswerDone \/ UNCHANGED answersVars
    <3>1. sd' = sd /\ (probe' = probe \/ probe' = "capacity10")
      BY <2>4 DEF AskMode, AskVpd, Grow, Revalidate, Transfer, Passthrough, AnswerDone, answersVars
    <3> QED
      BY <3>1 DEF LengthKnown
  <2> QED
    BY <2>1, <2>2, <2>3, <2>4 DEF AnswersNext
<1> QED
  BY <1>1, <1>2, PTL DEF AnswersSpec

(* For any buffer: the mode pages lie one behind the other and end where   *)
(* the announced length says, whatever of them fits.                       *)
THEOREM PagesAreFilled == AnswersSpec => []ModePagesFillTheLength
<1>1. AnswersInit => ModePagesFillTheLength
  BY DEF AnswersInit, ModePagesFillTheLength, None
<1>2. LengthKnown /\ ModePagesFillTheLength /\ [AnswersNext]_answersVars => ModePagesFillTheLength'
  <2> SUFFICES ASSUME LengthKnown, ModePagesFillTheLength, [AnswersNext]_answersVars
               PROVE  ModePagesFillTheLength'
    OBVIOUS
  <2>0. /\ ModePagesFillTheLength <=>
             (answer.op \in {"MODE_SENSE", "MODE_SENSE_10"} /\ answer.result = "ok" => Fills(answer))
        /\ ModePagesFillTheLength' <=>
             (answer'.op \in {"MODE_SENSE", "MODE_SENSE_10"} /\ answer'.result = "ok" => Fills(answer'))
    BY DEF ModePagesFillTheLength, Fills
  <2>1. CASE answer' = answer
    BY <2>0, <2>1
  <2>2. CASE answer' = None
    BY <2>0, <2>2 DEF None
  <2>3. ASSUME NEW op \in {"MODE_SENSE", "MODE_SENSE_10"}, NEW control, NEW page,
               NEW bufflen \in Nat, answer' = DoModeSense(op, control, page, bufflen)
        PROVE  ModePagesFillTheLength'
    BY <2>0, <2>3, ModeSenseFills
  <2>4. CASE AskVpd
    <3>1. answer'.op = "VPD"
      BY <2>4 DEF AskVpd
    <3> QED
      BY <2>0, <3>1
  <2> QED
    BY <2>1, <2>2, <2>3, <2>4, AnswerFrom DEF LengthKnown
<1> QED
  BY <1>1, <1>2, LengthIsKnown, PTL DEF AnswersSpec

(* The mid layer knows no list of VPD pages or the one there is.           *)
PagesKnown == pages \in {{0}, {0, 128, 131}}

(* For any disk: the VPD pages of the list are those that are answered.    *)
THEOREM VpdListHolds == AnswersSpec => []VpdListIsTrue
<1> DEFINE Inv == PagesKnown /\ VpdListIsTrue
<1>1. AnswersInit => Inv
  BY DEF AnswersInit, PagesKnown, VpdListIsTrue, None
<1>2. LengthKnown /\ Inv /\ [AnswersNext]_answersVars => Inv'
  <2> SUFFICES ASSUME LengthKnown, Inv, [AnswersNext]_answersVars PROVE Inv'
    OBVIOUS
  <2>1. CASE answer' = answer /\ pages' = pages
    BY <2>1 DEF PagesKnown, VpdListIsTrue
  <2>2. CASE answer' = None /\ pages' = pages
    BY <2>2 DEF PagesKnown, VpdListIsTrue, None
  <2>3. ASSUME NEW op \in {"MODE_SENSE", "MODE_SENSE_10"}, NEW control, NEW page, NEW bufflen,
               answer' = DoModeSense(op, control, page, bufflen), pages' = pages
        PROVE  Inv'
    <3>1. answer'.op # "VPD"
      BY <2>3, ModeOp
    <3> QED
      BY <2>3, <3>1 DEF PagesKnown, VpdListIsTrue
  <2>4. CASE AskVpd
    <3>1. PICK page \in {0, 128, 131, 176}, buflen \in {4, 36, 255} :
            LET vpd == VpdPage(page, buflen)
            IN  /\ answer' = [op |-> "VPD", asked |-> page, bufflen |-> buflen, vpd |-> vpd]
                /\ pages' = IF page = 0 /\ vpd.result = "ok"
                            THEN {vpd.payload[k] : k \in 1 .. vpd.len} ELSE pages
      BY <2>4 DEF AskVpd
    <3> DEFINE v == VpdPage(page, buflen)
    <3>2. /\ v.result = "ok" <=> buflen >= 36 /\ page \in {0, 128, 131}
          /\ v.result = "ok" => v.code = page /\ v.len = Len(v.payload)
          /\ v.result = "ok" /\ page = 0 => Payload(v) = {0, 128, 131}
      <4>1. buflen \in Nat
        OBVIOUS
      <4> QED
        BY <4>1, VpdAnswer
    <3>3. /\ answer'.op = "VPD" /\ answer'.asked = page /\ answer'.bufflen = buflen
          /\ answer'.vpd = v
          /\ pages' = IF page = 0 /\ v.result = "ok" THEN Payload(v) ELSE pages
      BY <3>1 DEF Payload
    <3> HIDE DEF v
    <3>4. PagesKnown'
      BY <3>2, <3>3 DEF PagesKnown
    <3>5. buflen >= 36 /\ pages' # {0} => (page \in pages' <=> v.result = "ok")
      <4>1. SUFFICES ASSUME buflen >= 36, pages' = {0, 128, 131} PROVE page \in pages' <=> v.result = "ok"
        BY <3>4 DEF PagesKnown
      <4> QED
        BY <3>2, <4>1
    <3>6. VpdListIsTrue'
      BY <3>2, <3>3, <3>5 DEF VpdListIsTrue
    <3> QED
      BY <3>4, <3>6
  <2> QED
    BY <2>1, <2>2, <2>3, <2>4, AnswerFrom DEF LengthKnown
<1> QED
  BY <1>1, <1>2, LengthIsKnown, PTL DEF AnswersSpec

-----------------------------------------------------------------------------
(* What sd knows follows the disk.                                         *)
SdInv == AnswersTypeOK /\ Learned

(* Every step of sd, of the users and of the LDM keeps it so.              *)
LEMMA SdInvKept ==
  ASSUME WholeBlocks, SdInv, [AnswersNext]_answersVars
  PROVE  SdInv'
<1> USE DEF SdInv
<1> DEFINE cap == vdev.capacity \div Factor
<1>1. /\ Factor \in {1, 2, 4, 8} /\ vdev.capacity \in Nat
      /\ cap \in Nat /\ cap * Factor <= vdev.capacity
  BY Factors, Scaled
<1>2. 512 * Factor \in Nat
  BY <1>1
<1>3. /\ sd \in [sectors : Nat, sector_size : Nat, length : Nat, WCE : BOOLEAN]
      /\ probe \in {"capacity10", "capacity16", "mode4", "mode", "ready"}
      /\ grown \in BOOLEAN /\ pages \in {{0}, {0, 128, 131}}
  BY DEF AnswersTypeOK
<1>4. ASSUME vdev' = vdev, sd' = sd, grown' = grown,
             pages' \in {{0}, {0, 128, 131}},
             probe' = probe \/ (probe' = "capacity10" /\ grown)
      PROVE  SdInv'
  BY <1>3, <1>4 DEF AnswersTypeOK, Learned, Factor
<1>5. ASSUME vdev' = vdev, pages' = pages, grown' \in BOOLEAN, probe' = "mode4",
             sd' = [sd EXCEPT !.sectors = cap, !.sector_size = 512 * Factor]
      PROVE  SdInv'
  <2>1. Factor' = Factor
    BY <1>5 DEF Factor
  <2>2. /\ sd'.sectors = cap /\ sd'.sector_size = 512 * Factor
        /\ sd' \in [sectors : Nat, sector_size : Nat, length : Nat, WCE : BOOLEAN]
    <3> DEFINE size == 512 * Factor
    <3>1. /\ cap \in Nat /\ size \in Nat
          /\ sd' = [sd EXCEPT !.sectors = cap, !.sector_size = size]
      BY <1>1, <1>2, <1>5
    <3> HIDE DEF cap, size
    <3>2. /\ sd'.sectors = cap /\ sd'.sector_size = size
          /\ sd' \in [sectors : Nat, sector_size : Nat, length : Nat, WCE : BOOLEAN]
      BY <1>3, <3>1
    <3> QED
      BY <3>2 DEF size
  <2>3. AnswersTypeOK'
    BY <1>3, <1>5, <2>2 DEF AnswersTypeOK
  <2>4. Learned'
    BY <1>1, <1>5, <2>1, <2>2 DEF Learned
  <2> QED
    BY <2>3, <2>4
<1>6. CASE LearnCapacity10
  <2> DEFINE top == Value(SubSeq(ReadCapacity, 1, 4))
  <2>1. vdev' = vdev /\ pages' = pages /\ grown' = FALSE
    BY <1>6 DEF LearnCapacity10
  <2>2. CASE top = Power[4] - 1
    <3>1. sd' = sd /\ probe' = "capacity16"
      BY <1>6, <2>2 DEF LearnCapacity10
    <3>2. AnswersTypeOK'
      BY <1>3, <2>1, <3>1 DEF AnswersTypeOK
    <3>3. Learned'
      BY <2>1, <3>1 DEF Learned, Factor
    <3> QED
      BY <3>2, <3>3
  <2>3. CASE top # Power[4] - 1
    <3>1. top + 1 = cap /\ ReadCapacity[5] * 256 = 512 * Factor
      BY <2>3, CapacityLearned
    <3>2. sd' = [sd EXCEPT !.sectors = cap, !.sector_size = 512 * Factor] /\ probe' = "mode4"
      BY <1>6, <2>3, <3>1 DEF LearnCapacity10
    <3> QED
      BY <1>5, <2>1, <3>2
  <2> QED
    BY <2>2, <2>3
<1>7. CASE LearnCapacity16
  <2>1. Value(SubSeq(ReadCapacity16, 1, 8)) + 1 = cap /\ ReadCapacity16[9] * 256 = 512 * Factor
    BY CapacityLearned
  <2>2. /\ vdev' = vdev /\ pages' = pages /\ grown' = grown /\ probe' = "mode4"
        /\ sd' = [sd EXCEPT !.sectors = cap, !.sector_size = 512 * Factor]
    BY <1>7, <2>1 DEF LearnCapacity16
  <2> QED
    BY <1>3, <1>5, <2>2
<1>8. CASE LearnModeLength
  <2>1. answer'.result = "ok" /\ answer'.length = 24
    BY <1>8, ModeLearned DEF LearnModeLength
  <2>2. /\ sd' = [sd EXCEPT !.length = 24]
        /\ vdev' = vdev /\ grown' = grown /\ pages' = pages
        /\ probe = "mode4" /\ probe' = "mode"
    BY <1>8, <2>1 DEF LearnModeLength
  <2>3. /\ sd'.sectors = sd.sectors /\ sd'.sector_size = sd.sector_size /\ sd'.length = 24
        /\ sd' \in [sectors : Nat, sector_size : Nat, length : Nat, WCE : BOOLEAN]
    BY <1>3, <2>2
  <2>4. Factor' = Factor
    BY <2>2 DEF Factor
  <2>5. AnswersTypeOK'
    BY <1>3, <2>2, <2>3 DEF AnswersTypeOK
  <2>6. Learned'
    BY <2>2, <2>3, <2>4 DEF Learned
  <2> QED
    BY <2>5, <2>6
<1>9. CASE LearnCachePolicy
  <2> DEFINE wce == vdev.cache_policy = "back"
  <2>1. (IF sd.length > 20 THEN 20 ELSE sd.length) + 4 = 24
    BY <1>9 DEF LearnCachePolicy, Learned
  <2>2. answer' = DoModeSense("MODE_SENSE", 0, 8, 24)
    BY <1>9, <2>1 DEF LearnCachePolicy
  <2>3. /\ answer'.result = "ok" /\ answer'.filled # <<>>
        /\ answer'.filled[1].page.WCE = CachingPage.WCE
    BY <2>2, ModeLearned
  <2>4. CachingPage.WCE = wce
    BY DEF CachingPage
  <2>5. /\ vdev' = vdev /\ grown' = grown /\ pages' = pages
        /\ probe = "mode" /\ probe' = "ready"
        /\ sd' = [sd EXCEPT !.WCE = /\ answer'.result = "ok" /\ answer'.filled # <<>>
                                    /\ answer'.filled[1].page.WCE]
    BY <1>9 DEF LearnCachePolicy
  <2>6. (/\ answer'.result = "ok" /\ answer'.filled # <<>> /\ answer'.filled[1].page.WCE) = wce
    BY <2>3, <2>4
  <2>7. sd' = [sd EXCEPT !.WCE = wce]
    BY <2>5, <2>6
  <2>8. wce \in BOOLEAN
    OBVIOUS
  <2>9. /\ sd'.sectors = sd.sectors /\ sd'.sector_size = sd.sector_size /\ sd'.WCE = wce
        /\ sd' \in [sectors : Nat, sector_size : Nat, length : Nat, WCE : BOOLEAN]
    <3> HIDE DEF wce
    <3> QED
      BY <1>3, <2>7, <2>8
  <2>10. Factor' = Factor
    BY <2>5 DEF Factor
  <2>11. AnswersTypeOK'
    BY <1>3, <2>5, <2>9 DEF AnswersTypeOK
  <2>12. Learned'
    <3>1. sd'.WCE <=> vdev'.cache_policy = "back"
      BY <2>5, <2>9
    <3> QED
      BY <2>5, <2>9, <2>10, <3>1 DEF Learned
  <2> QED
    BY <2>11, <2>12
<1>10. CASE AskVpd
  <2>1. pages' \in {{0}, {0, 128, 131}}
    <3>1. PICK page \in {0, 128, 131, 176}, buflen \in {4, 36, 255} :
            LET vpd == VpdPage(page, buflen)
            IN  /\ answer' = [op |-> "VPD", asked |-> page, bufflen |-> buflen, vpd |-> vpd]
                /\ pages' = IF page = 0 /\ vpd.result = "ok"
                            THEN {vpd.payload[k] : k \in 1 .. vpd.len} ELSE pages
      BY <1>10 DEF AskVpd
    <3> DEFINE v == VpdPage(page, buflen)
    <3>2. buflen \in Nat
      OBVIOUS
    <3>3. v.result = "ok" /\ page = 0 => Payload(v) = {0, 128, 131}
      BY <3>2, VpdAnswer
    <3>4. pages' = IF page = 0 /\ v.result = "ok" THEN Payload(v) ELSE pages
      BY <3>1 DEF Payload
    <3> HIDE DEF v
    <3> QED
      BY <1>3, <3>3, <3>4
  <2> QED
    BY <1>4, <1>10, <2>1 DEF AskVpd
<1>11. CASE Grow
  <2>1. PICK c \in Capacities : c > vdev.capacity /\ vdev' = [vdev EXCEPT !.capacity = c]
    BY <1>11 DEF Grow
  <2>2. sd' = sd /\ probe' = probe /\ pages' = pages /\ grown' = TRUE
    BY <1>11 DEF Grow
  <2>3. c \in Nat
    BY Powers, ScsiAnswersAssumption DEF ScsiAnswersAssumption
  <2>4. /\ vdev'.capacity = c /\ Factor' = Factor /\ vdev'.cache_policy = vdev.cache_policy
        /\ vdev' \in [type : {"raw", "array"}, capacity : Capacities,
                      sector_size_shift : Shifts \cup {0}, cache_policy : {"through", "back"}]
    BY <2>1 DEF AnswersTypeOK, Factor
  <2>5. sd.sectors * Factor \in Nat
    BY <1>1, <1>3
  <2>6. AnswersTypeOK'
    BY <1>3, <2>2, <2>4 DEF AnswersTypeOK
  <2>7. sd.sectors * Factor <= vdev.capacity => sd.sectors * Factor <= c
    BY <1>1, <2>1, <2>3, <2>5
  <2>8. Learned'
    BY <2>2, <2>4, <2>7 DEF Learned
  <2> QED
    BY <2>6, <2>8
<1>12. CASE AskMode \/ Revalidate \/ Transfer \/ Passthrough \/ AnswerDone \/ UNCHANGED answersVars
  BY <1>3, <1>4, <1>12 DEF AskMode, Revalidate, Transfer, Passthrough, AnswerDone, answersVars
<1> QED
  BY <1>6, <1>7, <1>8, <1>9, <1>10, <1>11, <1>12 DEF AnswersNext

(* So it is at all times.                                                  *)
LEMMA SdInvariant == ASSUME WholeBlocks PROVE AnswersSpec => []SdInv
<1>1. AnswersInit => SdInv
  <2> SUFFICES ASSUME AnswersInit PROVE SdInv
    OBVIOUS
  <2>1. /\ sd.sectors = 0 /\ probe = "capacity10"
        /\ sd \in [sectors : Nat, sector_size : Nat, length : Nat, WCE : BOOLEAN]
    BY DEF AnswersInit
  <2>2. AnswersTypeOK
    BY <2>1 DEF AnswersInit, AnswersTypeOK
  <2>3. Learned
    BY <2>1 DEF Learned
  <2> QED
    BY <2>2, <2>3 DEF SdInv
<1>2. SdInv /\ [AnswersNext]_answersVars => SdInv'
  BY SdInvKept
<1> QED
  BY <1>1, <1>2, PTL DEF AnswersSpec

(* For any bytes, capacities and block sizes, each disk being at least one *)
(* of its blocks large: a disk that was probed is known as it is.          *)
THEOREM DisksAreKnown == ASSUME WholeBlocks PROVE AnswersSpec => []SdKnowsTheDisk
<1>1. SdInv => SdKnowsTheDisk
  <2> SUFFICES ASSUME SdInv, probe = "ready", ~grown
               PROVE  /\ sd.sector_size = 512 * Factor
                      /\ sd.sectors = (vdev.capacity * 512) \div sd.sector_size
                      /\ sd.WCE <=> vdev.cache_policy = "back"
    BY DEF SdKnowsTheDisk, Factor
  <2>1. /\ sd.sector_size = 512 * Factor /\ sd.sectors = vdev.capacity \div Factor
        /\ sd.WCE <=> vdev.cache_policy = "back"
    BY DEF SdInv, Learned
  <2>2. Factor \in {1, 2, 4, 8} /\ vdev.capacity \in Nat
    BY Factors DEF SdInv
  <2>3. (vdev.capacity * 512) \div (512 * Factor) = vdev.capacity \div Factor
    BY <2>2, Scaled
  <2> QED
    BY <2>1, <2>3
<1> QED
  BY <1>1, SdInvariant, PTL

-----------------------------------------------------------------------------
(* How the CDB of sd is decoded: every form of it holds the numbers that   *)
(* sd uses it for, and a number of sectors that fits the template fits it. *)
LEMMA Decoded ==
  ASSUME NEW block \in Nat, NEW n \in Nat, NEW use_10 \in BOOLEAN,
         Factor \in {1, 2, 4, 8}, block * Factor < Power[8], n * Factor < Power[2]
  PROVE  Decode(SdCdb(block, n, use_10)) =
           [op |-> "ide", Lba |-> block * Factor, nSectors |-> n * Factor]
<1> DEFINE cdb == SdCdb(block, n, use_10)
           count == IF cdb.form = 16 THEN SubSeq(cdb.count, 3, 4) ELSE cdb.count
<1>1. /\ block < Power[8] /\ n < Power[2]
      /\ \A k \in 0 .. 8 : Power[k] \in Nat \ {0}
      /\ Power[1] = Byte /\ Byte \in Nat
  <2>1. /\ \A k \in 0 .. 8 : Power[k] \in Nat \ {0}
        /\ Power[1] = Byte * Power[0] /\ Power[0] = 1 /\ Byte \in Nat
    BY Powers, ScsiAnswersAssumption DEF ScsiAnswersAssumption
  <2>2. block <= block * Factor /\ n <= n * Factor /\ block * Factor \in Nat /\ n * Factor \in Nat
    OBVIOUS
  <2>3. Power[8] \in Nat /\ Power[2] \in Nat
    BY <2>1
  <2> QED
    BY <2>1, <2>2, <2>3
<1>2. Value(cdb.lba) = block /\ Value(count) = n
  <2>1. CASE block > Power[4] - 1
    <3>1. cdb = [form |-> 16, lba |-> Bytes(block, 8), count |-> Bytes(n, 4)]
      BY <2>1 DEF SdCdb
    <3>2. count = Bytes(n, 2)
      BY <3>1, LowBytes
    <3> HIDE DEF cdb, count
    <3>3. Value(Bytes(block, 8)) = block /\ Value(Bytes(n, 2)) = n
      BY <1>1, ValueOfBytes
    <3> QED
      BY <3>1, <3>2, <3>3
  <2>2. CASE ~(block > Power[4] - 1) /\ (use_10 \/ n > Byte - 1 \/ block > Power[3] \div 8 - 1)
    <3>1. cdb = [form |-> 10, lba |-> Bytes(block, 4), count |-> Bytes(n, 2)]
      BY <2>2 DEF SdCdb
    <3>2. block < Power[4]
      BY <1>1, <2>2
    <3> QED
      BY <1>1, <3>1, <3>2, ValueOfBytes
  <2>3. CASE ~(block > Power[4] - 1) /\ ~(use_10 \/ n > Byte - 1 \/ block > Power[3] \div 8 - 1)
    <3>1. cdb = [form |-> 6, lba |-> Bytes(block, 3), count |-> Bytes(n, 1)]
      BY <2>3 DEF SdCdb
    <3>2. block < Power[3] /\ n < Power[1]
      <4>1. Power[3] \in Nat /\ ~(block > Power[3] \div 8 - 1) /\ ~(n > Byte - 1)
        BY <1>1, <2>3
      <4> QED
        BY <1>1, <4>1
    <3> QED
      BY <1>1, <3>1, <3>2, ValueOfBytes
  <2> QED
    BY <2>1, <2>2, <2>3
<1>3. Decode(cdb) = [op |-> "ide",
                     Lba |-> (Value(cdb.lba) * Factor) % Power[8],
                     nSectors |-> (Value(count) * Factor) % Power[2]]
  BY DEF Decode, Factor
<1> HIDE DEF cdb, count
<1>4. (block * Factor) % Power[8] = block * Factor /\ (n * Factor) % Power[2] = n * Factor
  <2>1. ASSUME NEW a \in Nat, NEW p \in Nat \ {0}, a < p PROVE a % p = a
    BY <2>1
  <2>2. block * Factor \in Nat /\ n * Factor \in Nat
    OBVIOUS
  <2> QED
    BY <1>1, <2>1, <2>2
<1> QED
  BY <1>2, <1>3, <1>4 DEF cdb

(* For any bytes, capacities, block sizes, blocks and limit of a transfer: *)
(* what the LDM is given is what was asked for, within the disk.           *)
THEOREM RequestsAreCarried == ASSUME WholeBlocks PROVE AnswersSpec => []CarriesTheRequest
<1> DEFINE Inv == CarriesTheRequest /\ (req = None => pCmd = None)
<1>1. AnswersInit => Inv
  BY DEF AnswersInit, CarriesTheRequest, None
<1>2. SdInv /\ Inv /\ [AnswersNext]_answersVars => Inv'
  <2> SUFFICES ASSUME SdInv, Inv, [AnswersNext]_answersVars PROVE Inv'
    OBVIOUS
  <2>1. CASE Transfer
    <3>1. PICK block \in Blocks, n \in {1, 2, Byte - 1, Byte, (MaxSectors * 512) \div sd.sector_size},
               use_10 \in BOOLEAN :
            /\ n > 0 /\ n * sd.sector_size <= MaxSectors * 512
            /\ block + n <= sd.sectors
            /\ req' = [op |-> "rw", bytes |-> sd.sector_size, block |-> block, n |-> n]
            /\ pCmd' = Decode(SdCdb(block, n, use_10))
      BY <2>1 DEF Transfer
    <3>2. sd.sectors > 0 /\ vdev' = vdev
      BY <2>1 DEF Transfer
    <3>3. /\ Factor \in {1, 2, 4, 8} /\ vdev.capacity \in Nat /\ vdev.capacity < Power[8]
          /\ Power[8] \in Nat /\ Power[2] \in Nat /\ Byte \in Nat /\ Byte # 0
          /\ MaxSectors \in Nat /\ MaxSectors < Power[2] /\ block \in Nat
      <4>1. Power[8] \in Nat /\ Power[2] \in Nat
        BY Powers
      <4>2. MaxSectors \in 1 .. Power[2] - 1 /\ Byte \in Nat \ {0, 1} /\ Blocks \subseteq Nat
        BY ScsiAnswersAssumption DEF ScsiAnswersAssumption
      <4> QED
        BY <4>1, <4>2, Factors DEF SdInv
    <3>4. /\ sd.sectors \in Nat /\ sd.sector_size = 512 * Factor
          /\ sd.sectors * Factor <= vdev.capacity
      BY <3>2 DEF SdInv, AnswersTypeOK, Learned
    <3>5. n \in Nat
      <4>1. (MaxSectors * 512) \div (512 * Factor) \in Nat
        BY <3>3
      <4> QED
        BY <3>1, <3>3, <3>4, <4>1
    <3>6. n * (512 * Factor) = (n * Factor) * 512 /\ n * Factor \in Nat /\ n * Factor > 0
      BY <3>1, <3>3, <3>5
    <3>7. n * Factor < Power[2]
      BY <3>1, <3>3, <3>4, <3>6
    <3>8. block * Factor + n * Factor <= vdev.capacity /\ block * Factor \in Nat
      <4>1. block * Factor + n * Factor <= sd.sectors * Factor
        BY <3>1, <3>3, <3>4, <3>5
      <4>2. block * Factor \in Nat /\ sd.sectors * Factor \in Nat
        BY <3>3, <3>4
      <4> QED
        BY <3>3, <3>4, <3>6, <4>1, <4>2
    <3>9. block * Factor < Power[8]
      BY <3>3, <3>6, <3>8
    <3>10. pCmd' = [op |-> "ide", Lba |-> block * Factor, nSectors |-> n * Factor]
      BY <3>1, <3>3, <3>5, <3>7, <3>9, Decoded
    <3>11. /\ (block * Factor) * 512 = block * sd.sector_size
           /\ (n * Factor) * 512 = n * sd.sector_size
      BY <3>3, <3>4, <3>5
    <3>12. /\ req' # None
      BY <3>1 DEF None
    <3>13. /\ pCmd'.op = "ide" /\ pCmd'.Lba = block * Factor /\ pCmd'.nSectors = n * Factor
           /\ req'.block = block /\ req'.n = n /\ req'.bytes = sd.sector_size
      BY <3>1, <3>10
    <3> QED
      BY <3>2, <3>6, <3>8, <3>11, <3>12, <3>13 DEF CarriesTheRequest
  <2>2. CASE Passthrough
    <3>1. pCmd' = DecodePassthrough(req')
      BY <2>2 DEF Passthrough
    <3>2. req'.t_dir \in {"in", "out"} /\ req'.op = "ata"
      BY <2>2 DEF Passthrough
    <3>3. req' # None
      BY <3>2 DEF None
    <3>4. CASE pCmd' = None
      BY <3>3, <3>4 DEF None, CarriesTheRequest
    <3>5. CASE pCmd' # None
      <4>1. /\ req'.t_length # 0 => ~(req'.prot = 4 /\ req'.t_dir = "out")
            /\ req'.t_length # 0 => ~(req'.prot = 5 /\ req'.t_dir = "in")
            /\ pCmd' = [op |-> "passthrough", data_in |-> req'.prot = 4, data_out |-> req'.prot = 5]
        BY <3>1, <3>5 DEF DecodePassthrough
      <4>2. /\ pCmd'.op = "passthrough"
            /\ pCmd'.data_in <=> req'.prot = 4
            /\ pCmd'.data_out <=> req'.prot = 5
        BY <4>1
      <4> QED
        BY <3>2, <3>3, <4>1, <4>2 DEF CarriesTheRequest
    <3> QED
      BY <3>4, <3>5
  <2>3. CASE Grow
    <3>1. pCmd' = None /\ req' = req
      BY <2>3 DEF Grow, Idle
    <3> QED
      BY <3>1 DEF CarriesTheRequest, None
  <2>4. CASE AnswerDone
    BY <2>4 DEF AnswerDone, CarriesTheRequest, None
  <2>5. CASE LearnCapacity10 \/ LearnCapacity16 \/ LearnModeLength \/ LearnCachePolicy
             \/ AskMode \/ AskVpd \/ Revalidate \/ UNCHANGED answersVars
    <3>1. pCmd' = pCmd /\ req' = req /\ vdev' = vdev
      BY <2>5 DEF LearnCapacity10, LearnCapacity16, LearnModeLength, LearnCachePolicy,
                  AskMode, AskVpd, Revalidate, answersVars
    <3> QED
      BY <3>1 DEF CarriesTheRequest
  <2> QED
    BY <2>1, <2>2, <2>3, <2>4, <2>5 DEF AnswersNext
<1> QED
  BY <1>1, <1>2, SdInvariant, PTL DEF AnswersSpec
=============================================================================
