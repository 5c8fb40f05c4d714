-------------------------- MODULE Management_proofs --------------------------
(***************************************************************************)
(* Proofs about what management tools see and leave behind, for any disks, *)
(* arrays, tasks, texts and sizes.  ProcInfo: Window says what the buffer  *)
(* holds when made characters are done; it must be known together with     *)
(* where the reader is, or the end of a read would not fit to what the     *)
(* reader has.  Management: what a call has still to do belongs to that    *)
(* call (Calls), what is allocated follows from where it is (Heap, with    *)
(* Argument), and the lines printed and the work to come are the forest of *)
(* the devices (Forest).                                                   *)
(***************************************************************************)
EXTENDS Management, SequenceTheorems, FiniteSetTheorems, TLAPS

-----------------------------------------------------------------------------
(* The window of /proc.                                                    *)

(* A reader reads on where it has come to, and has come no further than    *)
(* the text; the end of the file ends the reading.                         *)
ReaderAt ==
  /\ reading => bufoffset = Len(got) /\ ~eof
  /\ made <= text /\ Len(got) <= text

ReaderInv == TypeOK /\ Window /\ ReadsTextInOrder /\ ReaderAt

(* The characters of a run of positions.                                   *)
LEMMA Run ==
  ASSUME NEW data \in Nat, NEW n \in Nat
  PROVE  LET r == [k \in 1 .. n |-> data + k - 1]
         IN  r \in Seq(Nat) /\ Len(r) = n /\ \A k \in 1 .. n : r[k] = data + k - 1
<1> DEFINE r == [k \in 1 .. n |-> data + k - 1]
<1>1. r \in [1 .. n -> Nat]
  OBVIOUS
<1>2. r \in Seq(Nat) /\ Len(r) = n
  BY <1>1, SeqDef, LenProperties
<1> QED
  BY <1>2

(* What is joined has the elements of both.                                *)
LEMMA Joined ==
  ASSUME NEW s \in Seq(Nat), NEW t \in Seq(Nat)
  PROVE  /\ s \o t \in Seq(Nat) /\ Len(s \o t) = Len(s) + Len(t)
         /\ \A k \in 1 .. Len(s) : (s \o t)[k] = s[k]
         /\ \A k \in Len(s) + 1 .. Len(s) + Len(t) : (s \o t)[k] = t[k - Len(s)]
  BY ConcatProperties, LenProperties

(* What a piece adds to the buffer: as much of it as there is room for.    *)
LEMMA Kept ==
  ASSUME TypeOK, Window, NEW data \in Nat, NEW datalen \in Nat, Keep(data, datalen)
  PROVE  /\ buffer' \in Seq(Nat) /\ buffillen' \in 0 .. Length /\ Len(buffer') = buffillen'
         /\ buffillen' = IF datalen < Length - buffillen THEN buffillen + datalen ELSE Length
         /\ \A k \in 1 .. buffillen : buffer'[k] = buffer[k]
         /\ \A k \in buffillen + 1 .. buffillen' : buffer'[k] = data + (k - buffillen) - 1
<1> DEFINE n == Smaller(datalen, Length - buffillen)
<1> DEFINE r == [k \in 1 .. n |-> data + k - 1]
<1>1. /\ Length \in Nat /\ buffillen \in 0 .. Length /\ buffer \in Seq(Nat)
      /\ Len(buffer) = buffillen
  BY ProcInfoAssumption DEF ProcInfoAssumption, TypeOK, Window
<1>2. n \in Nat /\ n = IF datalen < Length - buffillen THEN datalen ELSE Length - buffillen
  BY <1>1 DEF Smaller
<1>3. buffer' = buffer \o r /\ buffillen' = buffillen + n
  BY DEF Keep
<1> HIDE DEF n
<1>4. r \in Seq(Nat) /\ Len(r) = n /\ \A k \in 1 .. n : r[k] = data + k - 1
  BY <1>2, Run
<1> HIDE DEF r
<1>5. /\ buffer' \in Seq(Nat) /\ Len(buffer') = buffillen + n
      /\ \A k \in 1 .. buffillen : buffer'[k] = buffer[k]
      /\ \A k \in buffillen + 1 .. buffillen + n : buffer'[k] = r[k - buffillen]
  BY <1>1, <1>3, <1>4, Joined
<1>6. ASSUME NEW k \in buffillen + 1 .. buffillen + n
      PROVE  buffer'[k] = data + (k - buffillen) - 1
  <2>1. k - buffillen \in 1 .. n
    BY <1>1, <1>2
  <2> QED
    BY <2>1, <1>4, <1>5
<1>7. /\ buffillen' = buffillen + n /\ buffillen' \in 0 .. Length
      /\ buffillen' = IF datalen < Length - buffillen THEN buffillen + datalen ELSE Length
  BY <1>1, <1>2, <1>3
<1>8. \A k \in buffillen + 1 .. buffillen' : buffer'[k] = data + (k - buffillen) - 1
  BY <1>6, <1>7
<1> QED
  BY <1>5, <1>7, <1>8

(* The steps that make the text keep the window and where the reader is.   *)
LEMMA CopyKeepsWindow ==
  ASSUME ReaderInv, NEW n \in 1 .. MaxPiece, CopyInfo(n)
  PROVE  ReaderInv'
<1>1. /\ Length \in Nat \ {0} /\ MaxText \in Nat /\ n \in Nat /\ n > 0
      /\ text \in 0 .. MaxText /\ made \in Nat /\ made + n <= text
      /\ bufoffset \in Nat /\ filpos = made /\ reading
      /\ buffillen \in 0 .. Length /\ buffer \in Seq(Nat) /\ Len(buffer) = buffillen
      /\ buffillen = IF made <= bufoffset THEN 0
                     ELSE IF made - bufoffset < Length THEN made - bufoffset ELSE Length
      /\ \A k \in 1 .. buffillen : buffer[k] = bufoffset + k - 1
  BY ProcInfoAssumption DEF ProcInfoAssumption, ReaderInv, TypeOK, Window, Smaller, CopyInfo
<1>2. /\ made' = made + n /\ filpos' = made'
      /\ UNCHANGED <<text, reading, bufoffset, got, eof>>
  BY <1>1 DEF CopyInfo, CopyMemInfo
<1>3. /\ buffer' \in Seq(Nat) /\ buffillen' \in 0 .. Length /\ Len(buffer') = buffillen'
      /\ buffillen' = IF made' <= bufoffset THEN 0
                      ELSE IF made' - bufoffset < Length THEN made' - bufoffset ELSE Length
      /\ \A k \in 1 .. buffillen' : buffer'[k] = bufoffset + k - 1
  <2>1. CASE made + n <= bufoffset
    <3>1. UNCHANGED <<buffillen, buffer>>
      BY <1>1, <2>1 DEF CopyInfo, CopyMemInfo
    <3> QED
      BY <1>1, <1>2, <2>1, <3>1
  <2>2. CASE made + n > bufoffset /\ made < bufoffset
    <3>1. Keep(made + (bufoffset - made), n - (bufoffset - made))
      BY <1>1, <2>2 DEF CopyInfo, CopyMemInfo
    <3>2. made + (bufoffset - made) = bufoffset /\ n - (bufoffset - made) \in Nat
      BY <1>1, <2>2
    <3>3. Keep(bufoffset, n - (bufoffset - made))
      BY <3>1, <3>2
    <3>4. buffillen = 0
      BY <1>1, <2>2
    <3> DEFINE left == n - (bufoffset - made)
    <3>5. left \in Nat /\ left > 0 /\ made + n - bufoffset = left
      BY <1>1, <2>2
    <3>6. /\ buffer' \in Seq(Nat) /\ buffillen' \in 0 .. Length /\ Len(buffer') = buffillen'
          /\ buffillen' = IF left < Length - buffillen THEN buffillen + left ELSE Length
          /\ \A k \in buffillen + 1 .. buffillen' : buffer'[k] = bufoffset + (k - buffillen) - 1
      BY <1>1, <3>3, <3>5, Kept DEF ReaderInv
    <3> HIDE DEF left
    <3>7. buffillen' = IF left < Length THEN left ELSE Length
      BY <1>1, <3>4, <3>5, <3>6
    <3>8. ASSUME NEW k \in 1 .. buffillen' PROVE buffer'[k] = bufoffset + k - 1
      <4>1. k \in buffillen + 1 .. buffillen' /\ k - buffillen = k
        BY <3>4, <3>6
      <4> QED
        BY <3>6, <4>1
    <3> QED
      BY <1>1, <1>2, <2>2, <3>5, <3>6, <3>7, <3>8
  <2>3. CASE made + n > bufoffset /\ made >= bufoffset
    <3>1. Keep(made, n)
      BY <1>1, <2>3 DEF CopyInfo, CopyMemInfo
    <3>2. /\ buffer' \in Seq(Nat) /\ buffillen' \in 0 .. Length /\ Len(buffer') = buffillen'
          /\ buffillen' = IF n < Length - buffillen THEN buffillen + n ELSE Length
          /\ \A k \in 1 .. buffillen : buffer'[k] = buffer[k]
          /\ \A k \in buffillen + 1 .. buffillen' : buffer'[k] = made + (k - buffillen) - 1
      BY <1>1, <3>1, Kept DEF ReaderInv
    <3>3. \A k \in buffillen + 1 .. buffillen' : buffillen = made - bufoffset
      BY <1>1, <2>3, <3>2
    <3>4. ASSUME NEW k \in 1 .. buffillen' PROVE buffer'[k] = bufoffset + k - 1
      <4>1. CASE k <= buffillen
        BY <1>1, <3>2, <4>1
      <4>2. CASE k > buffillen
        <5>1. k \in buffillen + 1 .. buffillen' /\ k \in Nat
          BY <1>1, <3>2, <4>2
        <5>2. buffer'[k] = made + (k - buffillen) - 1 /\ buffillen = made - bufoffset
          BY <3>2, <3>3, <5>1
        <5> QED
          BY <1>1, <5>1, <5>2
      <4> QED
        BY <1>1, <3>2, <4>1, <4>2
    <3> QED
      BY <1>1, <1>2, <2>3, <3>2, <3>4
  <2> QED
    BY <1>1, <2>1, <2>2, <2>3
<1>4. TypeOK'
  BY <1>1, <1>2, <1>3 DEF TypeOK, ReaderInv
<1>5. Window'
  BY <1>1, <1>2, <1>3 DEF Window, Smaller
<1>6. ReadsTextInOrder' /\ ReaderAt'
  BY <1>1, <1>2 DEF ReadsTextInOrder, ReaderAt, ReaderInv
<1> QED
  BY <1>4, <1>5, <1>6 DEF ReaderInv

(* The end of a read gives the reader the part of the text it asked for.   *)
LEMMA EndKeepsOrder ==
  ASSUME ReaderInv, EndRead
  PROVE  ReaderInv'
<1>1. /\ Length \in Nat \ {0} /\ MaxText \in Nat
      /\ text \in 0 .. MaxText /\ made = text /\ filpos = made
      /\ got \in Seq(Nat) /\ Len(got) \in Nat /\ Len(got) <= text
      /\ bufoffset = Len(got) /\ ~eof
      /\ buffillen \in 0 .. Length /\ buffer \in Seq(Nat) /\ Len(buffer) = buffillen
      /\ buffillen = IF made <= bufoffset THEN 0
                     ELSE IF made - bufoffset < Length THEN made - bufoffset ELSE Length
      /\ \A k \in 1 .. buffillen : buffer[k] = bufoffset + k - 1
      /\ \A k \in 1 .. Len(got) : got[k] = k - 1
  BY ProcInfoAssumption, LenProperties
     DEF ProcInfoAssumption, ReaderInv, TypeOK, Window, ReadsTextInOrder, ReaderAt, Smaller, EndRead
<1>2. SubSeq(buffer, 1, buffillen) = buffer
  BY <1>1, SubSeqFull
<1>0. (eof' <=> buffillen = 0) /\ eof' \in BOOLEAN /\ reading' = FALSE
  BY Zenon DEF EndRead
<1>3. /\ got' = got \o buffer
      /\ UNCHANGED <<text, made, bufoffset, filpos, buffillen, buffer>>
  BY <1>2 DEF EndRead
<1>4. /\ got' \in Seq(Nat) /\ Len(got') = Len(got) + buffillen
      /\ \A k \in 1 .. Len(got) : got'[k] = got[k]
      /\ \A k \in Len(got) + 1 .. Len(got) + buffillen : got'[k] = buffer[k - Len(got)]
  <2> DEFINE all == got \o buffer
  <2>1. /\ all \in Seq(Nat) /\ Len(all) = Len(got) + Len(buffer)
        /\ \A k \in 1 .. Len(got) : all[k] = got[k]
        /\ \A k \in Len(got) + 1 .. Len(got) + Len(buffer) : all[k] = buffer[k - Len(got)]
    BY <1>1, Joined
  <2>2. got' = all /\ Len(buffer) = buffillen
    BY <1>1, <1>3
  <2> HIDE DEF all
  <2> QED
    BY <2>1, <2>2
<1>5. ASSUME NEW k \in 1 .. Len(got') PROVE got'[k] = k - 1
  <2>1. CASE k <= Len(got)
    BY <1>1, <1>4, <2>1
  <2>2. CASE k > Len(got)
    <3>1. /\ k \in Len(got) + 1 .. Len(got) + buffillen /\ k - Len(got) \in 1 .. buffillen
          /\ k \in Nat
      BY <1>1, <1>4, <2>2
    <3>2. got'[k] = bufoffset + (k - Len(got)) - 1
      BY <1>1, <1>4, <3>1
    <3> QED
      BY <1>1, <3>1, <3>2
  <2> QED
    BY <1>1, <1>4, <2>1, <2>2
<1>6. eof' => Len(got') = text'
  BY <1>0, <1>1, <1>3, <1>4
<1>7. Len(got') <= text'
  BY <1>1, <1>3, <1>4
<1>8. TypeOK' /\ Window'
  BY <1>0, <1>1, <1>3, <1>4, <1>7 DEF ReaderInv, TypeOK, Window
<1> QED
  BY <1>0, <1>1, <1>3, <1>5, <1>6, <1>7, <1>8 DEF ReaderInv, ReadsTextInOrder, ReaderAt

(* Before the first read.                                                  *)
LEMMA ReaderStarts == Init => ReaderInv
<1>1. <<>> \in Seq(Nat) /\ Len(<<>>) = 0
  BY EmptySeq
<1>2. SUFFICES ASSUME Init PROVE ReaderInv
  OBVIOUS
<1>3. /\ text \in 0 .. MaxText /\ reading = FALSE /\ made = 0 /\ eof = FALSE
      /\ bufoffset = 0 /\ filpos = 0 /\ buffillen = 0
      /\ buffer = <<>> /\ got = <<>> /\ Length \in Nat /\ MaxText \in Nat
  BY <1>2, ProcInfoAssumption DEF ProcInfoAssumption, Init
<1>4. /\ buffer \in Seq(Nat) /\ Len(buffer) = 0 /\ got \in Seq(Nat) /\ Len(got) = 0
  BY <1>1, <1>3
<1>5. /\ made \in 0 .. MaxText /\ buffillen \in 0 .. Length /\ bufoffset \in Nat
      /\ filpos \in Nat /\ made <= text /\ Len(got) <= text /\ made <= bufoffset
      /\ filpos = made /\ Len(buffer) = buffillen
  BY <1>3, <1>4, ProcInfoAssumption DEF ProcInfoAssumption
<1>6. \A k \in 1 .. 0 : FALSE
  OBVIOUS
<1>7. TypeOK
  BY <1>3, <1>4, <1>5 DEF TypeOK
<1>8. Window
  BY <1>3, <1>5, <1>6 DEF Window
<1>9. ReadsTextInOrder /\ ReaderAt
  BY <1>3, <1>4, <1>5, <1>6 DEF ReadsTextInOrder, ReaderAt
<1> QED
  BY <1>7, <1>8, <1>9 DEF ReaderInv

(* Every piece that is copied, and every end of a read, keeps it.          *)
LEMMA ReaderInductive == ReaderInv /\ [Next]_vars => ReaderInv'
<1>1. ASSUME ReaderInv, StartRead PROVE ReaderInv'
  <2>1. <<>> \in Seq(Nat) /\ Len(<<>>) = 0 /\ Len(got) \in Nat
    BY <1>1, EmptySeq, LenProperties DEF ReaderInv, TypeOK
  <2> QED
    BY <1>1, <2>1, ProcInfoAssumption
       DEF ProcInfoAssumption, StartRead, ReaderInv, TypeOK, Window, ReadsTextInOrder, ReaderAt, Smaller
<1>2. ASSUME ReaderInv, EndRead PROVE ReaderInv'
  BY <1>2, EndKeepsOrder
<1>3. ASSUME ReaderInv, NEW n \in 1 .. MaxPiece, CopyInfo(n) PROVE ReaderInv'
  BY <1>3, CopyKeepsWindow
<1>4. ASSUME ReaderInv, UNCHANGED vars PROVE ReaderInv'
  BY <1>4 DEF vars, ReaderInv, TypeOK, Window, ReadsTextInOrder, ReaderAt
<1> QED
  BY <1>1, <1>2, <1>3, <1>4 DEF Next

(* A reader alone, and one beside the tools' calls, which it shares no     *)
(* state with.                                                             *)
LEMMA ReaderInvariant == (Spec => []ReaderInv) /\ (ManagementSpec => []ReaderInv)
<1>1. ManagementInit => Init
  BY DEF ManagementInit
<1>2. [ManagementNext]_<<vars, mvars>> => [Next]_vars
  BY DEF ManagementNext
<1> QED
  BY <1>1, <1>2, ReaderStarts, ReaderInductive, PTL DEF Spec, ManagementSpec

(* The types, for any text, pieces and buffer; and the buffer holds the    *)
(* part of the text so far that falls into the window.                     *)
THEOREM WindowIsRight == Spec => [](TypeOK /\ Window)
<1>1. ReaderInv => TypeOK /\ Window
  BY DEF ReaderInv
<1> QED
  BY <1>1, ReaderInvariant, PTL

(* For any text, however it is cut into pieces, and any size of buffer:    *)
(* reads that go on where the last one ended give the text in order, and   *)
(* an empty read comes only at its end.                                    *)
THEOREM TextInOrder ==
  (Spec => []ReadsTextInOrder) /\ (ManagementSpec => []ReadsTextInOrder)
<1>1. ReaderInv => ReadsTextInOrder
  BY DEF ReaderInv
<1> QED
  BY <1>1, ReaderInvariant, PTL

-----------------------------------------------------------------------------
(* Sequences of ids and of things to do.                                   *)

(* The j-th of finitely many numbers, for every j up to how many there are.*)
LEMMA Ranks ==
  ASSUME NEW n \in Nat, NEW at \in SUBSET (1 .. n)
  PROVE  LET rank(k) == Cardinality({i \in at : i <= k})
         IN  /\ Cardinality(at) \in Nat
             /\ \A k \in at : rank(k) \in 1 .. Cardinality(at)
             /\ \A k, l \in at : rank(k) = rank(l) => k = l
             /\ \A j \in 1 .. Cardinality(at) : \E k \in at : rank(k) = j
<1> DEFINE upto == [k \in at |-> {i \in at : i <= k}]
<1> DEFINE rank == [k \in at |-> Cardinality(upto[k])]
<1>1. IsFiniteSet(at) /\ Cardinality(at) \in Nat
  <2>1. IsFiniteSet(1 .. n)
    BY FS_Interval
  <2>2. IsFiniteSet(at)
    BY <2>1, FS_Subset
  <2> QED
    BY <2>2, FS_CardinalityType
<1>2. ASSUME NEW k \in at
      PROVE  /\ upto[k] \in SUBSET at /\ IsFiniteSet(upto[k]) /\ k \in upto[k]
             /\ rank[k] \in 1 .. Cardinality(at)
  <2>1. k \in Nat /\ upto[k] \in SUBSET at /\ k \in upto[k]
    OBVIOUS
  <2> HIDE DEF upto
  <2>2. IsFiniteSet(upto[k]) /\ Cardinality(upto[k]) <= Cardinality(at)
        /\ Cardinality(upto[k]) \in Nat
    BY <1>1, <2>1, FS_Subset, FS_CardinalityType
  <2>3. Cardinality(upto[k]) # 0
    BY <2>1, <2>2, FS_EmptySet
  <2> QED
    BY <1>1, <2>1, <2>2, <2>3
<1>3. ASSUME NEW k \in at, NEW l \in at, k < l PROVE rank[k] # rank[l]
  <2>0. at \subseteq Nat /\ upto[k] = {i \in at : i <= k} /\ upto[l] = {i \in at : i <= l}
    OBVIOUS
  <2> HIDE DEF upto
  <2>1. upto[k] \in SUBSET upto[l] /\ l \notin upto[k] /\ l \in upto[l]
    <3>1. \A i \in at : i <= k => i <= l
      BY <1>3, <2>0
    <3>2. ~(l <= k) /\ l <= l
      BY <1>3, <2>0
    <3>3. upto[k] \subseteq upto[l]
      BY <2>0, <3>1
    <3> QED
      BY <2>0, <3>2, <3>3
  <2>2. rank[k] = Cardinality(upto[k]) /\ rank[l] = Cardinality(upto[l])
    BY Zenon
  <2>3. IsFiniteSet(upto[l])
    BY <1>2
  <2>4. Cardinality(upto[l]) = Cardinality(upto[k]) => upto[l] = upto[k]
    BY <2>1, <2>3, FS_Subset
  <2> QED
    BY <2>1, <2>2, <2>4
<1>4. \A k, l \in at : rank[k] = rank[l] => k = l
  <2> HIDE DEF rank
  <2>1. \A k, l \in at : k = l \/ k < l \/ l < k
    OBVIOUS
  <2> QED
    BY <1>3, <2>1
<1>5. rank \in [at -> 1 .. Cardinality(at)]
  BY <1>2
<1>6. rank \in Surjection(at, 1 .. Cardinality(at))
  <2>1. rank \in Injection(at, 1 .. Cardinality(at))
    <3> HIDE DEF rank
    <3> QED
      BY <1>4, <1>5 DEF Injection, IsInjective
  <2>2. IsFiniteSet(1 .. Cardinality(at)) /\ Cardinality(1 .. Cardinality(at)) = Cardinality(at)
    BY <1>1, FS_Interval
  <2> HIDE DEF rank
  <2> QED
    BY <2>1, <2>2, FS_Injection
<1>7. \A j \in 1 .. Cardinality(at) : \E k \in at : rank[k] = j
  <2> HIDE DEF rank
  <2> QED
    BY <1>6 DEF Surjection
<1> QED
  BY <1>1, <1>2, <1>4, <1>7

(* x is among the elements of s.                                           *)
Occurs(x, s) == \E k \in 1 .. Len(s) : s[k] = x

(* Those of a sequence that are in a set: a sequence, of all of them.      *)
LEMMA ThoseAre ==
  ASSUME NEW D, NEW ids \in Seq(D), NEW S
  PROVE  /\ Those(ids, S) \in Seq(S)
         /\ \A k \in 1 .. Len(ids) : ids[k] \in S => Occurs(ids[k], Those(ids, S))
<1> DEFINE at == {k \in DOMAIN ids : ids[k] \in S}
<1> DEFINE rank(k) == Cardinality({i \in at : i <= k})
<1> DEFINE pos(j) == CHOOSE k \in at : rank(k) = j
<1>1. Len(ids) \in Nat /\ DOMAIN ids = 1 .. Len(ids)
  BY LenProperties
<1>2. at \in SUBSET (1 .. Len(ids))
  BY <1>1
<1>a. at = {k \in DOMAIN ids : ids[k] \in S}
  OBVIOUS
<1>b. Those(ids, S) = [j \in 1 .. Cardinality(at) |-> ids[pos(j)]]
  BY DEF Those
<1> HIDE DEF at
<1>3. /\ Cardinality(at) \in Nat
      /\ \A k \in at : rank(k) \in 1 .. Cardinality(at)
      /\ \A k, l \in at : rank(k) = rank(l) => k = l
      /\ \A j \in 1 .. Cardinality(at) : \E k \in at : rank(k) = j
  BY <1>1, <1>2, Ranks
<1>4. \A j \in 1 .. Cardinality(at) : pos(j) \in at /\ rank(pos(j)) = j
  BY <1>3
<1> HIDE DEF rank, pos
<1>5. Those(ids, S) \in [1 .. Cardinality(at) -> S]
  BY <1>a, <1>b, <1>4
<1>6. Those(ids, S) \in Seq(S) /\ Len(Those(ids, S)) = Cardinality(at)
  BY <1>3, <1>5, SeqDef, LenProperties
<1>7. ASSUME NEW k \in 1 .. Len(ids), ids[k] \in S
      PROVE  Occurs(ids[k], Those(ids, S))
  <2>1. k \in at
    BY <1>1, <1>7, <1>a
  <2>2. rank(k) \in 1 .. Cardinality(at) /\ pos(rank(k)) = k
    BY <1>3, <1>4, <2>1
  <2> QED
    BY <1>6, <1>b, <2>2 DEF Occurs
<1> QED
  BY <1>6, <1>7

(* The children of an array are devices.                                   *)
LEMMA ChildrenAre ==
  ASSUME NEW id \in Arrays
  PROVE  Children(id) \in Seq(Devices) /\ Len(Children(id)) \in Nat
<1>1. /\ Members \in [Arrays -> Seq(Devices \cup {0})]
      /\ Target \in [Arrays -> Devices \cup {0}]
  BY ManagementAssumption DEF ManagementAssumption
<1>2. DEVICEID_VALID(Members[id]) \in Seq(Devices)
  BY <1>1, ThoseAre DEF DEVICEID_VALID
<1>3. CASE Target[id] = 0
  <2>1. Children(id) = DEVICEID_VALID(Members[id]) \o <<>>
    BY <1>3 DEF Children
  <2> QED
    BY <1>2, <2>1, ConcatEmptySeq, LenProperties
<1>4. CASE Target[id] # 0
  <2>1. Children(id) = DEVICEID_VALID(Members[id]) \o <<Target[id]>>
    BY <1>4 DEF Children
  <2>2. Target[id] \in Devices
    BY <1>1, <1>4
  <2>3. <<Target[id]>> \in Seq(Devices)
    BY <2>2
  <2>4. Children(id) \in Seq(Devices)
    BY <1>2, <2>1, <2>3, ConcatProperties
  <2> QED
    BY <2>4, LenProperties
<1> QED
  BY <1>3, <1>4

(* The work of the two recursions, and what a call may have to do.         *)
DumpWork == {"physical", "con", "phys", "logical", "log", "dev"}
StopWork == {"stop"} \cup Tasks
Ids == Devices \cup {0} \cup DOMAIN Controllers
Work == [do : DumpWork \cup StopWork, id : Ids, indent : Nat]

Fits(c, item) ==
  IF c = "dump" THEN item.do \in DumpWork
  ELSE /\ c = "stop" /\ item.do \in StopWork
       /\ item.do # "stop" => item.id \in Arrays

DiskCall == {"disk:in", "disk:ioctl", "disk:out", "disk:free"}
WriteCall == {"write:in", "write:out", "write:ioctl", "write:ok", "write:invalid"}

(* The types; and a call has only work of its own.                         *)
Calls ==
  /\ there \subseteq Devices /\ tasks \in [Arrays -> SUBSET Tasks]
  /\ call \in {"none", "dump", "stop"} \cup DiskCall \cup WriteCall
  /\ work \in Seq(Work) /\ listed \in Seq(Devices) /\ asked \subseteq Arrays \X Tasks
  /\ \A k \in 1 .. Len(work) : Fits(call, work[k])
  /\ call # "stop" => asked = {}

(* What the ioctl of a tool looks like, step by step.                      *)
WriteArgument ==
  [nIn : {0, Data}, nOut : {0, Data}, size : {0}, copydata : {0}, protocol : {"none"},
   lpIn : BOOLEAN, lpOut : BOOLEAN]

Argument ==
  /\ call \in {"none", "dump", "stop"} => arg = NoArg
  /\ call \in WriteCall => arg \in WriteArgument
  /\ call = "write:in" => arg.lpIn = FALSE
  /\ call \in {"write:in", "write:out"} => arg.lpOut = FALSE
  /\ call \in DiskCall => \E c \in CommandTable : arg = [c EXCEPT !.size = BuffSize(c.copydata)]

(* What is allocated, at every moment of a call.                           *)
Heap ==
  /\ lost \in Nat /\ heap \in [{"ids", "in", "out", "buff"} -> Nat]
  /\ heap["ids"] = IF call = "dump" THEN lost + 1 ELSE lost
  /\ heap["in"] = IF arg.lpIn THEN 1 ELSE 0
  /\ heap["out"] = IF arg.lpOut THEN 1 ELSE 0
  /\ heap["buff"] = IF call \in DiskCall THEN 1 ELSE 0

(* What to do with each of some ids.                                       *)
LEMMA ItemsAre ==
  ASSUME NEW D \in SUBSET Ids, NEW ids \in Seq(D), NEW do \in DumpWork \cup StopWork,
         NEW indent \in Nat
  PROVE  /\ Items(do, ids, indent) \in Seq(Work) /\ Len(Items(do, ids, indent)) = Len(ids)
         /\ \A k \in 1 .. Len(ids) : /\ Items(do, ids, indent)[k].do = do
                                     /\ Items(do, ids, indent)[k].id = ids[k]
                                     /\ Items(do, ids, indent)[k].indent = indent
<1>1. Len(ids) \in Nat /\ DOMAIN ids = 1 .. Len(ids) /\ ids \in [1 .. Len(ids) -> D]
  BY LenProperties
<1>2. Items(do, ids, indent) \in [1 .. Len(ids) -> Work]
  BY <1>1 DEF Items, Item, Work
<1>3. Items(do, ids, indent) \in Seq(Work) /\ Len(Items(do, ids, indent)) = Len(ids)
  BY <1>1, <1>2, SeqDef, LenProperties
<1> QED
  BY <1>1, <1>3 DEF Items, Item

(* The next one is replaced by others; nothing else is lost.               *)
LEMMA Replaced ==
  ASSUME NEW S, NEW front \in Seq(S), NEW s \in Seq(S), s # <<>>, NEW t, t = front \o Tail(s)
  PROVE  /\ t \in Seq(S)
         /\ Head(s) = s[1] /\ Len(s) \in Nat \ {0}
         /\ \A k \in 1 .. Len(t) : Occurs(t[k], front) \/ Occurs(t[k], s)
         /\ \A j \in 1 .. Len(front) : Occurs(front[j], t)
         /\ \A j \in 2 .. Len(s) : Occurs(s[j], t)
<1> DEFINE rest == Tail(s)
<1>1. /\ Len(s) \in Nat \ {0} /\ Head(s) = s[1]
      /\ rest \in Seq(S) /\ Len(rest) = Len(s) - 1
      /\ \A i \in 1 .. Len(rest) : rest[i] = s[i + 1]
  BY HeadTailProperties, EmptySeq
<1>0. t = front \o rest
  OBVIOUS
<1> HIDE DEF rest
<1>2. /\ t \in Seq(S) /\ Len(t) = Len(front) + Len(rest) /\ Len(front) \in Nat
      /\ \A i \in 1 .. Len(front) + Len(rest) :
           t[i] = IF i <= Len(front) THEN front[i] ELSE rest[i - Len(front)]
  <2> DEFINE u == front \o rest
  <2>1. /\ u \in Seq(S) /\ Len(u) = Len(front) + Len(rest) /\ Len(front) \in Nat
        /\ \A i \in 1 .. Len(front) + Len(rest) :
             u[i] = IF i <= Len(front) THEN front[i] ELSE rest[i - Len(front)]
    BY <1>1, ConcatProperties, LenProperties
  <2> QED
    BY <1>0, <2>1
<1>3. ASSUME NEW k \in 1 .. Len(t)
      PROVE  Occurs(t[k], front) \/ Occurs(t[k], s)
  <2>1. CASE k <= Len(front)
    BY <1>2, <2>1 DEF Occurs
  <2>2. CASE ~(k <= Len(front))
    <3>1. k - Len(front) \in 1 .. Len(rest) /\ k - Len(front) + 1 \in 1 .. Len(s)
      BY <1>1, <1>2, <2>2
    <3>2. t[k] = s[k - Len(front) + 1]
      BY <1>1, <1>2, <2>2, <3>1
    <3> QED
      BY <3>1, <3>2 DEF Occurs
  <2> QED
    BY <2>1, <2>2
<1>4. ASSUME NEW j \in 1 .. Len(front) PROVE Occurs(front[j], t)
  <2>1. j \in 1 .. Len(front) + Len(rest) /\ j <= Len(front)
    BY <1>1, <1>2
  <2>2. j \in 1 .. Len(t) /\ t[j] = front[j]
    BY <1>2, <2>1
  <2> QED
    BY <2>2 DEF Occurs
<1>5. ASSUME NEW j \in 2 .. Len(s) PROVE Occurs(s[j], t)
  <2>1. /\ j - 1 \in 1 .. Len(rest) /\ j - 1 + Len(front) \in 1 .. Len(t)
        /\ ~(j - 1 + Len(front) <= Len(front)) /\ (j - 1 + Len(front)) - Len(front) = j - 1
        /\ (j - 1) + 1 = j
    BY <1>1, <1>2
  <2>2. t[j - 1 + Len(front)] = rest[j - 1]
    BY <1>2, <2>1
  <2> QED
    BY <1>1, <2>1, <2>2 DEF Occurs
<1> QED
  BY <1>1, <1>2, <1>3, <1>4, <1>5

(* The task that is aborted is one of those that run, if one runs.         *)
LEMMA RunningTaskIs ==
  ASSUME NEW id
  PROVE  /\ RunningTask(id) \in Tasks \cup {"none"}
         /\ tasks[id] \in SUBSET Tasks /\ RunningTask(id) = "none" => tasks[id] = {}
<1> DEFINE order == <<"rebuild", "verify", "initialize", "transform">>
<1> DEFINE on == {k \in DOMAIN order : order[k] \in tasks[id]}
<1>1. /\ DOMAIN order = 1 .. 4 /\ \A k \in 1 .. 4 : order[k] \in Tasks
      /\ \A task \in Tasks : \E k \in 1 .. 4 : order[k] = task
  BY DEF Tasks
<1>2. RunningTask(id) = IF on = {} THEN "none"
                        ELSE order[CHOOSE k \in on : \A j \in on : k <= j]
  BY DEF RunningTask
<1>3. CASE on = {}
  <2>1. tasks[id] \in SUBSET Tasks => tasks[id] = {}
    BY <1>1, <1>3
  <2> QED
    BY <1>2, <1>3, <2>1
<1>4. CASE on # {}
  <2>1. \E k \in on : \A j \in on : k <= j
    <3>1. on \subseteq 1 .. 4
      BY <1>1
    <3> HIDE DEF on
    <3>2. PICK k \in on : TRUE
      BY <1>4
    <3>3. k = 1 \/ k = 2 \/ k = 3 \/ k = 4
      BY <3>1
    <3>4. 1 \in on \/ 2 \in on \/ 3 \in on \/ 4 \in on
      BY <3>2, <3>3
    <3> QED
      BY <3>1, <3>4
  <2> DEFINE m == CHOOSE k \in on : \A j \in on : k <= j
  <2>2. m \in on
    BY <2>1
  <2>3. m \in 1 .. 4
    BY <1>1, <2>2
  <2>4. RunningTask(id) = order[m]
    BY <1>2, <1>4
  <2> HIDE DEF m, order
  <2>5. RunningTask(id) \in Tasks
    BY <1>1, <2>3, <2>4
  <2> QED
    BY <2>5 DEF Tasks
<1> QED
  BY <1>3, <1>4

-----------------------------------------------------------------------------
(* The calls.                                                              *)
(* The steps of a recursion: the next piece of work gives way to others of *)
(* the same call.                                                          *)
LEMMA WorkGoesOn ==
  ASSUME Calls, work # <<>>, NEW front \in Seq(Work),
         \A j \in 1 .. Len(front) : Fits(call, front[j]),
         call' = call, work' = front \o Tail(work)
  PROVE  work' \in Seq(Work) /\ \A k \in 1 .. Len(work') : Fits(call', work'[k])
<1>1. work \in Seq(Work) /\ \A k \in 1 .. Len(work) : Fits(call, work[k])
  BY DEF Calls
<1>2. PICK t : t = front \o Tail(work)
  OBVIOUS
<1>3. /\ t \in Seq(Work) /\ Len(work) \in Nat \ {0}
      /\ \A k \in 1 .. Len(t) : Occurs(t[k], front) \/ Occurs(t[k], work)
  BY <1>1, <1>2, Replaced
<1>4. \A k \in 1 .. Len(t) : Fits(call, t[k])
  BY <1>1, <1>3 DEF Occurs
<1> QED
  BY <1>2, <1>3, <1>4

(* What is at hand.                                                        *)
LEMMA AtHand ==
  ASSUME Calls, work # <<>>
  PROVE  /\ Head(work) \in Work /\ Head(work) = work[1] /\ Len(work) \in Nat \ {0}
         /\ Fits(call, Head(work)) /\ call \in {"dump", "stop"}
<1>1. work \in Seq(Work) /\ <<>> \in Seq(Work)
  BY EmptySeq DEF Calls
<1>2. Head(work) = work[1] /\ Len(work) \in Nat \ {0}
  BY <1>1, EmptySeq
<1>3. work[1] \in Work /\ Fits(call, work[1])
  BY <1>1, <1>2, ElementOfSeq DEF Calls
<1> QED
  BY <1>2, <1>3 DEF Fits

(* A list of one piece of work, or of none.                                *)
LEMMA OneOrNone ==
  ASSUME NEW w \in Work, NEW s \in {<<w>>, <<>>}
  PROVE  /\ s \in Seq(Work) /\ Len(s) \in 0 .. 1
         /\ \A j \in 1 .. Len(s) : s = <<w>> /\ s[j] = w
<1>1. CASE s = <<w>>
  BY <1>1
<1>2. CASE s = <<>>
  <2>1. Len(s) = 0 /\ s \in Seq(Work)
    BY <1>2, EmptySeq
  <2> QED
    BY <2>1
<1> QED
  BY <1>1, <1>2

(* Every step of a call keeps the types, and work of the call's own kind.  *)
LEMMA CallsInductive == Calls /\ [Manage]_mvars => Calls'
<1> SUFFICES ASSUME Calls, [Manage]_mvars PROVE Calls'
  OBVIOUS
<1>1. /\ there \subseteq Devices /\ tasks \in [Arrays -> SUBSET Tasks]
      /\ call \in {"none", "dump", "stop"} \cup DiskCall \cup WriteCall
      /\ work \in Seq(Work) /\ listed \in Seq(Devices) /\ asked \subseteq Arrays \X Tasks
      /\ \A k \in 1 .. Len(work) : Fits(call, work[k])
      /\ call # "stop" => asked = {}
  BY DEF Calls
<1>2. /\ \A S : <<>> \in Seq(S) /\ Len(<<>>) = 0
      /\ \A k \in 1 .. 0 : FALSE
  BY EmptySeq
<1>3. call \notin {"dump", "stop"} => work = <<>>
  BY AtHand
<1>4. /\ Physical \in Seq(Devices) /\ Logical \in Seq(Devices) /\ Controllers \in Seq(BOOLEAN)
      /\ Members \in [Arrays -> Seq(Devices \cup {0})]
      /\ Target \in [Arrays -> Devices \cup {0}] /\ 0 \notin Devices /\ StopIds \in Nat \ {0}
  BY ManagementAssumption DEF ManagementAssumption
<1>5. \A ids \in Seq(Devices) : There(ids) \in Seq(there) /\ There(ids) \in Seq(Devices)
  BY <1>1, ThoseAre, SeqMonotonic DEF There
<1>6. \A id \in Arrays : DEVICEID_VALID(Members[id]) \in Seq(Devices)
  BY <1>4, ThoseAre DEF DEVICEID_VALID
<1>7. Devices \subseteq Ids /\ 0 \in Ids /\ DOMAIN Controllers \subseteq Ids /\ Arrays \subseteq Devices
  BY DEF Ids, Devices
(* Steps that leave the work alone.                                        *)
<1>8. CASE Vanish \/ TaskEnds \/ UNCHANGED mvars
  <2>1. /\ there' \subseteq there /\ UNCHANGED <<call, work, listed, asked>>
    BY <1>8 DEF Vanish, TaskEnds, mvars
  <2>2. tasks' \in [Arrays -> SUBSET Tasks]
    BY <1>1, <1>8 DEF Vanish, TaskEnds, mvars
  <2> QED
    BY <1>1, <2>1, <2>2 DEF Calls
<1>9. CASE SetInfo \/ MapIn \/ MapOut \/ WriteIoctl \/ ScsiIoctl \/ DiskIn \/ DiskIoctl \/ Refused
  <2>1. /\ call \notin {"dump", "stop"} /\ call' \in {"none"} \cup DiskCall \cup WriteCall
        /\ UNCHANGED <<there, tasks, work, listed, asked>>
    BY <1>9 DEF SetInfo, MapIn, MapOut, WriteIoctl, ScsiIoctl, DiskIn, DiskIoctl, Refused,
                Enter, DiskCall, WriteCall
  <2>2. work' = <<>> /\ asked' = {}
    BY <1>1, <1>3, <2>1
  <2> QED
    BY <1>1, <1>2, <2>1, <2>2 DEF Calls
<1>10. CASE GetPhysicalDevicesFails \/ FreeIds \/ StopReturns \/ FreeBuffers \/ DiskFree
  <2>1. /\ call' = "none" /\ work' = <<>> /\ listed' = <<>> /\ asked' = {}
        /\ UNCHANGED <<there, tasks>>
    BY <1>10 DEF GetPhysicalDevicesFails, FreeIds, StopReturns, FreeBuffers, DiskFree, Return
  <2> QED
    BY <1>1, <1>2, <2>1 DEF Calls
(* The text of /proc.                                                      *)
<1>11. CASE GetInfo
  <2> DEFINE w == Item("physical", 0, 0)
  <2>1. w \in Work /\ w.do \in DumpWork
    BY <1>7 DEF Work, DumpWork, Item
  <2>2. /\ call' = "dump" /\ work' = <<w>> /\ UNCHANGED <<there, tasks, listed, asked>>
        /\ call # "stop"
    BY <1>11 DEF GetInfo, Enter
  <2> HIDE DEF w
  <2>3. work' \in Seq(Work) /\ \A k \in 1 .. Len(work') : work'[k] = w
    BY <2>1, <2>2, OneOrNone
  <2> QED
    BY <1>1, <2>1, <2>2, <2>3 DEF Calls, Fits
<1>12. CASE GetPhysicalDevices
  <2> DEFINE js == [j \in DOMAIN Controllers |-> j]
  <2> DEFINE cons == Items("con", js, 0)
  <2> DEFINE w == Item("logical", 0, 0)
  <2>1. w \in Work /\ w.do = "logical"
    BY <1>7 DEF Work, DumpWork, Item
  <2>2. js \in Seq(DOMAIN Controllers)
    BY <1>4, LenProperties, SeqDef
  <2>3. /\ work # <<>> /\ Head(work).do = "physical" /\ call' = call
        /\ work' = cons \o <<w>> /\ listed' = There(Physical)
        /\ UNCHANGED <<there, tasks, asked>>
    BY <1>12 DEF GetPhysicalDevices, Doing
  <2> HIDE DEF w, js
  <2>4. cons \in Seq(Work) /\ \A k \in 1 .. Len(cons) : cons[k].do = "con"
    BY <1>7, <2>2, ItemsAre DEF DumpWork
  <2> HIDE DEF cons
  <2>5. call = "dump"
    BY <2>3, AtHand DEF Fits, StopWork, Tasks
  <2>6. /\ <<w>> \in Seq(Work) /\ Len(<<w>>) = 1 /\ <<w>>[1] = w
    BY <2>1
  <2> DEFINE t == cons \o <<w>>
  <2>7. t \in Seq(Work) /\ \A k \in 1 .. Len(t) : t[k].do \in {"con", "logical"}
    <3> DEFINE l == <<w>>
    <3>1. l \in Seq(Work) /\ Len(l) = 1 /\ l[1].do = "logical"
      BY <2>1, <2>6
    <3> HIDE DEF l
    <3> DEFINE u == cons \o l
    <3>2. /\ u \in Seq(Work) /\ Len(u) = Len(cons) + Len(l) /\ Len(cons) \in Nat
          /\ \A i \in 1 .. Len(cons) + Len(l) :
               u[i] = IF i <= Len(cons) THEN cons[i] ELSE l[i - Len(cons)]
      BY <2>4, <3>1, ConcatProperties, LenProperties
    <3> HIDE DEF u
    <3>3. \A k \in 1 .. Len(u) : u[k].do \in {"con", "logical"}
      BY <2>4, <3>1, <3>2
    <3>4. u = t
      BY DEF u, l
    <3> QED
      BY <3>2, <3>3, <3>4
  <2> HIDE DEF t
  <2>8. work' \in Seq(Work) /\ \A k \in 1 .. Len(work') : Fits(call', work'[k])
    BY <2>3, <2>5, <2>7 DEF Fits, DumpWork, t
  <2> QED
    BY <1>1, <1>4, <1>5, <2>3, <2>5, <2>8 DEF Calls
<1>13. CASE GetControllerInfo \/ GetLogicalDevices \/ GetDeviceInfo \/ DumpDevinfo
  <2>1. /\ work # <<>> /\ call' = call /\ UNCHANGED <<there, tasks, listed, asked>>
        /\ Head(work).do \in {"con", "logical", "phys", "log", "dev"}
    BY <1>13 DEF GetControllerInfo, GetLogicalDevices, GetDeviceInfo, DumpDevinfo, Doing
  <2>2. /\ call = "dump" /\ Head(work).id \in Ids /\ Head(work).indent \in Nat
    BY <2>1, AtHand DEF Fits, StopWork, Tasks, Work
  <2>3. \E front \in Seq(Work) : /\ work' = front \o Tail(work)
                                 /\ \A k \in 1 .. Len(front) : front[k].do \in DumpWork
    <3>1. CASE GetControllerInfo
      <4>1. PICK front \in {Items("phys", listed, 0), <<>>} : work' = front \o Tail(work)
        BY <3>1 DEF GetControllerInfo
      <4> DEFINE phys == Items("phys", listed, 0)
      <4>2. phys \in Seq(Work) /\ \A k \in 1 .. Len(phys) : phys[k].do \in DumpWork
        <5>1. listed \in Seq(Devices) /\ Devices \in SUBSET Ids /\ "phys" \in DumpWork \cup StopWork
          BY <1>1, <1>7 DEF DumpWork
        <5>2. /\ phys \in Seq(Work) /\ Len(phys) = Len(listed)
              /\ \A k \in 1 .. Len(listed) : phys[k].do = "phys"
          BY <5>1, ItemsAre
        <5> QED
          BY <5>2 DEF DumpWork
      <4> HIDE DEF phys
      <4>3. front \in Seq(Work) /\ \A k \in 1 .. Len(front) : front[k].do \in DumpWork
        <5>1. CASE front = phys
          BY <4>2, <5>1
        <5>2. CASE front = <<>>
          BY <1>2, <5>2
        <5> QED
          BY <4>1, <5>1, <5>2 DEF phys
      <4> QED
        BY <4>1, <4>3
    <3>2. CASE GetLogicalDevices
      <4>1. PICK ids \in {<<>>, There(Logical)} : work' = Items("log", ids, 0) \o Tail(work)
        BY <3>2 DEF GetLogicalDevices
      <4>2. ids \in Seq(Devices)
        BY <1>2, <1>4, <1>5, <4>1
      <4> DEFINE logs == Items("log", ids, 0)
      <4>3. logs \in Seq(Work) /\ \A k \in 1 .. Len(logs) : logs[k].do \in DumpWork
        <5>1. Devices \in SUBSET Ids /\ "log" \in DumpWork \cup StopWork
          BY <1>7 DEF DumpWork
        <5>2. /\ logs \in Seq(Work) /\ Len(logs) = Len(ids)
              /\ \A k \in 1 .. Len(ids) : logs[k].do = "log"
          BY <4>2, <5>1, ItemsAre
        <5> QED
          BY <5>2 DEF DumpWork
      <4>4. work' = logs \o Tail(work)
        BY <4>1
      <4> HIDE DEF logs
      <4> QED
        BY <4>3, <4>4
    <3>3. CASE GetDeviceInfo
      <4> DEFINE w == Item("dev", Head(work).id, 0)
      <4>1. w \in Work /\ w.do = "dev"
        BY <2>2 DEF Work, DumpWork, Item
      <4>2. PICK front \in {<<w>>, <<>>} : work' = front \o Tail(work)
        BY <3>3 DEF GetDeviceInfo
      <4> HIDE DEF w
      <4>3. front \in Seq(Work) /\ \A k \in 1 .. Len(front) : front[k].do \in DumpWork
        BY <4>1, <4>2, OneOrNone DEF DumpWork
      <4> QED
        BY <4>2, <4>3
    <3>4. CASE DumpDevinfo
      <4> DEFINE id == Head(work).id
      <4> DEFINE below == Items("dev", Children(id), Head(work).indent + 1)
      <4>1. PICK front : /\ work' = front \o Tail(work)
                         /\ front = IF id \in there \cap Arrays THEN below ELSE <<>>
        BY <3>4 DEF DumpDevinfo
      <4>2. CASE id \in there \cap Arrays
        <5>1. Children(id) \in Seq(Ids)
          BY <1>7, <4>2, ChildrenAre, SeqMonotonic
        <5>2. below \in Seq(Work) /\ \A k \in 1 .. Len(below) : below[k].do = "dev"
          <6> HIDE DEF id
          <6> DEFINE n == Head(work).indent + 1
          <6>1. n \in Nat
            BY <2>2
          <6> HIDE DEF n
          <6>2. Ids \in SUBSET Ids /\ "dev" \in DumpWork \cup StopWork
            BY DEF DumpWork
          <6>3. /\ Items("dev", Children(id), n) \in Seq(Work)
                /\ \A k \in 1 .. Len(Children(id)) : Items("dev", Children(id), n)[k].do = "dev"
                /\ Len(Items("dev", Children(id), n)) = Len(Children(id))
            BY <5>1, <6>1, <6>2, ItemsAre
          <6> QED
            BY <6>3 DEF n
        <5> QED
          BY <4>1, <4>2, <5>2 DEF DumpWork
      <4>3. CASE id \notin there \cap Arrays
        BY <1>2, <4>1, <4>3
      <4> QED
        BY <4>2, <4>3
    <3> QED
      BY <1>13, <3>1, <3>2, <3>3, <3>4
  <2>4. work' \in Seq(Work) /\ \A k \in 1 .. Len(work') : Fits(call', work'[k])
    BY <2>1, <2>2, <2>3, WorkGoesOn DEF Fits
  <2> QED
    BY <1>1, <2>1, <2>2, <2>4 DEF Calls
(* hpt_stop_tasks.                                                         *)
<1>14. CASE StopTasks
  <2>1. PICK ids \in {<<>>, FirstOf(There(Logical), StopIds - 1)} :
          listed' = ids /\ work' = Items("stop", ids, 0)
    BY <1>14 DEF StopTasks
  <2>2. call' = "stop" /\ call = "none" /\ UNCHANGED <<there, tasks, asked>>
    BY <1>14 DEF StopTasks, Enter
  <2>3. ids \in Seq(Devices)
    <3>1. FirstOf(There(Logical), StopIds - 1) \in Seq(Devices)
      <4> DEFINE s == There(Logical)
      <4> DEFINE n == Smaller(StopIds - 1, Len(s))
      <4>1. s \in Seq(Devices)
        BY <1>4, <1>5
      <4> HIDE DEF s
      <4>2. Len(s) \in Nat /\ n \in 0 .. Len(s) /\ \A i \in 1 .. Len(s) : s[i] \in Devices
        BY <1>4, <4>1, LenProperties, ElementOfSeq DEF Smaller
      <4> HIDE DEF n
      <4>3. SubSeq(s, 1, n) \in Seq(Devices)
        BY <4>2, SubSeqProperties
      <4> QED
        BY <4>3 DEF FirstOf, s, n
    <3> QED
      BY <1>2, <2>1, <3>1
  <2>4. Items("stop", ids, 0) \in Seq(Work)
        /\ \A k \in 1 .. Len(Items("stop", ids, 0)) : Items("stop", ids, 0)[k].do = "stop"
    BY <1>7, <2>3, ItemsAre DEF StopWork
  <2> QED
    BY <1>1, <2>1, <2>2, <2>3, <2>4 DEF Calls, Fits, StopWork
<1>15. CASE StopInfo
  <2> DEFINE id == Head(work).id
  <2> DEFINE w == Item(RunningTask(id), id, 0)
  <2>1. /\ work # <<>> /\ Head(work).do = "stop" /\ call' = call
        /\ UNCHANGED <<there, tasks, listed, asked>>
        /\ work' = (IF id \in there \cap Arrays /\ RunningTask(id) # "none"
                    THEN <<w>> ELSE <<>>) \o Tail(work)
    BY <1>15 DEF StopInfo, Doing
  <2>2. call = "stop" /\ id \in Ids
    BY <2>1, AtHand DEF Fits, DumpWork, Work
  <2>3. RunningTask(id) \in Tasks \cup {"none"}
    BY RunningTaskIs
  <2> HIDE DEF id
  <2>4. \E front \in Seq(Work) : /\ work' = front \o Tail(work)
                                 /\ \A j \in 1 .. Len(front) : Fits(call, front[j])
    <3>1. CASE id \in there \cap Arrays /\ RunningTask(id) # "none"
      <4>1. w \in Work /\ Fits(call, w)
        BY <2>2, <2>3, <3>1 DEF Work, Item, Fits, StopWork
      <4> HIDE DEF w
      <4>2. work' = <<w>> \o Tail(work)
        BY <2>1, <3>1
      <4> QED
        BY <4>1, <4>2, OneOrNone
    <3>2. CASE ~(id \in there \cap Arrays /\ RunningTask(id) # "none")
      BY <1>2, <2>1, <3>2
    <3> QED
      BY <3>1, <3>2
  <2>5. work' \in Seq(Work) /\ \A k \in 1 .. Len(work') : Fits(call', work'[k])
    BY <2>1, <2>4, WorkGoesOn
  <2> QED
    BY <1>1, <2>1, <2>2, <2>5 DEF Calls
<1>16. CASE SetArrayState
  <2> DEFINE id == Head(work).id
  <2> DEFINE task == Head(work).do
  <2>1. /\ work # <<>> /\ task \in Tasks /\ call' = call
        /\ UNCHANGED <<there, listed>>
        /\ asked' = asked \cup {<<id, task>>}
        /\ tasks' \in {tasks, [tasks EXCEPT ![id] = @ \ {task}]}
        /\ work' = Items("stop", DEVICEID_VALID(Members[id]), 0) \o Tail(work)
    BY <1>16 DEF SetArrayState, Doing, Tasks
  <2>2. call = "stop" /\ id \in Arrays
    BY <2>1, AtHand DEF Fits, DumpWork, Tasks
  <2> HIDE DEF id, task
  <2>3. tasks' \in [Arrays -> SUBSET Tasks] /\ asked' \subseteq Arrays \X Tasks
    BY <1>1, <2>1, <2>2
  <2> DEFINE front == Items("stop", DEVICEID_VALID(Members[id]), 0)
  <2>4. front \in Seq(Work) /\ \A k \in 1 .. Len(front) : front[k].do = "stop"
    <3> DEFINE ids == DEVICEID_VALID(Members[id])
    <3>1. ids \in Seq(Devices)
      BY <1>6, <2>2
    <3>2. "stop" \in DumpWork \cup StopWork /\ Devices \in SUBSET Ids /\ 0 \in Nat
      BY <1>7 DEF StopWork
    <3> HIDE DEF ids
    <3>3. /\ Items("stop", ids, 0) \in Seq(Work)
          /\ \A k \in 1 .. Len(Items("stop", ids, 0)) : Items("stop", ids, 0)[k].do = "stop"
      BY <3>1, <3>2, ItemsAre
    <3> QED
      BY <3>3 DEF ids
  <2>5. work' = front \o Tail(work)
    BY <2>1
  <2> HIDE DEF front
  <2>6. work' \in Seq(Work) /\ \A k \in 1 .. Len(work') : Fits(call', work'[k])
    <3>1. \A j \in 1 .. Len(front) : Fits(call, front[j])
      BY <2>2, <2>4 DEF Fits, StopWork
    <3> QED
      BY <2>1, <2>4, <2>5, <3>1, WorkGoesOn
  <2> QED
    BY <1>1, <2>1, <2>2, <2>3, <2>6 DEF Calls
<1> QED
  BY <1>8, <1>9, <1>10, <1>11, <1>12, <1>13, <1>14, <1>15, <1>16 DEF Manage

(* What the tools' ioctls look like does not depend on the recursions.     *)
LEMMA ArgumentInductive == Calls /\ Argument /\ [Manage]_mvars => Argument'
<1> SUFFICES ASSUME Calls, Argument, [Manage]_mvars PROVE Argument'
  OBVIOUS
<1> USE DEF DiskCall, WriteCall
<1>1. CASE \/ Vanish \/ TaskEnds \/ Refused \/ UNCHANGED mvars
  BY <1>1 DEF Vanish, TaskEnds, Refused, mvars, Argument
<1>2. CASE \/ GetPhysicalDevices \/ GetControllerInfo \/ GetLogicalDevices \/ GetDeviceInfo
           \/ DumpDevinfo \/ StopInfo \/ SetArrayState
  BY <1>2 DEF GetPhysicalDevices, GetControllerInfo, GetLogicalDevices, GetDeviceInfo,
              DumpDevinfo, StopInfo, SetArrayState, Argument
<1>3. CASE GetPhysicalDevicesFails \/ FreeIds \/ StopReturns \/ FreeBuffers \/ DiskFree
  BY <1>3 DEF GetPhysicalDevicesFails, FreeIds, StopReturns, FreeBuffers, DiskFree, Return, Argument
<1>4. CASE GetInfo \/ StopTasks
  BY <1>4 DEF GetInfo, StopTasks, Enter, Argument
<1>5. CASE SetInfo
  <2>1. PICK nIn, nOut \in {0, Data} : arg' = [NoArg EXCEPT !.nIn = nIn, !.nOut = nOut]
    BY <1>5 DEF SetInfo
  <2>2. call' = "write:in"
    BY <1>5 DEF SetInfo, Enter
  <2>3. arg' \in WriteArgument /\ arg'.lpIn = FALSE /\ arg'.lpOut = FALSE
    BY <2>1 DEF NoArg, WriteArgument
  <2> QED
    BY <2>2, <2>3 DEF Argument
<1>6. CASE MapIn \/ MapOut
  <2>1. /\ call \in {"write:in", "write:out"}
        /\ call' \in {"write:out", "write:ioctl", "write:invalid"}
        /\ call = "write:out" => call' \in {"write:ioctl", "write:invalid"}
    BY <1>6 DEF MapIn, MapOut
  <2>2. arg \in WriteArgument /\ arg.lpOut = FALSE
    BY <2>1 DEF Argument
  <2>3. CASE arg' = arg
    BY <2>1, <2>2, <2>3 DEF Argument
  <2>4. CASE arg' # arg
    <3>1. \/ call = "write:in" /\ arg' = [arg EXCEPT !.lpIn = TRUE]
          \/ call = "write:out" /\ arg' = [arg EXCEPT !.lpOut = TRUE]
      BY <1>6, <2>4 DEF MapIn, MapOut
    <3>2. /\ arg' \in WriteArgument
          /\ call = "write:in" => arg'.lpOut = FALSE
      BY <2>2, <3>1 DEF WriteArgument
    <3> QED
      BY <2>1, <3>2 DEF Argument
  <2> QED
    BY <2>3, <2>4
<1>7. CASE WriteIoctl
  BY <1>7 DEF WriteIoctl, Argument
<1>8. CASE ScsiIoctl
  BY <1>8 DEF ScsiIoctl, Enter, Argument
<1>9. CASE DiskIn \/ DiskIoctl
  <2>1. call \in DiskCall /\ call' \in DiskCall /\ arg' = arg
    BY <1>9 DEF DiskIn, DiskIoctl
  <2> QED
    BY <2>1 DEF Argument
<1> QED
  BY <1>1, <1>2, <1>3, <1>4, <1>5, <1>6, <1>7, <1>8, <1>9 DEF Manage

(* The blocks follow the calls.                                            *)
LEMMA HeapInductive == Calls /\ Argument /\ Heap /\ [Manage]_mvars => Heap'
<1> SUFFICES ASSUME Calls, Argument, Heap, [Manage]_mvars PROVE Heap'
  OBVIOUS
<1> USE DEF DiskCall
<1>0. /\ lost \in Nat /\ heap \in [{"ids", "in", "out", "buff"} -> Nat]
      /\ heap["ids"] = (IF call = "dump" THEN lost + 1 ELSE lost)
      /\ heap["in"] = (IF arg.lpIn THEN 1 ELSE 0)
      /\ heap["out"] = (IF arg.lpOut THEN 1 ELSE 0)
      /\ heap["buff"] = (IF call \in DiskCall THEN 1 ELSE 0)
      /\ NoArg.lpIn = FALSE /\ NoArg.lpOut = FALSE
      /\ call \in {"none", "dump", "stop"} => arg = NoArg
      /\ call = "write:in" => arg.lpIn = FALSE
      /\ call \in {"write:in", "write:out"} => arg.lpOut = FALSE
  BY DEF Heap, Argument, NoArg
<1>00. call \in DiskCall => arg.lpIn = FALSE /\ arg.lpOut = FALSE
  <2> SUFFICES ASSUME call \in DiskCall PROVE arg.lpIn = FALSE /\ arg.lpOut = FALSE
    OBVIOUS
  <2>1. PICK c \in CommandTable : arg = [c EXCEPT !.size = BuffSize(c.copydata)]
    BY DEF Argument
  <2>2. /\ DOMAIN c = {"nIn", "nOut", "size", "copydata", "protocol", "lpIn", "lpOut"}
        /\ c.lpIn = FALSE /\ c.lpOut = FALSE
    BY DEF CommandTable, Command, NoArg
  <2> QED
    BY <2>1, <2>2
<1>1. CASE \/ Vanish \/ TaskEnds \/ Refused \/ UNCHANGED mvars
  BY <1>0, <1>1 DEF Vanish, TaskEnds, Refused, mvars, Heap
<1>2. CASE \/ GetPhysicalDevices \/ GetControllerInfo \/ GetLogicalDevices \/ GetDeviceInfo
           \/ DumpDevinfo \/ StopInfo \/ SetArrayState
  BY <1>0, <1>2 DEF GetPhysicalDevices, GetControllerInfo, GetLogicalDevices, GetDeviceInfo,
              DumpDevinfo, StopInfo, SetArrayState, Heap
<1>3. CASE GetPhysicalDevicesFails
  <2>1. call = "dump"
    <3>1. work # <<>> /\ Head(work).do = "physical"
      BY <1>3 DEF GetPhysicalDevicesFails, Doing
    <3> QED
      BY <3>1, AtHand DEF Fits, StopWork, Tasks
  <2> QED
    BY <1>0, <1>3, <2>1 DEF GetPhysicalDevicesFails, Return, Heap
<1>4. CASE FreeIds
  BY <1>0, <1>4 DEF FreeIds, Return, Heap
<1>5. CASE StopReturns
  BY <1>0, <1>5 DEF StopReturns, Return, Heap
<1>6. CASE FreeBuffers
  BY <1>0, <1>6 DEF FreeBuffers, Return, Heap
<1>7. CASE DiskFree
  BY <1>0, <1>00, <1>7 DEF DiskFree, Return, Heap
<1>8. CASE GetInfo \/ StopTasks
  BY <1>0, <1>8 DEF GetInfo, StopTasks, Enter, Heap
<1>9. CASE SetInfo
  <2>1. PICK nIn, nOut \in {0, Data} : arg' = [NoArg EXCEPT !.nIn = nIn, !.nOut = nOut]
    BY <1>9 DEF SetInfo
  <2>2. arg'.lpIn = FALSE /\ arg'.lpOut = FALSE
    BY <2>1 DEF NoArg
  <2> QED
    BY <1>0, <1>9, <2>2 DEF SetInfo, Enter, Heap
<1>10. CASE MapIn \/ MapOut
  <2>1. /\ call \in {"write:in", "write:out"} /\ lost' = lost
        /\ call' \in {"write:out", "write:ioctl", "write:invalid"}
    BY <1>10 DEF MapIn, MapOut
  <2>2. CASE arg' = arg /\ heap' = heap
    BY <1>0, <2>1, <2>2 DEF Heap
  <2>3. CASE /\ call = "write:in" /\ arg' = [arg EXCEPT !.lpIn = TRUE]
             /\ heap' = [heap EXCEPT !["in"] = @ + 1]
    <3>1. arg'.lpIn = TRUE /\ arg'.lpOut = FALSE
      BY <1>0, <2>3 DEF Argument, WriteCall, WriteArgument
    <3> QED
      BY <1>0, <2>1, <2>3, <3>1 DEF Heap
  <2>4. CASE /\ call = "write:out" /\ arg' = [arg EXCEPT !.lpOut = TRUE]
             /\ heap' = [heap EXCEPT !["out"] = @ + 1]
    <3>1. arg'.lpIn = arg.lpIn /\ arg'.lpOut = TRUE
      BY <1>0, <2>4 DEF Argument, WriteCall, WriteArgument
    <3> QED
      BY <1>0, <2>1, <2>4, <3>1 DEF Heap
  <2> QED
    BY <1>10, <2>2, <2>3, <2>4 DEF MapIn, MapOut
<1>11. CASE WriteIoctl
  BY <1>0, <1>11 DEF WriteIoctl, Heap
<1>12. CASE ScsiIoctl
  <2>1. PICK c \in CommandTable : arg' = [c EXCEPT !.size = BuffSize(c.copydata)]
    BY <1>12 DEF ScsiIoctl
  <2>2. /\ DOMAIN c = {"nIn", "nOut", "size", "copydata", "protocol", "lpIn", "lpOut"}
        /\ c.lpIn = FALSE /\ c.lpOut = FALSE
    BY DEF CommandTable, Command, NoArg
  <2>3. arg'.lpIn = FALSE /\ arg'.lpOut = FALSE
    BY <2>1, <2>2
  <2> QED
    BY <1>0, <1>12, <2>3 DEF ScsiIoctl, Enter, Heap
<1>13. CASE DiskIn \/ DiskIoctl
  BY <1>0, <1>13 DEF DiskIn, DiskIoctl, Heap
<1> QED
  BY <1>1, <1>2, <1>3, <1>4, <1>5, <1>6, <1>7, <1>8, <1>9, <1>10, <1>11, <1>12, <1>13 DEF Manage

-----------------------------------------------------------------------------
(* The text of the devices.  The lines printed and the work to come are    *)
(* one tree, written from the top: each array that was met has its branch  *)
(* in it, and a step of the recursion puts the branch of the next.         *)

(* The lines below the k-th of N: those that follow it up to the first     *)
(* that is not deeper; and of these the ones one level deeper.             *)
Below(T, N, k) == {j \in k + 1 .. N : \A i \in k + 1 .. j : T[i].indent > T[k].indent}
NextBelow(T, N, k) == {j \in Below(T, N, k) : T[j].indent = T[k].indent + 1}

(* e lists the n elements of S, which are numbers, in their order.         *)
Enumerates(e, n, S) ==
  /\ e \in [1 .. n -> S]
  /\ \A i, j \in 1 .. n : i < j => e[i] < e[j]
  /\ \A s \in S : \E i \in 1 .. n : e[i] = s

(* The lines one level below the k-th are those of ids, in their order.    *)
Branch(T, N, k, ids) ==
  \E e : /\ Enumerates(e, Len(ids), NextBelow(T, N, k))
         /\ \A i \in 1 .. Len(ids) : T[e[i]].id = ids[i]

(* What is not deeper than any line ends the branches of those before it,  *)
(* so what comes after it may change.                                      *)
LEMMA BranchEnds ==
  ASSUME NEW N \in Nat, NEW M \in Nat, NEW q \in Nat, q <= N, q <= M, NEW T, NEW U,
         \A j \in 1 .. q : U[j] = T[j] /\ T[j].indent \in Nat,
         q < N => T[q + 1].indent = 0, q < M => U[q + 1].indent = 0,
         NEW k \in 1 .. q, NEW ids, Branch(T, N, k, ids)
  PROVE  Branch(U, M, k, ids)
<1> DEFINE Near(V) == {j \in k + 1 .. q : \A i \in k + 1 .. j : V[i].indent > V[k].indent}
<1>1. Below(T, N, k) = Near(T)
  <2>1. ASSUME NEW j \in Below(T, N, k) PROVE j \in k + 1 .. q
    <3>1. j \in k + 1 .. N /\ \A i \in k + 1 .. j : T[i].indent > T[k].indent
      BY DEF Below
    <3>2. CASE j > q
      <4>1. q + 1 \in k + 1 .. j /\ q < N
        BY <3>1, <3>2
      <4>2. T[q + 1].indent > T[k].indent /\ T[q + 1].indent = 0 /\ T[k].indent \in Nat
        BY <3>1, <4>1
      <4> QED
        BY <4>2
    <3> QED
      BY <3>1, <3>2
  <2>2. \A j \in k + 1 .. q : j \in k + 1 .. N
    OBVIOUS
  <2> QED
    BY <2>1, <2>2 DEF Below
<1>2. Below(U, M, k) = Near(U)
  <2>1. ASSUME NEW j \in Below(U, M, k) PROVE j \in k + 1 .. q
    <3>1. j \in k + 1 .. M /\ \A i \in k + 1 .. j : U[i].indent > U[k].indent
      BY DEF Below
    <3>2. CASE j > q
      <4>1. q + 1 \in k + 1 .. j /\ q < M
        BY <3>1, <3>2
      <4>2. U[q + 1].indent > U[k].indent /\ U[q + 1].indent = 0 /\ U[k].indent \in Nat
        BY <3>1, <4>1
      <4> QED
        BY <4>2
    <3> QED
      BY <3>1, <3>2
  <2>2. \A j \in k + 1 .. q : j \in k + 1 .. M
    OBVIOUS
  <2> QED
    BY <2>1, <2>2 DEF Below
<1>3. Near(T) = Near(U) /\ \A j \in Near(T) : U[j] = T[j]
  <2>1. \A j \in k + 1 .. q : U[j] = T[j]
    OBVIOUS
  <2>2. U[k] = T[k]
    OBVIOUS
  <2>3. \A j \in k + 1 .. q : \A i \in k + 1 .. j : U[i] = T[i]
    OBVIOUS
  <2> QED
    BY <2>1, <2>2, <2>3
<1>4. NextBelow(U, M, k) = NextBelow(T, N, k) /\ \A j \in NextBelow(T, N, k) : U[j] = T[j]
  <2> HIDE DEF Near
  <2>1. U[k] = T[k]
    OBVIOUS
  <2> QED
    BY <1>1, <1>2, <1>3, <2>1 DEF NextBelow
<1>5. PICK e : /\ Enumerates(e, Len(ids), NextBelow(T, N, k))
               /\ \A i \in 1 .. Len(ids) : T[e[i]].id = ids[i]
  BY DEF Branch
<1>6. \A i \in 1 .. Len(ids) : U[e[i]].id = ids[i]
  BY <1>4, <1>5 DEF Enumerates
<1> QED
  BY <1>4, <1>5, <1>6 DEF Branch

(* What is inserted below the p-th line, one level deeper, leaves the      *)
(* branches of the lines before it as they are ...                         *)
LEMMA BranchGoesOn ==
  ASSUME NEW N \in Nat, NEW c \in Nat, NEW p \in 1 .. N, NEW T, NEW U,
         \A j \in 1 .. N : T[j].indent \in Nat,
         \A j \in 1 .. p : U[j] = T[j],
         \A j \in p + 1 .. p + c : U[j].indent = T[p].indent + 1,
         \A j \in p + 1 .. N : U[j + c] = T[j],
         NEW k \in 1 .. p - 1, NEW ids, Branch(T, N, k, ids)
  PROVE  Branch(U, N + c, k, ids)
<1> DEFINE s == [j \in 1 .. N |-> IF j <= p THEN j ELSE j + c]
<1>1. /\ \A j \in 1 .. N : s[j] \in 1 .. N + c /\ U[s[j]] = T[j] /\ (j > k <=> s[j] > k)
      /\ \A i, j \in 1 .. N : i < j <=> s[i] < s[j]
      /\ \A x \in 1 .. N + c : x \notin p + 1 .. p + c => \E j \in 1 .. N : s[j] = x
  <2>1. ASSUME NEW j \in 1 .. N
        PROVE  s[j] \in 1 .. N + c /\ U[s[j]] = T[j] /\ (j > k <=> s[j] > k)
    <3>1. CASE j <= p
      BY <3>1
    <3>2. CASE ~(j <= p)
      <4>1. j \in p + 1 .. N /\ s[j] = j + c
        BY <3>2
      <4> HIDE DEF s
      <4>2. U[j + c] = T[j]
        BY <4>1
      <4> QED
        BY <4>1, <4>2
    <3> QED
      BY <3>1, <3>2
  <2>2. \A i, j \in 1 .. N : i < j <=> s[i] < s[j]
    OBVIOUS
  <2>3. ASSUME NEW x \in 1 .. N + c, x \notin p + 1 .. p + c PROVE \E j \in 1 .. N : s[j] = x
    <3>1. CASE x <= p
      <4>1. x \in 1 .. N /\ s[x] = x
        BY <3>1
      <4> QED
        BY <4>1
    <3>2. CASE x > p + c
      <4>1. x - c \in 1 .. N /\ ~(x - c <= p) /\ (x - c) + c = x
        BY <3>2
      <4>2. s[x - c] = x
        BY <4>1
      <4> QED
        BY <4>1, <4>2
    <3> QED
      BY <2>3, <3>1, <3>2
  <2> QED
    BY <2>1, <2>2, <2>3
<1>2. k \in 1 .. N /\ s[k] = k /\ U[k] = T[k] /\ s[p] = p /\ U[p] = T[p] /\ T[k].indent \in Nat
      /\ T[p].indent \in Nat
  OBVIOUS
<1>3. \A j \in 1 .. N : j > p => s[j] > p + c
  OBVIOUS
<1>a. \A j \in 1 .. N : j <= p => s[j] = j
  OBVIOUS
<1> HIDE DEF s
<1>4. ASSUME NEW j \in Below(T, N, k) PROVE s[j] \in Below(U, N + c, k)
  <2>1. j \in k + 1 .. N /\ \A i \in k + 1 .. j : T[i].indent > T[k].indent
    BY DEF Below
  <2>2. ASSUME NEW i \in k + 1 .. s[j] PROVE U[i].indent > U[k].indent
    <3>0. j \in 1 .. N /\ s[j] \in 1 .. N + c
      BY <1>1, <2>1
    <3>1. CASE i \in p + 1 .. p + c
      <4>1. j > p
        BY <1>a, <3>0, <3>1
      <4>2. T[p].indent > T[k].indent
        BY <2>1, <4>1
      <4> QED
        BY <1>2, <3>1, <4>2
    <3>2. CASE i \notin p + 1 .. p + c
      <4>1. PICK h \in 1 .. N : s[h] = i
        BY <1>1, <3>0, <3>2
      <4>2. h > k /\ ~(j < h)
        BY <1>1, <3>0, <4>1
      <4>3. h \in k + 1 .. j
        BY <3>0, <4>2
      <4>4. U[i] = T[h]
        BY <1>1, <4>1
      <4> QED
        BY <1>2, <2>1, <4>3, <4>4
    <3> QED
      BY <3>1, <3>2
  <2>3. s[j] \in k + 1 .. N + c
    BY <1>1, <2>1
  <2> QED
    BY <2>2, <2>3 DEF Below
<1>5. ASSUME NEW j \in 1 .. N, s[j] \in Below(U, N + c, k) PROVE j \in Below(T, N, k)
  <2>1. s[j] \in k + 1 .. N + c /\ \A i \in k + 1 .. s[j] : U[i].indent > U[k].indent
    BY <1>5 DEF Below
  <2>2. j \in k + 1 .. N
    BY <1>1, <2>1
  <2>3. ASSUME NEW i \in k + 1 .. j PROVE T[i].indent > T[k].indent
    <3>1. i \in 1 .. N /\ s[i] \in 1 .. N + c /\ s[i] > k /\ ~(s[j] < s[i]) /\ U[s[i]] = T[i]
      BY <1>1, <2>2
    <3>2. s[i] \in k + 1 .. s[j]
      BY <2>1, <3>1
    <3> QED
      BY <1>2, <2>1, <3>1, <3>2
  <2> QED
    BY <2>2, <2>3 DEF Below
<1>6. \A j \in NextBelow(T, N, k) : j \in 1 .. N /\ s[j] \in NextBelow(U, N + c, k)
  <2> TAKE j \in NextBelow(T, N, k)
  <2>1. j \in Below(T, N, k) /\ T[j].indent = T[k].indent + 1
    BY DEF NextBelow
  <2>2. j \in 1 .. N
    BY <2>1 DEF Below
  <2> QED
    BY <1>1, <1>2, <1>4, <2>1, <2>2 DEF NextBelow
<1>7. ASSUME NEW x \in NextBelow(U, N + c, k) PROVE \E j \in NextBelow(T, N, k) : s[j] = x
  <2>1. /\ x \in k + 1 .. N + c /\ U[x].indent = U[k].indent + 1
        /\ \A i \in k + 1 .. x : U[i].indent > U[k].indent
    BY DEF NextBelow, Below
  <2>2. x \notin p + 1 .. p + c
    <3>1. SUFFICES ASSUME x \in p + 1 .. p + c PROVE FALSE
      OBVIOUS
    <3>2. p \in k + 1 .. x
      BY <3>1
    <3>3. U[p].indent > U[k].indent /\ U[x].indent = T[p].indent + 1
      BY <2>1, <3>1, <3>2
    <3> QED
      BY <1>2, <2>1, <3>3
  <2>3. PICK j \in 1 .. N : s[j] = x
    BY <1>1, <2>1, <2>2
  <2>4. j \in Below(T, N, k)
    BY <1>5, <2>3 DEF NextBelow
  <2>5. T[j].indent = T[k].indent + 1
    BY <1>1, <1>2, <2>1, <2>3
  <2> QED
    BY <2>3, <2>4, <2>5 DEF NextBelow
<1>8. PICK e : /\ Enumerates(e, Len(ids), NextBelow(T, N, k))
               /\ \A i \in 1 .. Len(ids) : T[e[i]].id = ids[i]
  BY DEF Branch
<1> DEFINE d == [i \in 1 .. Len(ids) |-> s[e[i]]]
<1>9. Enumerates(d, Len(ids), NextBelow(U, N + c, k))
  <2>1. \A i \in 1 .. Len(ids) : d[i] = s[e[i]] /\ e[i] \in NextBelow(T, N, k)
    BY <1>8 DEF Enumerates
  <2>2. d \in [1 .. Len(ids) -> NextBelow(U, N + c, k)]
    BY <1>6, <2>1
  <2> HIDE DEF d
  <2>3. \A i, j \in 1 .. Len(ids) : i < j => d[i] < d[j]
    <3> TAKE i, j \in 1 .. Len(ids)
    <3> HAVE i < j
    <3>1. e[i] < e[j] /\ e[i] \in 1 .. N /\ e[j] \in 1 .. N
      BY <1>6, <1>8, <2>1 DEF Enumerates
    <3> QED
      BY <1>1, <2>1, <3>1
  <2>4. \A x \in NextBelow(U, N + c, k) : \E i \in 1 .. Len(ids) : d[i] = x
    BY <1>7, <1>8, <2>1 DEF Enumerates
  <2> QED
    BY <2>2, <2>3, <2>4 DEF Enumerates
<1>10. \A i \in 1 .. Len(ids) : U[d[i]].id = ids[i]
  <2> TAKE i \in 1 .. Len(ids)
  <2>1. d[i] = s[e[i]] /\ e[i] \in 1 .. N
    BY <1>6, <1>8 DEF Enumerates
  <2> QED
    BY <1>1, <1>8, <2>1
<1> HIDE DEF d
<1> QED
  BY <1>9, <1>10 DEF Branch

(* ... and is its branch.                                                  *)
LEMMA BranchBegins ==
  ASSUME NEW N \in Nat, NEW ids, Len(ids) \in Nat, NEW p \in 1 .. N, NEW U,
         U[p].indent \in Nat,
         \A j \in 1 .. Len(ids) : /\ U[p + j].indent = U[p].indent + 1
                                  /\ U[p + j].id = ids[j],
         p < N => U[p + Len(ids) + 1].indent \in Nat /\ U[p + Len(ids) + 1].indent <= U[p].indent
  PROVE  Branch(U, N + Len(ids), p, ids)
<1> DEFINE c == Len(ids)
           e == [i \in 1 .. c |-> p + i]
<1> HIDE DEF c
<1>0. c = Len(ids) /\ c \in Nat
  BY DEF c
<1>1. \A j \in p + 1 .. p + c : U[j].indent = U[p].indent + 1
  <2> TAKE j \in p + 1 .. p + c
  <2>1. j - p \in 1 .. c /\ p + (j - p) = j
    BY <1>0
  <2> QED
    BY <1>0, <2>1
<1>2. ASSUME NEW j \in Below(U, N + c, p) PROVE j \in p + 1 .. p + c
  <2>1. j \in p + 1 .. N + c /\ \A i \in p + 1 .. j : U[i].indent > U[p].indent
    BY DEF Below
  <2>2. CASE j > p + c
    <3>1. p < N /\ p + c + 1 \in p + 1 .. j
      BY <1>0, <2>1, <2>2
    <3>2. U[p + c + 1].indent > U[p].indent
      BY <2>1, <3>1
    <3>3. U[p + c + 1].indent \in Nat /\ U[p + c + 1].indent <= U[p].indent
      BY <1>0, <3>1
    <3> QED
      BY <3>2, <3>3
  <2> QED
    BY <1>0, <2>1, <2>2
<1>3. ASSUME NEW j \in p + 1 .. p + c PROVE j \in NextBelow(U, N + c, p)
  <2>1. j \in p + 1 .. N + c
    BY <1>0
  <2>2. \A i \in p + 1 .. j : U[i].indent > U[p].indent
    <3> TAKE i \in p + 1 .. j
    <3>1. i \in p + 1 .. p + c
      BY <1>0
    <3>2. U[i].indent = U[p].indent + 1
      BY <1>1, <3>1
    <3> QED
      BY <3>2
  <2> QED
    BY <1>1, <2>1, <2>2 DEF NextBelow, Below
<1>4. NextBelow(U, N + c, p) = p + 1 .. p + c
  BY <1>2, <1>3 DEF NextBelow
<1>5. Enumerates(e, c, p + 1 .. p + c)
  <2>1. e \in [1 .. c -> p + 1 .. p + c]
    BY <1>0
  <2>2. \A i, j \in 1 .. c : i < j => e[i] < e[j]
    BY <1>0
  <2>3. ASSUME NEW x \in p + 1 .. p + c PROVE \E i \in 1 .. c : e[i] = x
    <3>1. x - p \in 1 .. c /\ p + (x - p) = x
      BY <1>0
    <3>2. e[x - p] = x
      BY <3>1
    <3> QED
      BY <3>1, <3>2
  <2> HIDE DEF e
  <2> QED
    BY <2>1, <2>2, <2>3 DEF Enumerates
<1>6. \A i \in 1 .. c : U[e[i]].id = ids[i]
  BY <1>0
<1> HIDE DEF e
<1> QED
  BY <1>0, <1>4, <1>5, <1>6 DEF Branch

(* An enumeration of the places of those in S lists them.                  *)
LEMMA ThoseListed ==
  ASSUME NEW m \in Nat, NEW ids, DOMAIN ids = 1 .. m, NEW S, NEW n \in Nat, NEW e,
         Enumerates(e, n, {k \in 1 .. m : ids[k] \in S})
  PROVE  Those(ids, S) = [i \in 1 .. n |-> ids[e[i]]]
<1> DEFINE at == {k \in DOMAIN ids : ids[k] \in S}
           rank(k) == Cardinality({i \in at : i <= k})
<1>1. Those(ids, S) = [j \in 1 .. Cardinality(at) |-> ids[CHOOSE k \in at : rank(k) = j]]
  BY DEF Those
<1>2. at = {k \in 1 .. m : ids[k] \in S} /\ at \subseteq 1 .. m
  OBVIOUS
<1> HIDE DEF at
<1>3. /\ e \in [1 .. n -> at] /\ \A s \in at : \E i \in 1 .. n : e[i] = s
      /\ \A i, j \in 1 .. n : i < j => e[i] < e[j]
  BY <1>2 DEF Enumerates
<1>4. \A i, j \in 1 .. n : e[i] <= e[j] <=> i <= j
  <2> TAKE i, j \in 1 .. n
  <2>1. e[i] \in Nat /\ e[j] \in Nat
    BY <1>2, <1>3
  <2>2. i < j \/ i = j \/ j < i
    OBVIOUS
  <2> QED
    BY <1>3, <2>1, <2>2
<1>5. ASSUME NEW j \in 0 .. n
      PROVE  LET A == {e[i] : i \in 1 .. j} IN IsFiniteSet(A) /\ Cardinality(A) = j
  <2> DEFINE A == {e[i] : i \in 1 .. j}
             f == [i \in 1 .. j |-> e[i]]
  <2>1. f \in Bijection(1 .. j, A)
    <3>1. f \in [1 .. j -> A]
      OBVIOUS
    <3>2. \A x \in A : \E i \in 1 .. j : f[i] = x
      OBVIOUS
    <3>3. ASSUME NEW x \in 1 .. j, NEW y \in 1 .. j, f[x] = f[y] PROVE x = y
      <4>1. x \in 1 .. n /\ y \in 1 .. n /\ e[x] = e[y]
        BY <3>3
      <4>2. e[x] \in Nat /\ e[y] \in Nat
        BY <1>2, <1>3, <4>1
      <4> QED
        BY <1>4, <4>1, <4>2
    <3> HIDE DEF A, f
    <3> QED
      BY <3>1, <3>2, <3>3 DEF Bijection, Injection, Surjection, IsInjective
  <2>2. IsFiniteSet(1 .. j) /\ Cardinality(1 .. j) = j
    BY FS_Interval
  <2> HIDE DEF A, f
  <2>3. ExistsBijection(1 .. j, A)
    BY <2>1 DEF ExistsBijection
  <2> QED
    BY <2>2, <2>3, FS_Bijection DEF A
<1>6. Cardinality(at) = n
  <2>1. at = {e[i] : i \in 1 .. n} /\ n \in 0 .. n
    BY <1>3
  <2>2. Cardinality({e[i] : i \in 1 .. n}) = n
    BY <1>5, <2>1
  <2> QED
    BY <2>1, <2>2
<1>7. \A j \in 1 .. n : e[j] \in at /\ rank(e[j]) = j
  <2> TAKE j \in 1 .. n
  <2>1. {x \in at : x <= e[j]} = {e[i] : i \in 1 .. j}
    <3>1. ASSUME NEW x \in at, x <= e[j] PROVE \E i \in 1 .. j : e[i] = x
      <4>1. PICK i \in 1 .. n : e[i] = x
        BY <1>3
      <4>2. i <= j
        BY <1>4, <3>1, <4>1
      <4> QED
        BY <4>1, <4>2
    <3>2. ASSUME NEW i \in 1 .. j PROVE e[i] \in at /\ e[i] <= e[j]
      <4>1. i \in 1 .. n /\ i <= j
        OBVIOUS
      <4> QED
        BY <1>3, <1>4, <4>1
    <3> QED
      BY <3>1, <3>2
  <2>2. j \in 0 .. n
    OBVIOUS
  <2> QED
    BY <1>3, <1>5, <2>1, <2>2
<1> HIDE DEF rank
<1>8. \A j \in 1 .. n : (CHOOSE k \in at : rank(k) = j) = e[j]
  <2> TAKE j \in 1 .. n
  <2>1. \A k \in at : rank(k) = j => k = e[j]
    <3> TAKE k \in at
    <3> HAVE rank(k) = j
    <3>1. PICK i \in 1 .. n : e[i] = k
      BY <1>3
    <3>2. rank(k) = i
      BY <1>7, <3>1
    <3> QED
      BY <3>1, <3>2
  <2> QED
    BY <1>7, <2>1
<1> QED
  BY <1>1, <1>6, <1>8

(* The next piece of work gives way to others: where everything is then.   *)
LEMMA ReplacedAt ==
  ASSUME NEW S, NEW front \in Seq(S), NEW s \in Seq(S), s # <<>>, NEW t, t = front \o Tail(s)
  PROVE  /\ Len(t) = Len(front) + Len(s) - 1 /\ Len(front) \in Nat /\ Len(s) \in Nat \ {0}
         /\ \A j \in 1 .. Len(front) : t[j] = front[j]
         /\ \A j \in 2 .. Len(s) : t[Len(front) + j - 1] = s[j]
<1> DEFINE rest == Tail(s)
<1>1. /\ Len(s) \in Nat \ {0}
      /\ rest \in Seq(S) /\ Len(rest) = Len(s) - 1
      /\ \A i \in 1 .. Len(rest) : rest[i] = s[i + 1]
  BY HeadTailProperties, EmptySeq
<1>0. t = front \o rest
  OBVIOUS
<1> HIDE DEF rest
<1>2. /\ Len(t) = Len(front) + Len(rest) /\ Len(front) \in Nat
      /\ \A i \in 1 .. Len(front) + Len(rest) :
           t[i] = IF i <= Len(front) THEN front[i] ELSE rest[i - Len(front)]
  <2> DEFINE u == front \o rest
  <2>1. /\ Len(u) = Len(front) + Len(rest) /\ Len(front) \in Nat
        /\ \A i \in 1 .. Len(front) + Len(rest) :
             u[i] = IF i <= Len(front) THEN front[i] ELSE rest[i - Len(front)]
    BY <1>1, ConcatProperties, LenProperties
  <2> QED
    BY <1>0, <2>1
<1>3. \A j \in 1 .. Len(front) : t[j] = front[j]
  BY <1>1, <1>2
<1>4. ASSUME NEW j \in 2 .. Len(s) PROVE t[Len(front) + j - 1] = s[j]
  <2>1. /\ Len(front) + j - 1 \in 1 .. Len(front) + Len(rest)
        /\ ~(Len(front) + j - 1 <= Len(front))
        /\ (Len(front) + j - 1) - Len(front) = j - 1
        /\ j - 1 \in 1 .. Len(rest) /\ (j - 1) + 1 = j
    BY <1>1, <1>2
  <2>2. t[Len(front) + j - 1] = rest[j - 1]
    BY <1>2, <2>1
  <2> QED
    BY <1>1, <2>1, <2>2
<1> QED
  BY <1>1, <1>2, <1>3, <1>4

(* The lines printed and the work to come, in the order of the text.       *)
Tree(printed, rest) ==
  [j \in 1 .. Len(printed) + Len(rest) |->
     IF j <= Len(printed)
     THEN [id |-> printed[j].id, indent |-> printed[j].indent]
     ELSE [id |-> rest[j - Len(printed)].id, indent |-> rest[j - Len(printed)].indent]]

Lines == [id : Ids, indent : Nat, known : BOOLEAN]

(* The work to come rises to the loops over the devices.                   *)
Rising ==
  /\ \A i, j \in 1 .. Len(work) : i < j => work[j].indent <= work[i].indent
  /\ \A i \in 1 .. Len(work) : work[i].do # "dev" => work[i].indent = 0

(* Each line of an array has its branch, the part to come included.        *)
Branches ==
  \A k \in 1 .. Len(lines) : lines[k].known /\ lines[k].id \in Arrays =>
    Branch(Tree(lines, work), Len(lines) + Len(work), k, Children(lines[k].id))

Forest ==
  IF call = "dump" THEN lines \in Seq(Lines) /\ Rising /\ Branches ELSE lines = <<>>

(* What the tree is made of.                                               *)
LEMMA TreeIs ==
  ASSUME NEW l \in Seq(Lines), NEW w \in Seq(Work)
  PROVE  /\ Len(l) \in Nat /\ Len(w) \in Nat
         /\ \A j \in 1 .. Len(l) : /\ Tree(l, w)[j].id = l[j].id
                                   /\ Tree(l, w)[j].indent = l[j].indent
                                   /\ Tree(l, w)[j] = [id |-> l[j].id, indent |-> l[j].indent]
         /\ \A j \in 1 .. Len(w) : /\ Tree(l, w)[Len(l) + j].id = w[j].id
                                   /\ Tree(l, w)[Len(l) + j].indent = w[j].indent
                                   /\ Tree(l, w)[Len(l) + j] = [id |-> w[j].id, indent |-> w[j].indent]
         /\ \A j \in 1 .. Len(l) + Len(w) : Tree(l, w)[j].indent \in Nat
<1>1. Len(l) \in Nat /\ Len(w) \in Nat
  BY LenProperties
<1>2. \A j \in 1 .. Len(l) : l[j].indent \in Nat
  <2>1. \A j \in 1 .. Len(l) : l[j] \in Lines
    BY ElementOfSeq
  <2> QED
    BY <2>1 DEF Lines
<1>3. \A j \in 1 .. Len(w) : w[j].indent \in Nat
  <2>1. \A j \in 1 .. Len(w) : w[j] \in Work
    BY ElementOfSeq
  <2> QED
    BY <2>1 DEF Work
<1>4. \A j \in 1 .. Len(l) : Tree(l, w)[j] = [id |-> l[j].id, indent |-> l[j].indent]
  BY <1>1 DEF Tree
<1>5. \A j \in 1 .. Len(w) : Tree(l, w)[Len(l) + j] = [id |-> w[j].id, indent |-> w[j].indent]
  <2> TAKE j \in 1 .. Len(w)
  <2>1. /\ Len(l) + j \in 1 .. Len(l) + Len(w) /\ ~(Len(l) + j <= Len(l))
        /\ (Len(l) + j) - Len(l) = j
    BY <1>1
  <2> QED
    BY <2>1 DEF Tree
<1>6. \A j \in 1 .. Len(l) + Len(w) : Tree(l, w)[j].indent \in Nat
  <2> TAKE j \in 1 .. Len(l) + Len(w)
  <2>1. CASE j <= Len(l)
    <3>1. j \in 1 .. Len(l)
      BY <1>1, <2>1
    <3>2. Tree(l, w)[j] = [id |-> l[j].id, indent |-> l[j].indent]
      BY <1>4, <3>1
    <3> QED
      BY <1>2, <3>1, <3>2
  <2>2. CASE ~(j <= Len(l))
    <3>1. j - Len(l) \in 1 .. Len(w) /\ Len(l) + (j - Len(l)) = j
      BY <1>1, <2>2
    <3>2. Tree(l, w)[j] = [id |-> w[j - Len(l)].id, indent |-> w[j - Len(l)].indent]
      BY <1>5, <3>1
    <3> QED
      BY <1>3, <3>1, <3>2
  <2> QED
    BY <2>1, <2>2
<1> QED
  BY <1>1, <1>4, <1>5, <1>6

(* The steps of the loops over the devices, at indent 0.                   *)
LEMMA LoopKeepsForest ==
  ASSUME Calls, Calls', Forest, call = "dump", call' = "dump",
         \A i \in 1 .. Len(work) : work[i].indent = 0,
         \A i \in 1 .. Len(work') : work'[i].indent = 0,
         \/ lines' = lines
         \/ \E l \in Lines : lines' = Append(lines, l) /\ l.indent = 0 /\ l.known = FALSE
  PROVE  Forest'
<1> DEFINE q == Len(lines)
           T == Tree(lines, work)
           U == Tree(lines', work')
           N == q + Len(work)
           M == Len(lines') + Len(work')
<1>1. lines \in Seq(Lines) /\ work \in Seq(Work) /\ work' \in Seq(Work) /\ q \in Nat
  BY LenProperties DEF Forest, Calls
<1>2. /\ lines' \in Seq(Lines) /\ Len(lines') \in q .. q + 1
      /\ \A j \in 1 .. q : lines'[j] = lines[j]
      /\ Len(lines') = q + 1 => lines'[q + 1].indent = 0 /\ lines'[q + 1].known = FALSE
  <2>1. CASE lines' = lines
    BY <1>1, <2>1
  <2>2. CASE \E l \in Lines : lines' = Append(lines, l) /\ l.indent = 0 /\ l.known = FALSE
    <3>1. PICK l \in Lines : lines' = Append(lines, l) /\ l.indent = 0 /\ l.known = FALSE
      BY <2>2
    <3>2. /\ Append(lines, l) \in Seq(Lines) /\ Len(Append(lines, l)) = q + 1
          /\ \A i \in 1 .. q : Append(lines, l)[i] = lines[i]
          /\ Append(lines, l)[q + 1] = l
      BY <1>1, AppendProperties
    <3> QED
      BY <1>1, <3>1, <3>2
  <2> QED
    BY <2>1, <2>2
<1>3. Rising'
  <2>1. \A i \in 1 .. Len(work') : work'[i].indent = 0 /\ 0 <= 0
    OBVIOUS
  <2> QED
    BY <2>1 DEF Rising
<1>4. ASSUME NEW k \in 1 .. Len(lines'), lines'[k].known, lines'[k].id \in Arrays
      PROVE  Branch(U, M, k, Children(lines'[k].id))
  <2>1. k \in 1 .. q /\ lines'[k] = lines[k]
    <3>1. Len(lines') = q \/ Len(lines') = q + 1
      BY <1>1, <1>2
    <3>2. Len(lines') = q + 1 => k # q + 1
      BY <1>2, <1>4
    <3>3. k \in 1 .. q
      BY <1>1, <3>1, <3>2
    <3> QED
      BY <1>2, <3>3
  <2>2. Branch(T, N, k, Children(lines[k].id))
    BY <1>4, <2>1 DEF Forest, Branches
  <2>3. /\ N \in Nat /\ M \in Nat /\ q <= N /\ q <= M
        /\ \A j \in 1 .. q : U[j] = T[j] /\ T[j].indent \in Nat
    <3>1. Len(work) \in Nat /\ Len(work') \in Nat /\ Len(lines') \in Nat
      BY <1>1, <1>2, LenProperties
    <3>2. \A j \in 1 .. q : T[j] = [id |-> lines[j].id, indent |-> lines[j].indent]
      BY <1>1, TreeIs
    <3>3. \A j \in 1 .. Len(lines') : U[j] = [id |-> lines'[j].id, indent |-> lines'[j].indent]
      BY <1>1, <1>2, TreeIs
    <3>4. \A j \in 1 .. q + Len(work) : T[j].indent \in Nat
      BY <1>1, TreeIs
    <3> HIDE DEF T, U
    <3>5. q <= Len(lines') /\ q <= N /\ q <= M /\ N \in Nat /\ M \in Nat
      BY <1>1, <1>2, <3>1
    <3>6. \A j \in 1 .. q : j \in 1 .. Len(lines') /\ j \in 1 .. q + Len(work)
      BY <1>1, <3>1, <3>5
    <3>7. \A j \in 1 .. q : U[j] = T[j]
      BY <1>2, <3>2, <3>3, <3>6
    <3> QED
      BY <3>4, <3>5, <3>6, <3>7
  <2>4. q < N => T[q + 1].indent = 0
    <3>1. SUFFICES ASSUME q < N PROVE T[q + 1].indent = 0
      OBVIOUS
    <3>2. 1 \in 1 .. Len(work)
      BY <1>1, <3>1, LenProperties
    <3>3. T[q + 1].indent = work[1].indent
      BY <1>1, <3>2, TreeIs
    <3> QED
      BY <3>2, <3>3
  <2>5. q < M => U[q + 1].indent = 0
    <3>1. SUFFICES ASSUME q < M PROVE U[q + 1].indent = 0
      OBVIOUS
    <3>2. CASE Len(lines') = q + 1
      <4>1. U[q + 1].indent = lines'[q + 1].indent
        <5>1. q + 1 \in 1 .. Len(lines')
          BY <1>1, <3>2
        <5> QED
          BY <1>1, <1>2, <5>1, TreeIs
      <4> QED
        BY <1>2, <3>2, <4>1
    <3>3. CASE Len(lines') = q
      <4>1. 1 \in 1 .. Len(work')
        BY <1>1, <3>1, <3>3, LenProperties
      <4>2. U[Len(lines') + 1].indent = work'[1].indent
        BY <1>1, <1>2, <4>1, TreeIs
      <4> HIDE DEF U
      <4> QED
        BY <3>3, <4>1, <4>2
    <3> QED
      BY <1>1, <1>2, <3>2, <3>3
  <2> DEFINE ids == Children(lines[k].id)
  <2> HIDE DEF T, U, N, M, q, ids
  <2>6. Branch(T, N, k, ids)
    BY <2>2 DEF ids
  <2>7. Branch(U, M, k, ids)
    BY <1>1, <2>1, <2>3, <2>4, <2>5, <2>6, BranchEnds
  <2> QED
    BY <2>1, <2>7 DEF ids
<1> QED
  BY <1>2, <1>3, <1>4 DEF Forest, Branches

(* A line is printed, and the members of its array come next.              *)
LEMMA DumpKeepsForest ==
  ASSUME Calls, Calls', Forest, DumpDevinfo, call = "dump", call' = "dump"
  PROVE  Forest'
<1> DEFINE q == Len(lines)
           p == q + 1
           id == work[1].id
           d == work[1].indent
           line == [id |-> id, indent |-> d, known |-> id \in there]
           T == Tree(lines, work)
           U == Tree(lines', work')
           N == q + Len(work)
<1>1. /\ lines \in Seq(Lines) /\ work \in Seq(Work) /\ work' \in Seq(Work) /\ q \in Nat
      /\ Len(work) \in Nat \ {0} /\ work # <<>> /\ Head(work) = work[1]
      /\ id \in Ids /\ d \in Nat
  <2>1. work # <<>>
    BY DEF DumpDevinfo, Doing
  <2>2. Head(work) \in Work /\ Head(work) = work[1] /\ Len(work) \in Nat \ {0}
    BY <2>1, AtHand
  <2> QED
    BY <2>1, <2>2, LenProperties DEF Forest, Calls, Work
<1>2. PICK front : /\ front = IF id \in there \cap Arrays
                              THEN Items("dev", Children(id), d + 1) ELSE <<>>
                   /\ work' = front \o Tail(work) /\ lines' = Append(lines, line)
  BY <1>1 DEF DumpDevinfo
<1> DEFINE c == Len(front)
<1>3. /\ front \in Seq(Work) /\ c \in Nat
      /\ \A i \in 1 .. c : front[i].do = "dev" /\ front[i].indent = d + 1
      /\ id \in there \cap Arrays =>
           c = Len(Children(id)) /\ \A i \in 1 .. c : front[i].id = Children(id)[i]
  <2>1. CASE id \in there \cap Arrays
    <3> DEFINE n == d + 1
    <3>1. n \in Nat /\ "dev" \in DumpWork \cup StopWork /\ Devices \in SUBSET Ids
      BY <1>1 DEF DumpWork, Ids
    <3>2. Children(id) \in Seq(Devices) /\ Len(Children(id)) \in Nat
      BY <2>1, ChildrenAre
    <3> HIDE DEF n
    <3>3. /\ Items("dev", Children(id), n) \in Seq(Work)
          /\ Len(Items("dev", Children(id), n)) = Len(Children(id))
          /\ \A k \in 1 .. Len(Children(id)) :
               /\ Items("dev", Children(id), n)[k].do = "dev"
               /\ Items("dev", Children(id), n)[k].id = Children(id)[k]
               /\ Items("dev", Children(id), n)[k].indent = n
      BY <3>1, <3>2, ItemsAre
    <3>4. front = Items("dev", Children(id), n)
      BY <1>2, <2>1 DEF n
    <3> QED
      BY <3>2, <3>3, <3>4 DEF n
  <2>2. CASE id \notin there \cap Arrays
    <3>1. front = <<>>
      BY <1>2, <2>2
    <3>2. front \in Seq(Work) /\ Len(front) = 0
      BY <3>1, EmptySeq
    <3> QED
      BY <2>2, <3>2
  <2> QED
    BY <2>1, <2>2
<1>4. /\ Len(work') = c + Len(work) - 1
      /\ \A i \in 1 .. c : work'[i] = front[i]
      /\ \A i \in 2 .. Len(work) : work'[c + i - 1] = work[i]
  BY <1>1, <1>2, <1>3, ReplacedAt
<1>5. /\ line \in Lines /\ lines' \in Seq(Lines) /\ Len(lines') = p
      /\ \A j \in 1 .. q : lines'[j] = lines[j]
      /\ lines'[p] = line
  <2>1. line \in Lines
    BY <1>1 DEF Lines
  <2> HIDE DEF line
  <2> QED
    BY <1>1, <1>2, <2>1, AppendProperties
<1>6. /\ N \in Nat /\ p \in 1 .. N /\ Len(lines') + Len(work') = N + c
  BY <1>1, <1>3, <1>4, <1>5
<1>7. \A j \in 1 .. N : T[j].indent \in Nat
  BY <1>1, TreeIs
<1>8. \A j \in 1 .. p : U[j] = T[j]
  <2>1. ASSUME NEW j \in 1 .. q PROVE U[j] = T[j]
    <3>1. T[j] = [id |-> lines[j].id, indent |-> lines[j].indent]
      BY <1>1, TreeIs
    <3>2. j \in 1 .. Len(lines')
      BY <1>1, <1>5
    <3>3. U[j] = [id |-> lines'[j].id, indent |-> lines'[j].indent]
      BY <1>1, <1>5, <3>2, TreeIs
    <3> HIDE DEF T, U
    <3> QED
      BY <1>5, <3>1, <3>3
  <2>2. U[p] = T[p]
    <3>1. 1 \in 1 .. Len(work) /\ p \in 1 .. Len(lines')
      BY <1>1, <1>5
    <3>2. T[q + 1] = [id |-> work[1].id, indent |-> work[1].indent]
      BY <1>1, <3>1, TreeIs
    <3>3. U[p] = [id |-> lines'[p].id, indent |-> lines'[p].indent]
      BY <1>1, <1>5, <3>1, TreeIs
    <3> HIDE DEF T, U
    <3>4. lines'[p].id = id /\ lines'[p].indent = d
      BY <1>5
    <3> QED
      BY <3>2, <3>3, <3>4
  <2> HIDE DEF T, U
  <2> QED
    BY <1>1, <2>1, <2>2
<1>9. T[p].indent = d /\ U[p].indent = d /\ U[p].id = id
  <2>1. 1 \in 1 .. Len(work)
    BY <1>1
  <2>2. T[q + 1].indent = work[1].indent /\ T[q + 1].id = work[1].id
    BY <1>1, <2>1, TreeIs
  <2>3. U[p] = T[p]
    BY <1>6, <1>8
  <2> HIDE DEF T, U
  <2> QED
    BY <2>2, <2>3
<1>a. 2 \in 1 .. Len(work) => T[q + 2].indent = work[2].indent
  <2> HAVE 2 \in 1 .. Len(work)
  <2>1. /\ \A j \in 1 .. Len(work) : T[Len(lines) + j].indent = work[j].indent
    BY <1>1, TreeIs
  <2> HIDE DEF T
  <2> QED
    BY <2>1
<1>10. \A i \in 1 .. c : U[p + i].id = front[i].id /\ U[p + i].indent = d + 1
  <2> TAKE i \in 1 .. c
  <2>1. i \in 1 .. Len(work')
    BY <1>1, <1>3, <1>4
  <2>2. U[Len(lines') + i].id = work'[i].id /\ U[Len(lines') + i].indent = work'[i].indent
    BY <1>1, <1>5, <2>1, TreeIs
  <2> HIDE DEF U
  <2> QED
    BY <1>3, <1>4, <1>5, <2>2
<1>11. \A j \in p + 1 .. N : U[j + c] = T[j]
  <2> TAKE j \in p + 1 .. N
  <2> DEFINE i == j - q
  <2>1. /\ i \in 2 .. Len(work) /\ i \in 1 .. Len(work) /\ q + i = j
        /\ c + i - 1 \in 1 .. Len(work') /\ Len(lines') + (c + i - 1) = j + c
    BY <1>1, <1>3, <1>4, <1>5
  <2> HIDE DEF i
  <2>2. T[q + i] = [id |-> work[i].id, indent |-> work[i].indent]
    BY <1>1, <2>1, TreeIs
  <2> DEFINE m == c + i - 1
  <2>3. m \in 1 .. Len(work') /\ Len(lines') + m = j + c /\ work'[m] = work[i]
    BY <1>4, <2>1
  <2> HIDE DEF m
  <2>4. U[Len(lines') + m] = [id |-> work'[m].id, indent |-> work'[m].indent]
    BY <1>1, <1>5, <2>3, TreeIs
  <2> HIDE DEF T, U
  <2> QED
    BY <2>1, <2>2, <2>3, <2>4
<1> DEFINE M == Len(lines') + Len(work')
<1>12. ASSUME NEW k \in 1 .. Len(lines'), lines'[k].known, lines'[k].id \in Arrays
       PROVE  Branch(U, M, k, Children(lines'[k].id))
  <2>1. CASE k \in 1 .. q
    <3> DEFINE ids == Children(lines[k].id)
    <3>1. lines'[k] = lines[k]
      BY <1>5, <2>1
    <3>2. Branch(T, N, k, ids)
      BY <1>12, <2>1, <3>1 DEF Forest, Branches
    <3>3. k \in 1 .. p - 1
      BY <1>1, <2>1
    <3>4. \A j \in p + 1 .. p + c : U[j].indent = T[p].indent + 1
      <4> TAKE j \in p + 1 .. p + c
      <4>1. j - p \in 1 .. c /\ p + (j - p) = j
        BY <1>1, <1>3
      <4> HIDE DEF T, U
      <4> QED
        BY <1>9, <1>10, <4>1
    <3> HIDE DEF T, U, N, p, q, c, ids, d
    <3>5. Branch(U, N + c, k, ids)
      BY <1>3, <1>6, <1>7, <1>8, <1>11, <3>2, <3>3, <3>4, BranchGoesOn
    <3> QED
      BY <1>6, <3>1, <3>5 DEF ids
  <2>2. CASE k = p
    <3> DEFINE ids == Children(id)
    <3>1. lines'[k].known = (id \in there) /\ lines'[k].id = id
      BY <1>5, <2>2
    <3>2. id \in there \cap Arrays
      BY <1>12, <3>1
    <3>3. c = Len(ids) /\ \A j \in 1 .. Len(ids) : front[j].id = ids[j]
      BY <1>3, <3>2
    <3> HIDE DEF T, U, ids
    <3>4. \A j \in 1 .. Len(ids) : U[p + j].indent = U[p].indent + 1 /\ U[p + j].id = ids[j]
      BY <1>9, <1>10, <3>3
    <3>5. p < N => U[p + Len(ids) + 1].indent \in Nat /\ U[p + Len(ids) + 1].indent <= U[p].indent
      <4>1. SUFFICES ASSUME p < N
                     PROVE  U[p + Len(ids) + 1].indent \in Nat
                            /\ U[p + Len(ids) + 1].indent <= U[p].indent
        OBVIOUS
      <4>2. /\ p + 1 \in p + 1 .. N /\ (p + 1) + c = p + Len(ids) + 1
            /\ 1 \in 1 .. Len(work) /\ 2 \in 1 .. Len(work) /\ p + 1 = q + 2
            /\ p + 1 \in 1 .. N
        BY <1>1, <1>3, <1>6, <3>3, <4>1
      <4>3. U[p + Len(ids) + 1] = T[p + 1] /\ T[p + 1].indent \in Nat
        BY <1>7, <1>11, <4>2
      <4>4. T[p + 1].indent = work[2].indent
        BY <1>a, <4>2
      <4>5. work[2].indent <= work[1].indent
        BY <4>2 DEF Forest, Rising
      <4> QED
        BY <1>9, <4>3, <4>4, <4>5
    <3> HIDE DEF p, N, c
    <3>6. Branch(U, N + Len(ids), p, ids)
      BY <1>1, <1>3, <1>6, <1>9, <3>3, <3>4, <3>5, BranchBegins
    <3> QED
      BY <1>6, <2>2, <3>1, <3>3, <3>6 DEF ids
  <2>3. k \in 1 .. q \/ k = p
    BY <1>1, <1>5
  <2> QED
    BY <2>1, <2>2, <2>3
<1>13. Rising'
  <2>1. \A i \in 1 .. Len(work) : work[i].indent \in Nat /\ work[i].indent <= d
    <3> TAKE i \in 1 .. Len(work)
    <3>1. work[i] \in Work
      BY <1>1, ElementOfSeq
    <3>2. i = 1 \/ (1 < i /\ 1 \in 1 .. Len(work))
      OBVIOUS
    <3>3. 1 < i => work[i].indent <= work[1].indent
      BY <3>2 DEF Forest, Rising
    <3> QED
      BY <1>1, <3>1, <3>2, <3>3 DEF Work
  <2>2. ASSUME NEW i \in 1 .. Len(work'), ~(i <= c)
        PROVE  i - c + 1 \in 2 .. Len(work) /\ work'[i] = work[i - c + 1]
    <3>1. i - c + 1 \in 2 .. Len(work) /\ c + (i - c + 1) - 1 = i
      BY <1>1, <1>3, <1>4, <2>2
    <3> QED
      BY <1>4, <3>1
  <2>3. ASSUME NEW i \in 1 .. Len(work'), i <= c
        PROVE  work'[i].indent = d + 1 /\ work'[i].do = "dev"
    BY <1>3, <1>4, <2>3
  <2>4. ASSUME NEW i \in 1 .. Len(work'), NEW j \in 1 .. Len(work'), i < j
        PROVE  work'[j].indent <= work'[i].indent
    <3>1. CASE j <= c
      <4>1. i <= c
        BY <1>3, <2>4, <3>1
      <4>2. work'[i].indent = d + 1 /\ work'[j].indent = d + 1
        BY <2>3, <3>1, <4>1
      <4> QED
        BY <1>1, <4>2
    <3>2. CASE ~(j <= c) /\ i <= c
      <4>1. work'[i].indent = d + 1 /\ work'[j].indent <= d /\ work'[j].indent \in Nat
        BY <2>1, <2>2, <2>3, <3>2
      <4> QED
        BY <1>1, <4>1
    <3>3. CASE ~(j <= c) /\ ~(i <= c)
      <4>1. /\ work'[i] = work[i - c + 1] /\ work'[j] = work[j - c + 1]
            /\ i - c + 1 \in 1 .. Len(work) /\ j - c + 1 \in 1 .. Len(work)
        BY <2>2, <3>3
      <4>2. i - c + 1 < j - c + 1
        BY <1>3, <2>4
      <4> QED
        BY <4>1, <4>2 DEF Forest, Rising
    <3> QED
      BY <3>1, <3>2, <3>3
  <2>5. ASSUME NEW i \in 1 .. Len(work'), work'[i].do # "dev" PROVE work'[i].indent = 0
    <3>1. ~(i <= c)
      BY <2>3, <2>5
    <3>2. work'[i] = work[i - c + 1] /\ i - c + 1 \in 1 .. Len(work)
      BY <2>2, <3>1
    <3> QED
      BY <2>5, <3>2 DEF Forest, Rising
  <2> QED
    BY <2>4, <2>5 DEF Rising
<1> QED
  BY <1>5, <1>12, <1>13 DEF Forest, Branches

(* Each step of a call keeps it.                                           *)
LEMMA ForestInductive == Calls /\ Calls' /\ Forest /\ [Manage]_mvars => Forest'
<1> SUFFICES ASSUME Calls, Calls', Forest, [Manage]_mvars PROVE Forest'
  OBVIOUS
<1>1. /\ there \subseteq Devices /\ work \in Seq(Work) /\ listed \in Seq(Devices)
      /\ Devices \in SUBSET Ids /\ 0 \in Ids /\ DOMAIN Controllers \in SUBSET Ids
      /\ \A S : <<>> \in Seq(S) /\ Len(<<>>) = 0
  BY EmptySeq DEF Calls, Ids
<1>2. Physical \in Seq(Devices) /\ Logical \in Seq(Devices) /\ Controllers \in Seq(BOOLEAN)
  BY ManagementAssumption DEF ManagementAssumption
<1>3. CASE Vanish \/ TaskEnds \/ UNCHANGED mvars
  <2>1. UNCHANGED <<call, work, lines>>
    BY <1>3 DEF Vanish, TaskEnds, mvars
  <2> QED
    BY <2>1 DEF Forest, Rising, Branches
<1>4. CASE GetInfo
  <2> DEFINE w == Item("physical", 0, 0)
  <2>1. /\ call = "none" /\ call' = "dump" /\ work' = <<w>> /\ lines' = lines
    BY <1>4 DEF GetInfo, Enter
  <2>2. lines' = <<>>
    BY <2>1 DEF Forest
  <2>3. w \in Work /\ w.indent = 0
    BY <1>1 DEF Work, DumpWork, Item
  <2> HIDE DEF w
  <2>4. \A i \in 1 .. Len(work') : work'[i].indent = 0
    BY <2>1, <2>3, OneOrNone
  <2>5. Rising'
    <3>1. 0 <= 0
      OBVIOUS
    <3> QED
      BY <2>4, <3>1 DEF Rising
  <2> QED
    BY <1>1, <2>1, <2>2, <2>5 DEF Forest, Branches
<1>5. CASE GetPhysicalDevices \/ GetControllerInfo \/ GetLogicalDevices \/ GetDeviceInfo
  <2>1. /\ work # <<>> /\ call' = call
        /\ Head(work).do \in {"physical", "con", "logical", "phys", "log"}
    BY <1>5 DEF GetPhysicalDevices, GetControllerInfo, GetLogicalDevices, GetDeviceInfo, Doing
  <2>2. /\ call = "dump" /\ Head(work) = work[1] /\ Len(work) \in Nat \ {0}
        /\ Head(work).id \in Ids
    BY <2>1, AtHand DEF Fits, StopWork, Tasks, Work
  <2>3. \A i \in 1 .. Len(work) : work[i].indent = 0
    <3>1. 1 \in 1 .. Len(work) /\ work[1].indent = 0
      BY <2>1, <2>2 DEF Forest, Rising
    <3> TAKE i \in 1 .. Len(work)
    <3>2. work[i] \in Work
      BY <1>1, ElementOfSeq
    <3>3. 1 < i => work[i].indent <= work[1].indent
      BY <2>2, <3>1 DEF Forest, Rising
    <3>4. i = 1 \/ 1 < i
      OBVIOUS
    <3> QED
      BY <3>1, <3>2, <3>3, <3>4 DEF Work
  <2>4. \A i \in 1 .. Len(work') : work'[i].indent = 0
    <3>1. CASE GetPhysicalDevices
      <4> DEFINE js == [j \in DOMAIN Controllers |-> j]
      <4> DEFINE cons == Items("con", js, 0)
      <4> DEFINE l == <<Item("logical", 0, 0)>>
      <4>1. work' = cons \o l
        BY <3>1 DEF GetPhysicalDevices
      <4>2. l \in Seq(Work) /\ Len(l) = 1 /\ l[1].indent = 0
        BY <1>1 DEF Work, DumpWork, Item
      <4>3. js \in Seq(DOMAIN Controllers)
        BY <1>2, LenProperties, SeqDef
      <4> HIDE DEF js
      <4>4. cons \in Seq(Work) /\ \A k \in 1 .. Len(cons) : cons[k].indent = 0
        BY <1>1, <4>3, ItemsAre DEF DumpWork
      <4> HIDE DEF cons, l
      <4> DEFINE u == cons \o l
      <4>5. /\ Len(u) = Len(cons) + Len(l) /\ Len(cons) \in Nat
            /\ \A i \in 1 .. Len(cons) + Len(l) :
                 u[i] = IF i <= Len(cons) THEN cons[i] ELSE l[i - Len(cons)]
        BY <4>2, <4>4, ConcatProperties, LenProperties
      <4>6. work' = u
        BY <4>1
      <4> HIDE DEF u
      <4> QED
        BY <4>2, <4>4, <4>5, <4>6
    <3>2. CASE GetControllerInfo \/ GetLogicalDevices \/ GetDeviceInfo
      <4>1. \E front \in Seq(Work) : /\ work' = front \o Tail(work)
                                     /\ \A k \in 1 .. Len(front) : front[k].indent = 0
        <5>1. ASSUME NEW ids \in Seq(Devices), NEW do \in {"phys", "log"}
              PROVE  /\ Items(do, ids, 0) \in Seq(Work)
                     /\ \A k \in 1 .. Len(Items(do, ids, 0)) : Items(do, ids, 0)[k].indent = 0
          <6>1. do \in DumpWork \cup StopWork /\ 0 \in Nat
            BY DEF DumpWork
          <6> QED
            BY <1>1, <6>1, ItemsAre
        <5>2. CASE GetControllerInfo
          <6>1. PICK front \in {Items("phys", listed, 0), <<>>} : work' = front \o Tail(work)
            BY <5>2 DEF GetControllerInfo
          <6> DEFINE phys == Items("phys", listed, 0)
          <6>2. phys \in Seq(Work) /\ \A k \in 1 .. Len(phys) : phys[k].indent = 0
            BY <1>1, <5>1
          <6> HIDE DEF phys
          <6>3. CASE front = phys
            BY <6>1, <6>2, <6>3
          <6>4. CASE front = <<>>
            <7>1. front \in Seq(Work) /\ Len(front) = 0
              BY <6>4, EmptySeq
            <7>2. \A k \in 1 .. Len(front) : front[k].indent = 0
              <8>1. ~\E k \in 1 .. 0 : TRUE
                OBVIOUS
              <8> QED
                BY <7>1, <8>1
            <7> QED
              BY <6>1, <7>1, <7>2, Zenon
          <6> QED
            BY <6>1, <6>3, <6>4 DEF phys
        <5>3. CASE GetLogicalDevices
          <6>1. PICK ids \in {<<>>, There(Logical)} : work' = Items("log", ids, 0) \o Tail(work)
            BY <5>3 DEF GetLogicalDevices
          <6>2. There(Logical) \in Seq(Devices)
            BY <1>1, <1>2, ThoseAre, SeqMonotonic DEF There
          <6>3. ids \in Seq(Devices)
            BY <1>1, <6>1, <6>2
          <6> QED
            BY <5>1, <6>1, <6>3
        <5>4. CASE GetDeviceInfo
          <6> DEFINE w == Item("dev", Head(work).id, 0)
          <6>1. w \in Work /\ w.indent = 0
            BY <2>2 DEF Work, DumpWork, Item
          <6>2. PICK front \in {<<w>>, <<>>} : work' = front \o Tail(work)
            BY <5>4 DEF GetDeviceInfo
          <6> HIDE DEF w
          <6>3. front \in Seq(Work) /\ \A k \in 1 .. Len(front) : front[k] = w
            <7>1. w \in Work /\ front \in {<<w>>, <<>>}
              BY <6>1, <6>2
            <7> QED
              BY <7>1, OneOrNone
          <6>4. \A k \in 1 .. Len(front) : front[k].indent = 0
            BY <6>1, <6>3
          <6> QED
            BY <6>2, <6>3, <6>4
        <5> QED
          BY <3>2, <5>2, <5>3, <5>4
      <4>2. PICK front \in Seq(Work) : /\ work' = front \o Tail(work)
                                       /\ \A k \in 1 .. Len(front) : front[k].indent = 0
        BY <4>1
      <4>3. PICK t : t = front \o Tail(work)
        OBVIOUS
      <4>4. \A k \in 1 .. Len(t) : Occurs(t[k], front) \/ Occurs(t[k], work)
        BY <1>1, <2>1, <4>3, Replaced
      <4>5. \A k \in 1 .. Len(t) : t[k].indent = 0
        BY <2>3, <4>2, <4>4 DEF Occurs
      <4> QED
        BY <4>2, <4>3, <4>5
    <3> QED
      BY <1>5, <3>1, <3>2
  <2>5. \/ lines' = lines
        \/ \E l \in Lines : lines' = Append(lines, l) /\ l.indent = 0 /\ l.known = FALSE
    <3>1. CASE GetPhysicalDevices \/ GetControllerInfo \/ GetLogicalDevices
      BY <3>1 DEF GetPhysicalDevices, GetControllerInfo, GetLogicalDevices
    <3>2. CASE GetDeviceInfo
      <4> DEFINE l == [id |-> Head(work).id, indent |-> 0, known |-> FALSE]
      <4>1. l \in Lines /\ l.indent = 0 /\ l.known = FALSE
        BY <2>2 DEF Lines
      <4>2. lines' = Append(lines, l) \/ lines' = lines
        BY <3>2 DEF GetDeviceInfo
      <4> HIDE DEF l
      <4> QED
        BY <4>1, <4>2
    <3> QED
      BY <1>5, <3>1, <3>2
  <2> QED
    BY <2>1, <2>2, <2>3, <2>4, <2>5, LoopKeepsForest
<1>6. CASE DumpDevinfo
  <2>1. work # <<>> /\ Head(work).do = "dev" /\ call' = call
    BY <1>6 DEF DumpDevinfo, Doing
  <2>2. call = "dump"
    BY <2>1, AtHand DEF Fits, StopWork, Tasks
  <2> QED
    BY <1>6, <2>1, <2>2, DumpKeepsForest
<1>7. CASE GetPhysicalDevicesFails \/ FreeIds \/ StopReturns \/ FreeBuffers \/ DiskFree
  <2>1. call' = "none" /\ lines' = <<>>
    BY <1>7 DEF GetPhysicalDevicesFails, FreeIds, StopReturns, FreeBuffers, DiskFree, Return
  <2> QED
    BY <2>1 DEF Forest
<1>8. CASE StopInfo \/ SetArrayState
  <2>1. work # <<>> /\ Head(work).do \in StopWork /\ call' = call /\ lines' = lines
    BY <1>8 DEF StopInfo, SetArrayState, Doing, StopWork, Tasks
  <2>2. call # "dump"
    BY <2>1, AtHand DEF Fits, StopWork, Tasks, DumpWork
  <2> QED
    BY <2>1, <2>2 DEF Forest
<1>9. CASE \/ StopTasks \/ Refused \/ SetInfo \/ MapIn \/ MapOut \/ WriteIoctl
           \/ ScsiIoctl \/ DiskIn \/ DiskIoctl
  <2>1. call # "dump" /\ call' # "dump" /\ lines' = lines
    BY <1>9 DEF StopTasks, Refused, SetInfo, MapIn, MapOut, WriteIoctl, ScsiIoctl, DiskIn,
                DiskIoctl, Enter
  <2> QED
    BY <2>1 DEF Forest
<1> QED
  BY <1>3, <1>4, <1>5, <1>6, <1>7, <1>8, <1>9 DEF Manage

(* When nothing is to come, the tree is the text.                          *)
LEMMA ForestIsListed == Calls /\ Forest => ListsTheForest
<1> DEFINE T == Tree(lines, work)
           N == Len(lines)
           below(k) == {j \in k + 1 .. N : \A i \in k + 1 .. j : lines[i].indent > lines[k].indent}
           g(k) == [j \in DOMAIN lines |->
                      IF j \in below(k) /\ lines[j].indent = lines[k].indent + 1
                      THEN lines[j].id ELSE 0]
<1> SUFFICES ASSUME Calls, Forest, call = "dump", work = <<>>,
                    NEW k \in DOMAIN lines, lines[k].known, lines[k].id \in Arrays
             PROVE  DEVICEID_VALID(g(k)) = Children(lines[k].id)
  BY DEF ListsTheForest
<1>1. /\ lines \in Seq(Lines) /\ N \in Nat /\ DOMAIN lines = 1 .. N
      /\ work \in Seq(Work) /\ Len(work) = 0
  BY LenProperties, EmptySeq DEF Forest, Calls
<1>2. \A j \in 1 .. N : T[j].id = lines[j].id /\ T[j].indent = lines[j].indent
  BY <1>1, TreeIs
<1>3. k \in 1 .. N /\ N + Len(work) = N
  BY <1>1
<1> DEFINE ids == Children(lines[k].id)
<1>4. Branch(T, N, k, ids)
  BY <1>3 DEF Forest, Branches
<1>5. ids \in Seq(Devices) /\ Len(ids) \in Nat
  BY ChildrenAre
<1> HIDE DEF T, ids
<1>6. PICK e : /\ Enumerates(e, Len(ids), NextBelow(T, N, k))
               /\ \A i \in 1 .. Len(ids) : T[e[i]].id = ids[i]
  BY <1>4 DEF Branch
<1>7. below(k) = Below(T, N, k) /\ below(k) \subseteq 1 .. N
  <2>1. \A j \in k + 1 .. N : j \in 1 .. N /\ \A i \in k + 1 .. j : i \in 1 .. N
    BY <1>1, <1>3
  <2>2. \A j \in k + 1 .. N : \A i \in k + 1 .. j : T[i].indent = lines[i].indent
    BY <1>2, <2>1
  <2>3. T[k].indent = lines[k].indent
    BY <1>2, <1>3
  <2> QED
    BY <2>1, <2>2, <2>3 DEF Below
<1> DEFINE S == NextBelow(T, N, k)
<1>8. /\ S \subseteq 1 .. N
      /\ \A j \in 1 .. N : j \in S <=> j \in below(k) /\ lines[j].indent = lines[k].indent + 1
  <2>1. T[k].indent = lines[k].indent
    BY <1>2, <1>3
  <2> HIDE DEF below
  <2> QED
    BY <1>2, <1>7, <2>1 DEF NextBelow
<1> DEFINE h == [j \in 1 .. N |-> IF j \in S THEN lines[j].id ELSE 0]
<1>9. g(k) = h
  BY <1>1, <1>8
<1>10. \A i \in 1 .. Len(ids) : e[i] \in S /\ lines[e[i]].id = ids[i] /\ ids[i] \in Devices
  <2> TAKE i \in 1 .. Len(ids)
  <2>1. e[i] \in S
    BY <1>6 DEF Enumerates
  <2>2. ids[i] \in Devices
    BY <1>5, ElementOfSeq
  <2> HIDE DEF S
  <2> QED
    BY <1>2, <1>6, <1>8, <2>1, <2>2
<1>11. \A j \in S : lines[j].id \in Devices
  <2> TAKE j \in S
  <2>1. PICK i \in 1 .. Len(ids) : e[i] = j
    BY <1>6 DEF Enumerates
  <2> QED
    BY <1>10, <2>1
<1> HIDE DEF S
<1>12. 0 \notin Devices
  BY ManagementAssumption DEF ManagementAssumption
<1>13. {j \in 1 .. N : h[j] \in Devices} = S
  BY <1>8, <1>11, <1>12
<1>14. DOMAIN h = 1 .. N /\ \A j \in S : h[j] = lines[j].id
  BY <1>8
<1> HIDE DEF h, g
<1>15. Enumerates(e, Len(ids), {j \in 1 .. N : h[j] \in Devices})
  BY <1>6, <1>13 DEF S
<1>16. Those(h, Devices) = [i \in 1 .. Len(ids) |-> h[e[i]]]
  BY <1>1, <1>5, <1>14, <1>15, ThoseListed
<1>17. ids = [i \in 1 .. Len(ids) |-> ids[i]]
  BY <1>5, LenProperties
<1>18. [i \in 1 .. Len(ids) |-> h[e[i]]] = [i \in 1 .. Len(ids) |-> ids[i]]
  BY <1>10, <1>14
<1> QED
  BY <1>9, <1>16, <1>17, <1>18 DEF DEVICEID_VALID, ids

-----------------------------------------------------------------------------
ManageInv == Calls /\ Argument /\ Heap /\ Forest

(* The four parts hold from the start and are kept by every step.          *)
LEMMA ManageInvariant == ManagementSpec => []ManageInv
<1>1. ManagementInit => ManageInv
  <2> SUFFICES ASSUME ManagementInit PROVE ManageInv
    OBVIOUS
  <2>1. /\ there = Devices /\ tasks \in Running /\ call = "none"
        /\ work = <<>> /\ listed = <<>> /\ asked = {} /\ arg = NoArg /\ lost = 0
        /\ heap = [b \in {"ids", "in", "out", "buff"} |-> 0]
    BY DEF ManagementInit
  <2>2. \A S : <<>> \in Seq(S) /\ Len(<<>>) = 0
    BY EmptySeq
  <2>3. tasks \in [Arrays -> SUBSET Tasks]
    BY <2>1, ManagementAssumption DEF ManagementAssumption
  <2>4. Calls
    BY <2>1, <2>2, <2>3 DEF Calls
  <2>5. Argument /\ Heap
    BY <2>1 DEF Argument, Heap, NoArg, DiskCall, WriteCall
  <2>6. Forest
    BY DEF ManagementInit, Forest
  <2> QED
    BY <2>4, <2>5, <2>6 DEF ManageInv
<1>2. ManageInv /\ [Manage]_mvars => ManageInv'
  BY CallsInductive, ArgumentInductive, HeapInductive, ForestInductive
     DEF ManageInv
<1>3. [ManagementNext]_<<vars, mvars>> => [Manage]_mvars
  BY DEF ManagementNext
<1> HIDE DEF ManageInv
<1> QED
  BY <1>1, <1>2, <1>3, PTL DEF ManagementSpec

(* For any devices, arrays and tasks: when no call runs everything that    *)
(* one allocated has been freed, but for the ids that hpt_proc_get_info    *)
(* forgets when hpt_get_physical_devices fails.                            *)
THEOREM CallsLeaveNothing == ManagementSpec => []NothingLeftOver
<1>1. ManageInv => NothingLeftOver
  <2> SUFFICES ASSUME ManageInv, call = "none"
               PROVE  heap = [b \in DOMAIN heap |-> IF b = "ids" THEN lost ELSE 0]
    BY DEF NothingLeftOver
  <2>1. arg.lpIn = FALSE /\ arg.lpOut = FALSE
    BY DEF ManageInv, Argument, NoArg
  <2>2. /\ heap \in [{"ids", "in", "out", "buff"} -> Nat]
        /\ heap["ids"] = lost /\ heap["in"] = 0 /\ heap["out"] = 0 /\ heap["buff"] = 0
    BY <2>1 DEF ManageInv, Heap, DiskCall
  <2> QED
    BY <2>2
<1> QED
  BY <1>1, ManageInvariant, PTL

(* For any size of header and data: the LDM's areas and the copy back lie  *)
(* in the buffer of hpt_do_disk_ioctl.                                     *)
THEOREM AreasFit == ManagementSpec => []AreasInBuffer
<1>1. ManageInv => AreasInBuffer
  <2> SUFFICES ASSUME ManageInv, call = "disk:ioctl" PROVE AreasInBuffer
    BY DEF AreasInBuffer
  <2>1. PICK c \in CommandTable : arg = [c EXCEPT !.size = BuffSize(c.copydata)]
    BY DEF ManageInv, Argument, DiskCall
  <2>2. Header \in Nat /\ Header >= 8 /\ Data \in Nat \ {0}
    BY ManagementAssumption DEF ManagementAssumption
  <2>3. /\ DOMAIN c = {"nIn", "nOut", "size", "copydata", "protocol", "lpIn", "lpOut"}
        /\ c.copydata \in {0, Data} /\ c.nIn \in {0, Header, Data + Header}
        /\ c.nOut \in {0, Header, Data + Header}
        /\ c.copydata = 0 => c.nIn <= Header /\ c.nOut <= Header
        /\ c.protocol = "read" => c.nOut = c.copydata + Header
    <3> DEFINE Is(protocol, copydata, nIn, nOut) ==
          c = [nIn |-> nIn, nOut |-> nOut, size |-> 0, copydata |-> copydata,
               protocol |-> protocol, lpIn |-> FALSE, lpOut |-> FALSE]
    <3>1. \/ Is("read", Data, Header, Data + Header) \/ Is("none", 0, Header, Header)
          \/ Is("none", 0, 0, 0) \/ Is("write", Data, Data + Header, Header)
          \/ Is("write", 0, 0, 0)
      BY DEF CommandTable, Command, NoArg
    <3>2. CASE Is("read", Data, Header, Data + Header)
      BY <2>2, <3>2
    <3>3. CASE Is("none", 0, Header, Header) \/ Is("none", 0, 0, 0) \/ Is("write", 0, 0, 0)
      BY <2>2, <3>3
    <3>4. CASE Is("write", Data, Data + Header, Header)
      BY <2>2, <3>4
    <3> QED
      BY <3>1, <3>2, <3>3, <3>4
  <2>4. /\ arg.nIn = c.nIn /\ arg.nOut = c.nOut /\ arg.copydata = c.copydata
        /\ arg.protocol = c.protocol /\ arg.size = c.copydata + 2 * Header
    BY <2>1, <2>3 DEF BuffSize
  <2>5. /\ arg.nIn <= arg.size /\ Header + arg.nOut <= arg.size /\ Header + 8 <= arg.size
        /\ arg.protocol = "read" => /\ 2 * Header + arg.copydata <= arg.size
                                    /\ Header + arg.copydata <= arg.nOut
    BY <2>2, <2>3, <2>4
  <2> QED
    BY <2>5 DEF AreasInBuffer
<1> QED
  BY <1>1, ManageInvariant, PTL

(* For any arrays, members and targets, whatever vanishes meanwhile: below *)
(* the line of an array that was found come, one level deeper and in their *)
(* order, all its members and the target of its transformation.            *)
THEOREM TheForestIsListed == ManagementSpec => []ListsTheForest
<1>1. ManageInv => ListsTheForest
  BY ForestIsListed DEF ManageInv
<1> QED
  BY <1>1, ManageInvariant, PTL
=============================================================================
