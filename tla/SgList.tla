------------------------------- MODULE SgList -------------------------------
(***************************************************************************)
(* os_buildsgl: the scatter/gather list of a command, made from the        *)
(* segments of the mid layer's list, one loop iteration per step.  The     *)
(* logical list copies the segments; the physical one merges segments that *)
(* adjoin, as long as the adapter can take the result as one descriptor.   *)
(***************************************************************************)
EXTENDS Integers, Sequences

CONSTANTS
  Inputs,        \* the lists of segments, each [addr, len]
  Limit,         \* 0x10000, the size up to which segments are merged
  Boundaries     \* the addresses that are multiples of 4 GB

ASSUME SgListAssumption ==
  /\ Inputs \subseteq Seq([addr : Nat, len : Nat \ {0}])
  /\ Limit \in Nat
  /\ Boundaries \subseteq Nat

VARIABLES
  logical,    \* the argument: which list is wanted
  segs,       \* scsi_sglist, mapped for DMA if not logical
  idx,        \* the loop variable: segments done
  last,       \* the end of the last segment of psg
  psg,        \* the descriptors made so far, each [addr, size, eot]
  result,     \* "building", or what is returned
  first       \* history: the number of the first segment in each descriptor

sgVars == <<logical, segs, idx, last, psg, result, first>>

SgInit ==
  /\ logical \in BOOLEAN
  /\ segs \in Inputs
  /\ idx = 0 /\ last = 0
  /\ psg = <<>> /\ first = <<>>
  /\ result = "building"

-----------------------------------------------------------------------------
Building == result = "building" /\ idx < Len(segs)
Segment == segs[idx + 1]
IsLast == idx = Len(segs) - 1
Current == psg[Len(psg)]
Grown(eot) == [addr |-> Current.addr, size |-> Current.size + Segment.len, eot |-> eot]

(* Mutant of Mergeable: segments are merged that do not adjoin.            *)
MergeableApart ==
  /\ idx > 0 /\ Current.size # 0
  /\ Current.size + Segment.len <= Limit
  /\ Segment.addr \notin Boundaries

(* Mutant of Mergeable: segments are merged across a 4 GB boundary.        *)
MergeableAcross ==
  /\ idx > 0 /\ last = Segment.addr /\ Current.size # 0
  /\ Current.size + Segment.len <= Limit

(* "merge the sg elements if possible"                                     *)
Mergeable ==
  /\ idx > 0 /\ last = Segment.addr /\ Current.size # 0
  /\ Current.size + Segment.len <= Limit
  /\ Segment.addr \notin Boundaries

(* A descriptor for the segment.                                           *)
AddDescriptor ==
  /\ psg' = Append(psg, [addr |-> Segment.addr, size |-> Segment.len, eot |-> IsLast])
  /\ first' = Append(first, idx + 1)
  /\ idx' = idx + 1

CopyLogical ==
  /\ Building /\ logical
  /\ AddDescriptor
  /\ UNCHANGED <<logical, segs, last, result>>

NewDescriptor ==
  /\ Building /\ ~logical /\ ~Mergeable
  /\ Segment.addr % 2 = 0 /\ Segment.len % 2 = 0
  /\ AddDescriptor
  /\ last' = Segment.addr + Segment.len
  /\ UNCHANGED <<logical, segs, result>>

(* Mutant of Merge: the end of the table is marked in new descriptors only.*)
MergeKeepsEot ==
  /\ Building /\ ~logical /\ Mergeable
  /\ Segment.len % 2 = 0
  /\ psg' = [psg EXCEPT ![Len(psg)] = Grown(Current.eot)]
  /\ last' = last + Segment.len
  /\ idx' = idx + 1
  /\ UNCHANGED <<logical, segs, result, first>>

(* The size so far is even, or it would have been refused before: the sum  *)
(* is even if the segment's length is.                                     *)
Merge ==
  /\ Building /\ ~logical /\ Mergeable
  /\ (Current.size + Segment.len) % 2 = 0
  /\ psg' = [psg EXCEPT ![Len(psg)] = Grown(IsLast)]
  /\ last' = last + Segment.len
  /\ idx' = idx + 1
  /\ UNCHANGED <<logical, segs, result, first>>

(* An odd address or size: 0 is returned, and nobody looks at the list.    *)
Refuse ==
  /\ Building /\ ~logical
  /\ IF Mergeable THEN (Current.size + Segment.len) % 2 = 1
     ELSE Segment.addr % 2 = 1 \/ Segment.len % 2 = 1
  /\ result' = "refused"
  /\ UNCHANGED <<logical, segs, idx, last, psg, first>>

(* The end of the loop.  scsi_dma_map returns 0 for a command without      *)
(* data; that is refused as well.                                          *)
Return ==
  /\ result = "building" /\ idx = Len(segs)
  /\ result' = IF ~logical /\ segs = <<>> THEN "refused" ELSE "built"
  /\ UNCHANGED <<logical, segs, idx, last, psg, first>>

SgNext == CopyLogical \/ NewDescriptor \/ Merge \/ Refuse \/ Return

SgSpec == SgInit /\ [][SgNext]_sgVars

-----------------------------------------------------------------------------
Descriptor == [addr : Nat, size : Nat, eot : BOOLEAN]

(* Types; the descriptors fit the place for one per segment.               *)
SgTypeOK ==
  /\ logical \in BOOLEAN
  /\ segs \in Inputs
  /\ idx \in 0 .. Len(segs)
  /\ last \in Nat
  /\ psg \in Seq(Descriptor)
  /\ first \in Seq(1 .. Len(segs))
  /\ Len(first) = Len(psg) /\ Len(psg) <= idx /\ (idx > 0 => Len(psg) > 0)
  /\ result \in {"building", "built", "refused"}

End(s) == s.addr + s.len

(* The segment with which descriptor k ends.                               *)
LastOf(k) == IF k = Len(psg) THEN idx ELSE first[k + 1] - 1

(* The descriptors name the bytes of the segments, all of them and in      *)
(* their order: each stands for a run of segments that adjoin, and the     *)
(* next begins with the segment after the run.                             *)
SameBytes ==
  /\ idx > 0 => first[1] = 1
  /\ \A k \in 1 .. Len(psg) :
       /\ first[k] <= LastOf(k)
       /\ psg[k].addr = segs[first[k]].addr
       /\ psg[k].addr + psg[k].size = End(segs[LastOf(k)])
       /\ \A i \in first[k] + 1 .. LastOf(k) : segs[i].addr = End(segs[i - 1])

(* The end of the table is marked once, at its end, also when the last     *)
(* segment was merged into a descriptor made before.                       *)
EotAtEnd ==
  \A k \in 1 .. Len(psg) : psg[k].eot <=> k = Len(psg) /\ idx = Len(segs)

Crosses(a, n) == \E b \in Boundaries : a < b /\ b < a + n

(* Every physical descriptor is one the adapter can take: even, and, if    *)
(* it was merged, within the limit and in one 4 GB range as long as its    *)
(* segments are.                                                           *)
Transferable ==
  ~logical => \A k \in 1 .. Len(psg) :
    /\ psg[k].addr % 2 = 0 /\ psg[k].size % 2 = 0
    /\ first[k] < LastOf(k) => psg[k].size <= Limit
    /\ Crosses(psg[k].addr, psg[k].size) =>
         \E i \in first[k] .. LastOf(k) : Crosses(segs[i].addr, segs[i].len)
=============================================================================
