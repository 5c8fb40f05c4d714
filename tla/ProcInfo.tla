------------------------------ MODULE ProcInfo ------------------------------
(***************************************************************************)
(* The window of hptinfo.c.  Every read of /proc/scsi/rr62x/<host> makes   *)
(* the whole text again, piece by piece; hpt_copy_mem_info keeps of it the *)
(* part that the read asked for, [bufoffset, bufoffset + buflength).  The  *)
(* reader continues at the offset it has reached until a read is empty.    *)
(*                                                                         *)
(* A character of the text is its position, 0 the first.                   *)
(***************************************************************************)
EXTENDS Naturals, Sequences

CONSTANTS
  MaxPiece,    \* bound: the longest text of one hpt_copy_info
  MaxText,     \* bound: the length of the whole text
  Length       \* length: the size of the reader's buffer

ASSUME ProcInfoAssumption ==
  MaxPiece \in Nat /\ MaxText \in Nat /\ Length \in Nat \ {0}

VARIABLES
  text,        \* the length of the text this reader sees
  reading,     \* hpt_proc_get_info is running
  made,        \* characters produced in this read
  bufoffset, filpos, buffillen, buffer,    \* HPT_GET_INFO
  got,         \* what the reader has received so far
  eof          \* the reader has seen the end

vars == <<text, reading, made, bufoffset, filpos, buffillen, buffer, got, eof>>

Init ==
  /\ text \in 0 .. MaxText
  /\ reading = FALSE /\ made = 0
  /\ bufoffset = 0 /\ filpos = 0 /\ buffillen = 0 /\ buffer = <<>>
  /\ got = <<>> /\ eof = FALSE

(* hpt_proc_get_info(offset = what the reader has, length)                 *)
StartRead ==
  /\ ~reading /\ ~eof
  /\ reading' = TRUE /\ made' = 0
  /\ bufoffset' = Len(got)
  /\ filpos' = 0 /\ buffillen' = 0 /\ buffer' = <<>>
  /\ UNCHANGED <<text, got, eof>>

Smaller(a, b) == IF a < b THEN a ELSE b

(* hpt_copy_mem_info after the characters before the window are gone:      *)
(* data is the position of the first one left, datalen their number.       *)
Keep(data, datalen) ==
  LET n == Smaller(datalen, Length - buffillen)
  IN  /\ buffer' = buffer \o [k \in 1 .. n |-> data + k - 1]
      /\ buffillen' = buffillen + n

(* Mutant of CopyMemInfo: a piece across the window's start is not cut.    *)
CopyWholePiece(datalen) ==
  /\ filpos' = filpos + datalen
  /\ IF filpos + datalen <= bufoffset
     THEN UNCHANGED <<buffillen, buffer>>
     ELSE Keep(made, datalen)

CopyMemInfo(datalen) ==
  /\ filpos' = filpos + datalen
  /\ IF filpos + datalen <= bufoffset
     THEN UNCHANGED <<buffillen, buffer>>
     ELSE IF filpos < bufoffset
          THEN Keep(made + (bufoffset - filpos), datalen - (bufoffset - filpos))
          ELSE Keep(made, datalen)

CopyInfo(n) ==
  /\ reading
  /\ made + n <= text
  /\ made' = made + n
  /\ CopyMemInfo(n)
  /\ UNCHANGED <<text, reading, bufoffset, got, eof>>

(* Mutant of EndRead: the offset of the next read does not move.           *)
EndWithoutAdvance ==
  /\ reading /\ made = text
  /\ reading' = FALSE
  /\ eof' = (buffillen = 0)
  /\ UNCHANGED <<text, made, bufoffset, filpos, buffillen, buffer, got>>

(* The function returns buffillen; the reader appends that much.           *)
EndRead ==
  /\ reading /\ made = text
  /\ reading' = FALSE
  /\ got' = got \o SubSeq(buffer, 1, buffillen)
  /\ eof' = (buffillen = 0)
  /\ UNCHANGED <<text, made, bufoffset, filpos, buffillen, buffer>>

Next == StartRead \/ EndRead \/ \E n \in 1 .. MaxPiece : CopyInfo(n)

Spec == Init /\ [][Next]_vars

FairSpec == Spec /\ WF_vars(Next)

-----------------------------------------------------------------------------
(* Types.                                                                  *)
TypeOK ==
  /\ text \in 0 .. MaxText
  /\ reading \in BOOLEAN /\ eof \in BOOLEAN
  /\ made \in 0 .. MaxText
  /\ bufoffset \in Nat /\ filpos \in Nat
  /\ buffillen \in 0 .. Length
  /\ buffer \in Seq(Nat) /\ got \in Seq(Nat)

(* While the text is made, the buffer holds exactly the part of it that    *)
(* falls into the window: nothing from outside, no gap at the borders of   *)
(* the pieces, nothing of the window that has been made missing.           *)
Window ==
  /\ filpos = made
  /\ Len(buffer) = buffillen
  /\ buffillen = IF made <= bufoffset THEN 0 ELSE Smaller(made - bufoffset, Length)
  /\ \A k \in 1 .. buffillen : buffer[k] = bufoffset + k - 1

(* What the reader has put together is a prefix of the text, and at the    *)
(* end of file it is the whole text.                                       *)
ReadsTextInOrder ==
  /\ \A k \in 1 .. Len(got) : got[k] = k - 1
  /\ eof => Len(got) = text

(* The reader comes to the end of the file.                                *)
ReachesEof == <>eof
=============================================================================
