---------------------------- MODULE MCHostLife ----------------------------
(* HostLife with one list of small blocks, the last page not full, and one *)
(* list of multi-page blocks.                                              *)
EXTENDS HostLife

MCLists == <<[count |-> 3, perpage |-> 2, order |-> 0],
             [count |-> 1, perpage |-> 1, order |-> 1]>>
=============================================================================
