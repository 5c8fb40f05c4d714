------------------------------ MODULE MCFlush ------------------------------
(***************************************************************************)
(* The COMMANDs of a vbus from hpt_alloc_mem to hpt_free_mem, and between  *)
(* them the flush of hpt_cleanup, which takes its COMMAND from the same    *)
(* list as the requests that are still at work: CmdPool and FlushVdev      *)
(* composed.  One of the requests of CmdPool is the flush.                 *)
(***************************************************************************)
EXTENDS CmdPool, FlushVdev

MCBlock == {"b1", "b2", "b3", "b4"}
MCGroup == {"r1", "r2", "flush"}
Needs == 1 .. MaxPerRequest

mcVars == <<vars, flushVars>>

MCInit == Init /\ FlushInit

-----------------------------------------------------------------------------
Load == (Fill \/ StartService) /\ UNCHANGED flushVars

Requests ==
  /\ \E g \in Group \ {"flush"} :
       \/ GroupGet(g) \/ GroupPut(g) \/ FreeCmds(g)
       \/ \E n \in Needs : AllocCmds(g, n)
  /\ UNCHANGED flushVars

(* hpt_flush_vdev needs as many COMMANDs as the device, or the larger      *)
(* number of source and target.                                            *)
SendFlush == \E n \in Needs : Submit /\ AllocCmds("flush", n)

FindNoCommand ==
  /\ phase = "in_service" /\ \E n \in Needs : count < n
  /\ Refused /\ UNCHANGED vars

FreeFlush == Return /\ FreeCmds("flush")

Wait == (Trylock \/ Down \/ TimerExpires \/ TimeoutSem) /\ UNCHANGED vars

(* The LDM takes what the flush has reserved, and has put it back when the *)
(* flush is done.                                                          *)
LdmTakes ==
  /\ ldm = "working"
  /\ GroupGet("flush") \/ GroupPut("flush")
  /\ UNCHANGED flushVars

Ends == Complete \/ Reset
AllBack == Cardinality(held["flush"]) = 1

EndFlush ==
  /\ Ends
  /\ <<vd, Result>>' # <<vd, Result>> => AllBack
  /\ UNCHANGED vars

(* hpt_free_mem comes after the loop.                                      *)
Unload == i = N + 1 /\ FreeMem /\ UNCHANGED flushVars

Over == (Finished \/ phase = "out_of_memory") /\ UNCHANGED mcVars

MCNext ==
  \/ Load \/ Requests \/ SendFlush \/ FindNoCommand \/ Wait \/ LdmTakes
  \/ EndFlush \/ FreeFlush \/ Unload \/ Over

(* Only of a driver that was loaded: the flush is called.                  *)
MCSpec == MCInit /\ [][MCNext]_mcVars /\ FlushFairness
=============================================================================
