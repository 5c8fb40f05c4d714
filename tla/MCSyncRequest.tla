--------------------------- MODULE MCSyncRequest ---------------------------
(* Two processes on two buses: a reset of a bus by one of them can then    *)
(* complete the request of the other.                                      *)
EXTENDS SyncRequest

MCCaller == {"p", "q"}
=============================================================================
