----------------------------- MODULE IoctlCall -----------------------------
(***************************************************************************)
(* What hpt_do_ioctl promises a process: the virtual buses are asked one   *)
(* after the other, each at most once and only after the one before said   *)
(* that the request is not for it (HPT_IOCTL_RESULT_WRONG_VBUS); the call  *)
(* returns an answer that was really given, after it was given.            *)
(* SyncRequest implements it with semaphores, timers and resets.           *)
(***************************************************************************)
EXTENDS Naturals

CONSTANTS Caller,    \* the processes that issue ioctls
          NVbus      \* the number of virtual buses

Answers == {"ok", "wrong_vbus"}

VARIABLES
  at,        \* the bus being asked
  phase      \* "idle", "between" two buses, "pending", or the answer

vars == <<at, phase>>

Init == /\ at = [c \in Caller |-> 1]
        /\ phase = [c \in Caller |-> "idle"]

Call(c) == /\ phase[c] = "idle"
           /\ at' = [at EXCEPT ![c] = 1]
           /\ phase' = [phase EXCEPT ![c] = "between"]

(* Asking a bus; it may answer at once.                                    *)
Ask(c) == /\ phase[c] = "between"
          /\ \E p \in Answers \cup {"pending"} : phase' = [phase EXCEPT ![c] = p]
          /\ UNCHANGED at

(* Some pending requests are answered.                                     *)
Answer == /\ \E S \in SUBSET Caller, r \in [Caller -> Answers] :
                /\ \A c \in S : phase[c] = "pending"
                /\ phase' = [c \in Caller |-> IF c \in S THEN r[c] ELSE phase[c]]
          /\ UNCHANGED at

AskNext(c) == /\ phase[c] = "wrong_vbus" /\ at[c] < NVbus
              /\ at' = [at EXCEPT ![c] = at[c] + 1]
              /\ phase' = [phase EXCEPT ![c] = "between"]

Return(c) == /\ \/ phase[c] = "ok"
                \/ phase[c] = "wrong_vbus" /\ at[c] = NVbus
             /\ phase' = [phase EXCEPT ![c] = "idle"]
             /\ UNCHANGED at

Next == Answer \/ \E c \in Caller : Call(c) \/ Ask(c) \/ AskNext(c) \/ Return(c)

Spec == Init /\ [][Next]_vars
=============================================================================
