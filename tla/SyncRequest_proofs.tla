------------------------- MODULE SyncRequest_proofs -------------------------
(***************************************************************************)
(* Proofs about SyncRequest, for any number of processes, of buses and of  *)
(* timer callbacks running beside a process.                               *)
(***************************************************************************)
EXTENDS SyncRequest, TLAPS

(* Which places of the code are inside the frame of __hpt_do_ioctl, and    *)
(* which of them are before the end of a wait.                             *)
LEMMA Places ==
  /\ Asleep \cup {"disarm", "check"} = InFrame
  /\ "disarm" \notin Asleep /\ "check" \notin Asleep
  /\ "trylock" \in Asleep /\ "arm" \in Asleep /\ "down" \in Asleep
  /\ "down_uninterruptible" \in Asleep
  /\ "idle" \notin InFrame /\ "ask" \notin InFrame
  BY DEF Asleep, InFrame

(* The types are preserved by every step.                                  *)
THEOREM TypeCorrect == Spec => []TypeOK
<1> USE SyncRequestAssumption, Places DEF SyncRequestAssumption
<1>1. Init => TypeOK
  BY DEF Init, TypeOK
<1>2. TypeOK /\ [Next]_vars => TypeOK'
  <2> SUFFICES ASSUME TypeOK, [Next]_vars PROVE TypeOK'
    OBVIOUS
  <2> USE DEF TypeOK
  <2>1. ASSUME NEW c \in Caller, Call(c) PROVE TypeOK'
    BY <2>1 DEF Call
  <2>2. ASSUME NEW c \in Caller, Submit(c) PROVE TypeOK'
    <3>1. /\ pc' = [pc EXCEPT ![c] = "trylock"]
          /\ expired' = [expired EXCEPT ![c] = FALSE]
          /\ UNCHANGED <<at, timer, late>>
      BY <2>2 DEF Submit
    <3>2. CASE \E h \in {"working", "stuck"} :
                 /\ held' = [held EXCEPT ![c] = h]
                 /\ sem' = [sem EXCEPT ![c] = 0]
                 /\ cmnd' = [cmnd EXCEPT ![c] = TRUE]
                 /\ result' = [result EXCEPT ![c] = "none"]
      BY <3>1, <3>2
    <3>3. CASE \E a \in Answers :
                 /\ UNCHANGED held
                 /\ sem' = [sem EXCEPT ![c] = 1]
                 /\ cmnd' = [cmnd EXCEPT ![c] = FALSE]
                 /\ result' = [result EXCEPT ![c] = a]
      BY <3>1, <3>3
    <3> QED
      BY <2>2, <3>2, <3>3 DEF Submit
  <2>3. ASSUME NEW c \in Caller, Complete(c) PROVE TypeOK'
    BY <2>3 DEF Complete, Done
  <2>4. ASSUME NEW c \in Caller, DownTrylock(c) PROVE TypeOK'
    BY <2>4 DEF DownTrylock
  <2>5. ASSUME NEW c \in Caller, AddTimer(c) PROVE TypeOK'
    BY <2>5 DEF AddTimer
  <2>6. ASSUME NEW c \in Caller, Signal(c) PROVE TypeOK'
    BY <2>6 DEF Signal
  <2>7. ASSUME NEW c \in Caller, Down(c) PROVE TypeOK'
    BY <2>7 DEF Down
  <2>8. ASSUME NEW c \in Caller, DelTimer(c) PROVE TypeOK'
    BY <2>8 DEF DelTimer
  <2>9. ASSUME NEW c \in Caller, TimerExpires(c) PROVE TypeOK'
    BY <2>9 DEF TimerExpires
  <2>10. ASSUME NEW c \in Caller, LateUp(c) PROVE TypeOK'
    BY <2>10 DEF LateUp
  <2>11. ASSUME NEW c \in Caller, Finish(c) PROVE TypeOK'
    BY <2>11 DEF Finish
  <2>12. ASSUME NEW c \in Caller, NEW S \in SUBSET Caller, Reset(c, S) PROVE TypeOK'
    BY <2>12 DEF Reset, Done
  <2>13. CASE UNCHANGED vars
    BY <2>13 DEF vars
  <2> QED
    BY <2>1, <2>2, <2>3, <2>4, <2>5, <2>6, <2>7, <2>8, <2>9, <2>10, <2>11,
       <2>12, <2>13 DEF Next, Step
<1> QED
  BY <1>1, <1>2, PTL DEF Spec

(* Both invariants say what must hold of a request at every moment of its  *)
(* life; each step of one process is checked for all processes, since a    *)
(* reset by one completes requests of others.                              *)
SafeRequest == NoLostWakeup /\ NoDanglingRequest

(* A sleeping process whose request is complete has its wakeup waiting,    *)
(* and the LDM holds no request whose frame is gone or that is answered.   *)
THEOREM RequestsAreSafe == Spec => [](NoLostWakeup /\ NoDanglingRequest)
<1> USE SyncRequestAssumption, Places DEF SyncRequestAssumption
<1>1. Init => SafeRequest
  BY DEF Init, SafeRequest, NoLostWakeup, NoDanglingRequest
<1>2. TypeOK /\ TypeOK' /\ SafeRequest /\ [Next]_vars => SafeRequest'
  <2> SUFFICES ASSUME TypeOK, TypeOK', SafeRequest, [Next]_vars PROVE SafeRequest'
    OBVIOUS
  <2> USE DEF TypeOK, SafeRequest, NoLostWakeup, NoDanglingRequest
  <2>1. ASSUME NEW c \in Caller, Call(c) PROVE SafeRequest'
    BY <2>1 DEF Call
  <2>2. ASSUME NEW c \in Caller, Submit(c) PROVE SafeRequest'
    <3>0. pc[c] = "ask" /\ pc' = [pc EXCEPT ![c] = "trylock"]
      BY <2>2 DEF Submit
    <3>1. pc' = [pc EXCEPT ![c] = "trylock"] /\ held[c] = "no"
      BY <3>0
    <3>2. CASE \E h \in {"working", "stuck"} :
                 /\ held' = [held EXCEPT ![c] = h]
                 /\ sem' = [sem EXCEPT ![c] = 0]
                 /\ cmnd' = [cmnd EXCEPT ![c] = TRUE]
                 /\ result' = [result EXCEPT ![c] = "none"]
      BY <3>1, <3>2
    <3>3. CASE \E a \in Answers :
                 /\ UNCHANGED held
                 /\ sem' = [sem EXCEPT ![c] = 1]
                 /\ cmnd' = [cmnd EXCEPT ![c] = FALSE]
                 /\ result' = [result EXCEPT ![c] = a]
      BY <3>1, <3>3
    <3> HIDE DEF TypeOK, SafeRequest, NoLostWakeup, NoDanglingRequest
    <3> QED
      BY <2>2, <3>2, <3>3 DEF Submit
  <2>3. ASSUME NEW c \in Caller, Complete(c) PROVE SafeRequest'
    <3>1. held[c] # "no" /\ held' = [held EXCEPT ![c] = "no"] /\ pc' = pc
      BY <2>3 DEF Complete
    <3>2. /\ cmnd' = [d \in Caller |-> cmnd[d] /\ d \notin {c}]
          /\ sem' = [d \in Caller |-> IF d \in {c} THEN sem[d] + 1 ELSE sem[d]]
      BY <2>3 DEF Complete, Done
    <3>3. \A d \in Caller : cmnd'[d] <=> cmnd[d] /\ d # c
      BY <3>2
    <3>4. NoDanglingRequest'
      BY <3>1, <3>3
    <3>5. NoLostWakeup'
      BY <3>1, <3>2, <3>3
    <3> QED
      BY <3>4, <3>5
  <2>4. ASSUME NEW c \in Caller, DownTrylock(c) PROVE SafeRequest'
    BY <2>4 DEF DownTrylock
  <2>5. ASSUME NEW c \in Caller, AddTimer(c) PROVE SafeRequest'
    BY <2>5 DEF AddTimer
  <2>6. ASSUME NEW c \in Caller, Signal(c) PROVE SafeRequest'
    BY <2>6 DEF Signal
  <2>7. ASSUME NEW c \in Caller, Down(c) PROVE SafeRequest'
    BY <2>7 DEF Down
  <2>8. ASSUME NEW c \in Caller, DelTimer(c) PROVE SafeRequest'
    BY <2>8 DEF DelTimer
  <2>9. ASSUME NEW c \in Caller, TimerExpires(c) PROVE SafeRequest'
    BY <2>9 DEF TimerExpires
  <2>10. ASSUME NEW c \in Caller, LateUp(c) PROVE SafeRequest'
    BY <2>10 DEF LateUp
  <2>11. ASSUME NEW c \in Caller, Finish(c) PROVE SafeRequest'
    BY <2>11 DEF Finish
  <2>12. ASSUME NEW c \in Caller, NEW S \in SUBSET Caller, Reset(c, S)
         PROVE SafeRequest'
    <3>1. /\ pc[c] = "check" /\ cmnd[c]
          /\ pc' = [pc EXCEPT ![c] = "trylock"]
          /\ \A d \in S : held[d] # "no"
          /\ cmnd' = [d \in Caller |-> cmnd[d] /\ d \notin S]
      BY <2>12 DEF Reset, Done
    <3>2. \A d \in Caller : held'[d] # "no" <=> held[d] # "no" /\ d \notin S
      BY <2>12 DEF Reset
    <3>3. \A d \in Caller : sem'[d] >= (IF d = c THEN 0 ELSE sem[d])
                            + (IF d \in S THEN 1 ELSE 0)
      BY <2>12 DEF Reset, Done
    <3>6. \A d \in Caller : pc'[d] \in InFrame <=> pc[d] \in InFrame
      BY <3>1
    <3>7. \A d \in Caller : cmnd'[d] <=> cmnd[d] /\ d \notin S
      BY <3>1
    <3>4. NoDanglingRequest'
      BY <3>2, <3>6, <3>7
    <3>5. NoLostWakeup'
      BY <3>1, <3>3
    <3> QED
      BY <3>4, <3>5
  <2>13. CASE UNCHANGED vars
    BY <2>13 DEF vars
  <2> QED
    BY <2>1, <2>2, <2>3, <2>4, <2>5, <2>6, <2>7, <2>8, <2>9, <2>10, <2>11,
       <2>12, <2>13 DEF Next, Step
<1> QED
  BY <1>1, <1>2, TypeCorrect, PTL DEF Spec, SafeRequest

(* An answered request has an answer.                                      *)
Answered == \A c \in Caller : pc[c] \in InFrame /\ ~cmnd[c] => result[c] \in Answers

(* A request that is answered has an answer, on every way there.           *)
LEMMA AnsweredHasAnswer == Spec => []Answered
<1> USE SyncRequestAssumption, Places DEF SyncRequestAssumption
<1>1. Init => Answered
  BY DEF Init, Answered
<1>2. TypeOK /\ Answered /\ [Next]_vars => Answered'
  <2> SUFFICES ASSUME TypeOK, Answered, [Next]_vars PROVE Answered'
    OBVIOUS
  <2> USE DEF TypeOK, Answered
  <2>1. ASSUME NEW c \in Caller, Submit(c) PROVE Answered'
    <3>1. pc' = [pc EXCEPT ![c] = "trylock"]
      BY <2>1 DEF Submit
    <3>2. ASSUME NEW d \in Caller, d # c
          PROVE  cmnd'[d] = cmnd[d] /\ result'[d] = result[d]
      BY <2>1, <3>2 DEF Submit
    <3>3. cmnd'[c] \/ result'[c] \in Answers
      BY <2>1 DEF Submit
    <3> QED
      BY <3>1, <3>2, <3>3
  <2>2. ASSUME NEW S \in SUBSET Caller, NEW r \in [Caller -> Answers], NEW base,
               Done(S, r, base), \A d \in Caller : pc'[d] \in InFrame <=> pc[d] \in InFrame
        PROVE  Answered'
    BY <2>2 DEF Done
  <2>3. ASSUME NEW c \in Caller, Complete(c) PROVE Answered'
    <3>1. PICK a \in Answers : Done({c}, [d \in Caller |-> a], sem)
      BY <2>3 DEF Complete
    <3>2. pc' = pc /\ [d \in Caller |-> a] \in [Caller -> Answers]
      BY <2>3 DEF Complete
    <3> QED
      BY <2>2, <3>1, <3>2
  <2>4. ASSUME NEW c \in Caller, NEW S \in SUBSET Caller, Reset(c, S) PROVE Answered'
    <3>1. PICK r \in [Caller -> Answers] : Done(S, r, [sem EXCEPT ![c] = 0])
      BY <2>4 DEF Reset
    <3>2. \A d \in Caller : pc'[d] \in InFrame <=> pc[d] \in InFrame
      BY <2>4 DEF Reset
    <3> QED
      BY <2>2, <3>1, <3>2
  <2>5. ASSUME NEW c \in Caller,
               \/ Call(c) \/ DownTrylock(c) \/ AddTimer(c) \/ Signal(c) \/ Down(c)
               \/ DelTimer(c) \/ TimerExpires(c) \/ LateUp(c) \/ Finish(c)
        PROVE  Answered'
    BY <2>5 DEF Call, DownTrylock, AddTimer, Signal, Down, DelTimer, TimerExpires,
                LateUp, Finish
  <2>6. CASE UNCHANGED vars
    BY <2>6 DEF vars
  <2> QED
    BY <2>1, <2>3, <2>4, <2>5, <2>6 DEF Next, Step
<1> QED
  BY <1>1, <1>2, TypeCorrect, PTL DEF Spec

(* For any number of processes and buses the answers are those of a call   *)
(* that is answered at one moment: no answer is lost, made up or given     *)
(* twice by timeouts, resets and late completions.                         *)
THEOREM Implementation == Spec => ImplementsIoctlCall
<1> USE SyncRequestAssumption, Places DEF SyncRequestAssumption
<1>1. Init => Abstract!Init
  BY DEF Init, Abstract!Init, Phase
<1>2. TypeOK /\ TypeOK' /\ SafeRequest /\ Answered /\ [Next]_vars
        => [Abstract!Next]_Abstract!vars
  <2> SUFFICES ASSUME TypeOK, TypeOK', SafeRequest, Answered, [Next]_vars
               PROVE  Abstract!Next \/ (Phase' = Phase /\ at' = at)
    BY DEF Abstract!vars
  <2>0. \A c \in Caller : Phase[c] = IF pc[c] = "idle" THEN "idle"
                                   ELSE IF pc[c] = "ask" THEN "between"
                                   ELSE IF cmnd[c] THEN "pending" ELSE result[c]
    BY DEF Phase
  <2>1. \A c \in Caller : Phase'[c] = IF pc'[c] = "idle" THEN "idle"
                                    ELSE IF pc'[c] = "ask" THEN "between"
                                    ELSE IF cmnd'[c] THEN "pending" ELSE result'[c]
    BY DEF Phase
  <2>2. ASSUME NEW c \in Caller, Call(c) PROVE Abstract!Call(c)
    <3>1. \A d \in Caller : Phase'[d] = IF d = c THEN "between" ELSE Phase[d]
      BY <2>0, <2>1, <2>2 DEF Call, TypeOK
    <3>2. Phase' = [Phase EXCEPT ![c] = "between"]
      BY <3>1 DEF Phase
    <3> QED
      BY <2>0, <2>2, <3>2 DEF Call, Abstract!Call
  <2>3. ASSUME NEW c \in Caller, Submit(c) PROVE Abstract!Ask(c)
    <3>1. Phase[c] = "between" /\ at' = at
      BY <2>0, <2>3 DEF Submit
    <3>2. ASSUME NEW d \in Caller, d # c PROVE Phase'[d] = Phase[d]
      <4>1. pc'[d] = pc[d] /\ cmnd'[d] = cmnd[d] /\ result'[d] = result[d]
        BY <2>3, <3>2 DEF Submit, TypeOK
      <4> QED
        BY <2>0, <2>1, <4>1
    <3>3. Phase'[c] \in Answers \cup {"pending"}
      <4>1. pc'[c] = "trylock"
        BY <2>3 DEF Submit, TypeOK
      <4>2. cmnd'[c] \/ result'[c] \in Answers
        BY <2>3 DEF Submit, TypeOK
      <4> QED
        BY <2>1, <4>1, <4>2
    <3>4. Phase' = [Phase EXCEPT ![c] = Phase'[c]]
      BY <3>2 DEF Phase
    <3> QED
      BY <3>1, <3>3, <3>4 DEF Abstract!Ask, Abstract!Answers, Answers
  <2>4. ASSUME NEW c \in Caller, Finish(c) PROVE Abstract!AskNext(c) \/ Abstract!Return(c)
    <3>1. /\ pc[c] = "check" /\ ~cmnd[c] /\ result[c] \in Answers /\ Phase[c] = result[c]
      BY <2>0, <2>4 DEF Finish, Answered
    <3>2. \A d \in Caller : d # c => Phase'[d] = Phase[d]
      BY <2>0, <2>1, <2>4 DEF Finish, TypeOK
    <3>3. CASE result[c] = "wrong_vbus" /\ at[c] < NVbus
      <4>1. Phase'[c] = "between" /\ at' = [at EXCEPT ![c] = at[c] + 1]
        BY <2>1, <2>4, <3>3 DEF Finish, TypeOK
      <4>2. Phase' = [Phase EXCEPT ![c] = "between"]
        BY <3>2, <4>1 DEF Phase
      <4> QED
        BY <3>1, <3>3, <4>1, <4>2 DEF Abstract!AskNext
    <3>4. CASE ~(result[c] = "wrong_vbus" /\ at[c] < NVbus)
      <4>1. Phase'[c] = "idle" /\ at' = at
        BY <2>1, <2>4, <3>4 DEF Finish, TypeOK
      <4>2. Phase' = [Phase EXCEPT ![c] = "idle"]
        BY <3>2, <4>1 DEF Phase
      <4>3. result[c] = "ok" \/ (result[c] = "wrong_vbus" /\ at[c] = NVbus)
        BY <3>1, <3>4 DEF Answers, TypeOK
      <4> QED
        BY <3>1, <4>1, <4>2, <4>3 DEF Abstract!Return
    <3> QED
      BY <3>3, <3>4
  <2>5. ASSUME NEW S \in SUBSET Caller, NEW r \in [Caller -> Answers], NEW base,
               Done(S, r, base), at' = at, \A d \in S : held[d] # "no",
               \A d \in Caller : \/ pc'[d] = pc[d]
                                 \/ pc'[d] \in InFrame /\ pc[d] \in InFrame
        PROVE  Abstract!Answer
    <3>1. \A d \in S : Phase[d] = "pending" /\ cmnd[d] /\ pc[d] \in InFrame
      BY <2>0, <2>5 DEF SafeRequest, NoDanglingRequest
    <3>2. \A d \in Caller : /\ cmnd'[d] <=> cmnd[d] /\ d \notin S
                            /\ result'[d] = IF d \in S THEN r[d] ELSE result[d]
      BY <2>5 DEF Done
    <3>3. \A d \in S : Phase'[d] = r[d]
      BY <2>1, <2>5, <3>1, <3>2
    <3>4. \A d \in Caller \ S : Phase'[d] = Phase[d]
      BY <2>0, <2>1, <2>5, <3>2
    <3>5. Phase' = [d \in Caller |-> IF d \in S THEN r[d] ELSE Phase[d]]
      BY <3>3, <3>4 DEF Phase
    <3> QED
      BY <2>5, <3>1, <3>5 DEF Abstract!Answer, Abstract!Answers, Answers
  <2>6. ASSUME NEW c \in Caller, Complete(c) PROVE Abstract!Answer
    <3>1. PICK a \in Answers : Done({c}, [d \in Caller |-> a], sem)
      BY <2>6 DEF Complete
    <3>2. /\ [d \in Caller |-> a] \in [Caller -> Answers] /\ {c} \in SUBSET Caller
          /\ at' = at /\ pc' = pc /\ held[c] # "no"
      BY <2>6 DEF Complete
    <3> QED
      BY <2>5, <3>1, <3>2
  <2>7. ASSUME NEW c \in Caller, NEW S \in SUBSET Caller, Reset(c, S) PROVE Abstract!Answer
    <3>1. PICK r \in [Caller -> Answers] : Done(S, r, [sem EXCEPT ![c] = 0])
      BY <2>7 DEF Reset
    <3>2. /\ at' = at /\ \A d \in S : held[d] # "no"
          /\ pc[c] = "check" /\ pc' = [pc EXCEPT ![c] = "trylock"]
      BY <2>7 DEF Reset
    <3>3. \A d \in Caller : \/ pc'[d] = pc[d]
                            \/ pc'[d] \in InFrame /\ pc[d] \in InFrame
      BY <3>2 DEF TypeOK
    <3> QED
      BY <2>5, <3>1, <3>2, <3>3
  <2>8. ASSUME NEW c \in Caller,
               \/ DownTrylock(c) \/ AddTimer(c) \/ Signal(c) \/ Down(c)
               \/ DelTimer(c) \/ TimerExpires(c) \/ LateUp(c)
        PROVE  Phase' = Phase /\ at' = at
    <3>1. /\ at' = at /\ cmnd' = cmnd /\ result' = result
          /\ \A d \in Caller : \/ pc'[d] = pc[d]
                               \/ pc'[d] \in InFrame /\ pc[d] \in InFrame
      <4>1. CASE TimerExpires(c) \/ LateUp(c)
        BY <4>1 DEF TimerExpires, LateUp
      <4>2. ASSUME DownTrylock(c) \/ AddTimer(c) \/ Signal(c) \/ Down(c) \/ DelTimer(c)
            PROVE  /\ at' = at /\ cmnd' = cmnd /\ result' = result
                   /\ pc[c] \in InFrame
                   /\ \E p \in InFrame : pc' = [pc EXCEPT ![c] = p]
        <5>1. CASE DownTrylock(c)
          <6>1. "check" \in InFrame /\ "arm" \in InFrame /\ "trylock" \in InFrame
            BY DEF InFrame, Asleep
          <6>2. CASE sem[c] > 0
            BY <5>1, <6>1, <6>2 DEF DownTrylock
          <6>3. CASE ~(sem[c] > 0)
            BY <5>1, <6>1, <6>3 DEF DownTrylock
          <6> QED
            BY <6>2, <6>3
        <5>2. CASE AddTimer(c)
          BY <5>2 DEF AddTimer, InFrame, Asleep
        <5>3. CASE Signal(c)
          BY <5>3 DEF Signal, InFrame, Asleep
        <5>4. CASE Down(c)
          BY <5>4 DEF Down, InFrame, Asleep
        <5>5. CASE DelTimer(c)
          BY <5>5 DEF DelTimer, InFrame, Asleep
        <5> QED
          BY <4>2, <5>1, <5>2, <5>3, <5>4, <5>5
      <4>3. CASE DownTrylock(c) \/ AddTimer(c) \/ Signal(c) \/ Down(c) \/ DelTimer(c)
        BY <4>2, <4>3 DEF TypeOK
      <4> QED
        BY <2>8, <4>1, <4>3
    <3>2. \A d \in Caller : Phase'[d] = Phase[d]
      BY <2>0, <2>1, <3>1
    <3> QED
      BY <3>1, <3>2 DEF Phase
  <2>9. CASE UNCHANGED vars
    BY <2>9 DEF vars, Phase
  <2> QED
    BY <2>2, <2>3, <2>4, <2>6, <2>7, <2>8, <2>9 DEF Next, Step, Abstract!Next
<1> QED
  BY <1>1, <1>2, TypeCorrect, RequestsAreSafe, AnsweredHasAnswer, PTL
     DEF Spec, SafeRequest, ImplementsIoctlCall, Abstract!Spec

(* While the request is unanswered only the timer has raised the           *)
(* semaphore or let the process out of its wait.                           *)
OnlyTheTimerWakes ==
  \A c \in Caller : /\ pc[c] \in InFrame /\ cmnd[c]
                    /\ sem[c] > 0 \/ pc[c] \in {"disarm", "check"}
                    => expired[c]

(* A process goes from the check to another wait, through the reset, only  *)
(* if its timer has expired since it began to wait.                        *)
THEOREM OnlyTimeoutsReset == Spec => ResetOnlyAfterTimeout
<1> USE SyncRequestAssumption, Places DEF SyncRequestAssumption
<1>1. Init => OnlyTheTimerWakes
  BY DEF Init, OnlyTheTimerWakes
<1>2. TypeOK /\ OnlyTheTimerWakes /\ [Next]_vars => OnlyTheTimerWakes'
  <2> SUFFICES ASSUME TypeOK, OnlyTheTimerWakes, [Next]_vars PROVE OnlyTheTimerWakes'
    OBVIOUS
  <2> USE DEF TypeOK, OnlyTheTimerWakes
  <2>1. ASSUME NEW c \in Caller, Submit(c) PROVE OnlyTheTimerWakes'
    <3>1. pc' = [pc EXCEPT ![c] = "trylock"]
      BY <2>1 DEF Submit
    <3>2. ~cmnd'[c] \/ sem'[c] = 0
      BY <2>1 DEF Submit
    <3>3. ASSUME NEW d \in Caller, d # c
          PROVE  sem'[d] = sem[d] /\ cmnd'[d] = cmnd[d] /\ expired'[d] = expired[d]
      BY <2>1, <3>3 DEF Submit
    <3> QED
      BY <3>1, <3>2, <3>3
  <2>2. ASSUME NEW c \in Caller, Complete(c) PROVE OnlyTheTimerWakes'
    <3>1. PICK a \in Answers : Done({c}, [d \in Caller |-> a], sem)
      BY <2>2 DEF Complete
    <3>2. /\ ~cmnd'[c] /\ pc' = pc /\ expired' = expired
          /\ \A d \in Caller \ {c} : sem'[d] = sem[d] /\ (cmnd'[d] <=> cmnd[d])
      BY <2>2, <3>1 DEF Complete, Done
    <3> QED
      BY <3>2
  <2>3. ASSUME NEW c \in Caller, NEW S \in SUBSET Caller, Reset(c, S)
        PROVE  OnlyTheTimerWakes'
    <3>1. PICK r \in [Caller -> Answers] : Done(S, r, [sem EXCEPT ![c] = 0])
      BY <2>3 DEF Reset
    <3>2. /\ \A d \in Caller : sem'[d] = IF d \in S THEN [sem EXCEPT ![c] = 0][d] + 1
                                                 ELSE [sem EXCEPT ![c] = 0][d]
          /\ \A d \in Caller : cmnd'[d] <=> cmnd[d] /\ d \notin S
      BY <3>1 DEF Done
    <3>3. /\ pc'[c] = "trylock"
          /\ \A d \in Caller \ {c} : expired'[d] = expired[d] /\ pc'[d] = pc[d]
      BY <2>3 DEF Reset
    <3>4. ASSUME cmnd'[c] PROVE pc'[c] = "trylock" /\ sem'[c] = 0
      BY <3>2, <3>3, <3>4
    <3>5. ASSUME NEW d \in Caller \ {c}, cmnd'[d]
          PROVE  /\ sem'[d] = sem[d] /\ cmnd[d]
                 /\ pc'[d] = pc[d] /\ expired'[d] = expired[d]
      BY <3>2, <3>3, <3>5
    <3>6. ASSUME NEW d \in Caller, pc'[d] \in InFrame, cmnd'[d],
                 sem'[d] > 0 \/ pc'[d] \in {"disarm", "check"}
          PROVE  expired'[d]
      <4>1. CASE d = c
        BY <3>4, <3>6, <4>1
      <4>2. CASE d # c
        <5>1. /\ sem'[d] = sem[d] /\ cmnd[d] /\ pc'[d] = pc[d] /\ expired'[d] = expired[d]
          BY <3>5, <3>6, <4>2
        <5> QED
          BY <3>6, <5>1
      <4> QED
        BY <4>1, <4>2
    <3> HIDE DEF TypeOK
    <3> QED
      BY <3>6
  <2>4. ASSUME NEW c \in Caller, LateUp(c) PROVE OnlyTheTimerWakes'
    BY <2>4 DEF LateUp
  <2>5. ASSUME NEW c \in Caller, DownTrylock(c) \/ Down(c) PROVE OnlyTheTimerWakes'
    BY <2>5 DEF DownTrylock, Down
  <2>6. ASSUME NEW c \in Caller,
               \/ Call(c) \/ AddTimer(c) \/ Signal(c) \/ DelTimer(c)
               \/ TimerExpires(c) \/ Finish(c)
        PROVE  OnlyTheTimerWakes'
    BY <2>6 DEF Call, AddTimer, Signal, DelTimer, TimerExpires, Finish
  <2>7. CASE UNCHANGED vars
    BY <2>7 DEF vars
  <2> QED
    BY <2>1, <2>2, <2>3, <2>4, <2>5, <2>6, <2>7 DEF Next, Step
<1>3. TypeOK /\ OnlyTheTimerWakes /\ [Next]_vars
        => \A c \in Caller : pc[c] = "check" /\ pc'[c] = "trylock" => expired[c]
  <2> SUFFICES ASSUME TypeOK, OnlyTheTimerWakes, [Next]_vars,
                      NEW c \in Caller, pc[c] = "check", pc'[c] = "trylock"
               PROVE  expired[c]
    OBVIOUS
  <2>1. ASSUME cmnd[c] PROVE expired[c]
    BY <2>1 DEF OnlyTheTimerWakes
  <2>2. ASSUME NEW d \in Caller, NEW S \in SUBSET Caller, Reset(d, S) PROVE expired[c]
    <3>1. pc[d] = "check" /\ cmnd[d] /\ pc' = [pc EXCEPT ![d] = "trylock"]
      BY <2>2 DEF Reset
    <3> QED
      BY <2>1, <3>1 DEF TypeOK
  <2>3. ASSUME NEW d \in Caller,
               \/ Call(d) \/ Submit(d) \/ DownTrylock(d) \/ AddTimer(d) \/ Down(d)
               \/ DelTimer(d) \/ Finish(d) \/ Signal(d)
        PROVE  FALSE
    BY <2>3 DEF Call, Submit, DownTrylock, AddTimer, Down, DelTimer, Finish, Signal, TypeOK
  <2>4. ASSUME NEW d \in Caller, Complete(d) \/ TimerExpires(d) \/ LateUp(d) PROVE FALSE
    BY <2>4 DEF Complete, TimerExpires, LateUp
  <2>5. CASE UNCHANGED vars
    BY <2>5 DEF vars
  <2> QED
    BY <2>2, <2>3, <2>4, <2>5 DEF Next, Step
<1> QED
  BY <1>1, <1>2, <1>3, TypeCorrect, PTL DEF Spec, ResetOnlyAfterTimeout

(* The semaphore of a process that sleeps in down is raised when its       *)
(* request is complete, whoever completed it and whenever.                 *)
THEOREM WakeupsAreKept == Spec => []NoLostWakeup
<1>1. NoLostWakeup /\ NoDanglingRequest => NoLostWakeup
  OBVIOUS
<1> QED
  BY <1>1, RequestsAreSafe, PTL
=============================================================================
