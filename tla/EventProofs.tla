---------------------------- MODULE EventProofs ----------------------------
(***************************************************************************)
(* Proofs about TEvent for any number of waiters.                          *)
(***************************************************************************)
EXTENDS Event, TLAPS

\* Every step keeps the types; one step per action.
LEMMA TypeStep == TypeOK /\ [Next]_vars => TypeOK'
<1> SUFFICES ASSUME TypeOK, [Next]_vars PROVE TypeOK'
  OBVIOUS
<1> USE DEF TypeOK, Return, Accept, Wake
<1>1. CASE SetEvent
  BY <1>1 DEF SetEvent, Notify, Queued
<1>2. CASE ResetEvent
  BY <1>2 DEF ResetEvent
<1>3. ASSUME NEW w \in Waiters, WaitFor(w) PROVE TypeOK'
  BY <1>3 DEF WaitFor
<1>4. ASSUME NEW w \in Waiters, Recheck(w) PROVE TypeOK'
  BY <1>4 DEF Recheck, SleepAgain
<1>5. ASSUME NEW w \in Waiters, Spurious(w) \/ Deadline(w) PROVE TypeOK'
  BY <1>5 DEF Spurious, Deadline
<1>6. ASSUME NEW w \in Waiters, Expire(w) \/ TimeOut(w) PROVE TypeOK'
  BY <1>6 DEF Expire, TimeOut
<1>7. CASE UNCHANGED vars
  BY <1>7 DEF vars
<1> QED
  BY <1>1, <1>2, <1>3, <1>4, <1>5, <1>6, <1>7 DEF Next

\* TEvent keeps its types.
THEOREM TypeCorrect == Spec => []TypeOK
<1>1. Init => TypeOK
  BY DEF Init, TypeOK
<1> QED
  BY <1>1, TypeStep, PTL DEF Spec

-----------------------------------------------------------------------------
(* No lost wake-up *)

\* Where a timed wait never eats a signal, the invariant is inductive: only
\* SetEvent makes the flag stand and it wakes somebody in the same section, a
\* waiter goes to sleep only while the flag is down, and the waiter that was
\* woken leaves that state only by taking the flag or by finding it down.
LEMMA WakeStep ==
  ~SignalMayBeEaten /\ TypeOK /\ NoSleepThroughSignal /\ [Next]_vars => NoSleepThroughSignal'
<1> SUFFICES ASSUME ~SignalMayBeEaten, TypeOK, NoSleepThroughSignal, [Next]_vars
             PROVE  NoSleepThroughSignal'
  OBVIOUS
<1> USE DEF TypeOK, NoSleepThroughSignal, Queued, Return, Accept, Wake
<1>1. CASE SetEvent
  BY <1>1 DEF SetEvent, Notify
<1>2. CASE ResetEvent
  BY <1>2 DEF ResetEvent
<1>3. ASSUME NEW w \in Waiters, WaitFor(w) PROVE NoSleepThroughSignal'
  BY <1>3 DEF WaitFor
<1>4. ASSUME NEW w \in Waiters, Recheck(w) PROVE NoSleepThroughSignal'
  <2>1. CASE Accept(w)
    <3>1. Queued' \subseteq Queued
      BY <2>1
    <3>2. signaled' => manual /\ signaled
      BY <2>1
    <3> QED
      BY <3>1, <3>2
  <2>2. CASE ~signaled /\ SleepAgain(w) /\ UNCHANGED <<signaled, manual, mode, result>>
    BY <2>2
  <2> QED
    BY <1>4, <2>1, <2>2 DEF Recheck
<1>5. ASSUME NEW w \in Waiters, Spurious(w) \/ Deadline(w) PROVE NoSleepThroughSignal'
  BY <1>5 DEF Spurious, Deadline
<1>6. ASSUME NEW w \in Waiters, Expire(w) PROVE NoSleepThroughSignal'
  BY <1>6 DEF Expire
<1>7. ASSUME NEW w \in Waiters, TimeOut(w) PROVE NoSleepThroughSignal'
  BY <1>7 DEF TimeOut
<1>8. CASE UNCHANGED vars
  BY <1>8 DEF vars
<1> QED
  BY <1>1, <1>2, <1>3, <1>4, <1>5, <1>6, <1>7, <1>8 DEF Next

\* With a condition variable whose timed waits do not consume signals, nobody
\* sleeps while the event stands unless a woken waiter is about to look at it.
THEOREM NoLostWakeUp == ASSUME ~SignalMayBeEaten PROVE Spec => []NoSleepThroughSignal
<1>1. Init => NoSleepThroughSignal
  BY DEF Init, NoSleepThroughSignal, Queued
<1>2. TypeOK /\ NoSleepThroughSignal /\ [Next]_vars => NoSleepThroughSignal'
  BY WakeStep
<1> QED
  BY <1>1, <1>2, TypeCorrect, PTL DEF Spec

-----------------------------------------------------------------------------
(* Refinement *)

\* A deadline has passed, or a sleep expired, only within a timed wait.
Expiring ==
  \A w \in Waiters :
    /\ due[w] => mode[w] = "timed" /\ pc[w] # "out"
    /\ pc[w] = "expired" => mode[w] = "timed"

\* Every step keeps deadlines to timed waits.
LEMMA ExpiringStep == TypeOK /\ Expiring /\ [Next]_vars => Expiring'
<1> SUFFICES ASSUME TypeOK, Expiring, [Next]_vars PROVE Expiring'
  OBVIOUS
<1> USE DEF TypeOK, Expiring, Return, Accept, Wake
<1>1. CASE SetEvent \/ ResetEvent
  BY <1>1 DEF SetEvent, ResetEvent, Notify, Queued
<1>2. ASSUME NEW w \in Waiters, WaitFor(w) PROVE Expiring'
  BY <1>2 DEF WaitFor
<1>3. ASSUME NEW w \in Waiters, Recheck(w) PROVE Expiring'
  BY <1>3 DEF Recheck, SleepAgain
<1>4. ASSUME NEW w \in Waiters, Spurious(w) \/ Deadline(w) \/ Expire(w) \/ TimeOut(w)
      PROVE  Expiring'
  BY <1>4 DEF Spurious, Deadline, Expire, TimeOut
<1>5. CASE UNCHANGED vars
  BY <1>5 DEF vars
<1> QED
  BY <1>1, <1>2, <1>3, <1>4, <1>5 DEF Next

\* A call that returns is out, with its result.
LEMMA ReturnSeen ==
  ASSUME TypeOK, NEW w \in Waiters, NEW r, Return(w, r)
  PROVE  InCall' = [InCall EXCEPT ![w] = "none"] /\ result' = [result EXCEPT ![w] = r]
BY DEF TypeOK, Return, InCall

\* A step within the wait of a waiter is not seen.
LEMMA WithinCall ==
  ASSUME TypeOK, mode' = mode, \A w \in Waiters : pc'[w] = "out" <=> pc[w] = "out"
  PROVE  InCall' = InCall
BY DEF TypeOK, InCall

\* Every step of TEvent is a step of the promised event or none at all.
LEMMA EventStep == TypeOK /\ Expiring /\ [Next]_vars => [Abstract!Next]_(Abstract!vars)
<1> SUFFICES ASSUME TypeOK, Expiring, [Next]_vars
             PROVE  Abstract!Next \/ UNCHANGED <<signaled, manual, InCall, result>>
  BY DEF Abstract!vars
<1>1. CASE SetEvent
  <2>1. InCall' = InCall
    BY <1>1, WithinCall DEF SetEvent, Notify, Wake, Queued, TypeOK
  <2> QED
    BY <1>1, <2>1 DEF SetEvent, Abstract!Next, Abstract!Set
<1>2. CASE ResetEvent
  <2>1. InCall' = InCall
    BY <1>2, WithinCall DEF ResetEvent
  <2> QED
    BY <1>2, <2>1 DEF ResetEvent, Abstract!Next, Abstract!Reset
<1>3. ASSUME NEW w \in Waiters, WaitFor(w) PROVE Abstract!Next
  <2>1. InCall[w] = "none"
    BY <1>3 DEF WaitFor, InCall
  <2>2. CASE Accept(w)
    BY <2>1, <2>2, ReturnSeen DEF Accept, Abstract!Next, Abstract!Pass, Abstract!Return
  <2>3. CASE ~signaled /\ Return(w, "timeout") /\ UNCHANGED <<signaled, manual>>
    BY <2>1, <2>3, ReturnSeen DEF Abstract!Next, Abstract!Fail, Abstract!Return
  <2>4. CASE /\ \E m \in {"forever", "timed"} : mode' = [mode EXCEPT ![w] = m]
             /\ pc' = [pc EXCEPT ![w] = "queued"]
             /\ UNCHANGED <<signaled, manual, due, result>>
    <3>1. PICK m \in {"forever", "timed"} : mode' = [mode EXCEPT ![w] = m]
      BY <2>4
    <3>2. InCall' = [InCall EXCEPT ![w] = m]
      BY <2>4, <3>1 DEF TypeOK, InCall
    <3> QED
      BY <2>1, <2>4, <3>2 DEF Abstract!Next, Abstract!Call
  <2> QED
    BY <1>3, <2>2, <2>3, <2>4 DEF WaitFor
<1>4. ASSUME NEW w \in Waiters, Recheck(w)
      PROVE  Abstract!Next \/ UNCHANGED <<signaled, manual, InCall, result>>
  <2>1. InCall[w] # "none"
    BY <1>4 DEF Recheck, InCall, TypeOK
  <2>2. CASE Accept(w)
    BY <2>1, <2>2, ReturnSeen DEF Accept, Abstract!Next, Abstract!Take, Abstract!Return
  <2>3. CASE SleepAgain(w) /\ UNCHANGED <<signaled, manual, mode, result>>
    <3>1. InCall' = InCall
      BY <1>4, <2>3, WithinCall DEF Recheck, SleepAgain, TypeOK
    <3> QED
      BY <2>3, <3>1
  <2> QED
    BY <1>4, <2>2, <2>3 DEF Recheck
<1>5. ASSUME NEW w \in Waiters, Spurious(w) \/ Deadline(w) \/ Expire(w)
      PROVE  UNCHANGED <<signaled, manual, InCall, result>>
  <2>1. InCall' = InCall
    BY <1>5, WithinCall DEF Spurious, Deadline, Expire, Wake, TypeOK
  <2> QED
    BY <1>5, <2>1 DEF Spurious, Deadline, Expire
<1>6. ASSUME NEW w \in Waiters, TimeOut(w) PROVE Abstract!Next
  <2>1. InCall[w] = "timed"
    BY <1>6 DEF TimeOut, InCall, Expiring
  <2> QED
    BY <1>6, <2>1, ReturnSeen DEF TimeOut, Abstract!Next, Abstract!TimeOut, Abstract!Return
<1>7. CASE UNCHANGED vars
  BY <1>7 DEF vars, InCall
<1> QED
  BY <1>1, <1>2, <1>3, <1>4, <1>5, <1>6, <1>7 DEF Next

\* TEvent implements the event of EventSpec for any number of waiters and any
\* condition variable POSIX allows: every signal of an auto-reset event is taken
\* by one waiter, and only a timed wait returns without one.
THEOREM EventIsEventSpec == Spec => Abstract!Spec
<1>1. Init => Abstract!Init /\ Expiring
  BY DEF Init, Abstract!Init, Expiring, InCall
<1> QED
  BY <1>1, TypeCorrect, ExpiringStep, EventStep, PTL DEF Spec, Abstract!Spec
=============================================================================
