---------------------------- MODULE FutureProofs ----------------------------
(***************************************************************************)
(* Proofs about TFuture for any number of threads and any assignment of    *)
(* operations to them.                                                     *)
(***************************************************************************)
EXTENDS Future, TLAPS

\* Where the callback of a thread can be: still with its owner, in FOnComplete,
\* in the hands of exactly one call, or run.  It is never in two places, which
\* is what makes "at most once" inductive.
CallbackPlace ==
  /\ \A c \in Threads : runs[c] \in {0, 1}
  /\ \A t \in Threads : cb[t] # None <=> pc[t] = "invoke"
  /\ \A t, u \in Threads : cb[t] # None /\ cb[t] = cb[u] => t = u
  /\ \A t \in Threads : cb[t] # None =>
       /\ runs[cb[t]] = 0
       /\ cb[t] # onComplete
       /\ pc[cb[t]] \notin {"idle", "register"}
  /\ \A c \in Threads : pc[c] \in {"idle", "register"} =>
       runs[c] = 0 /\ onComplete # c
  /\ onComplete # None => runs[onComplete] = 0

\* Nothing that leads to a callback is under way while the future is pending.
QuietWhilePending ==
  state = "Pending" =>
    \A t \in Threads : runs[t] = 0 /\ pc[t] \notin {"notify", "invoke"}

\* Which locations belong to which operation.
CallShape ==
  \A t \in Threads :
    /\ op[t] = "none" <=> pc[t] = "idle"
    /\ op[t] = "Cancel" => pc[t] = "done"
    /\ op[t] = "Complete" => pc[t] \in {"notify", "invoke", "done"}
    /\ res[t] = "raise" => pc[t] = "done"

USE DEF Operations, FutureStates, Locations, Results, core

-----------------------------------------------------------------------------
(* Type correctness *)

\* Every step keeps the types; one step per action of the future.
LEMMA TypeStep == TypeOK /\ [Next]_vars => TypeOK'
<1> SUFFICES ASSUME TypeOK, [Next]_vars PROVE TypeOK'
  OBVIOUS
<1> USE FutureAssumption DEF TypeOK, Begin, Goto, Return, Settle, Done
<1>1. ASSUME NEW t \in Threads, Complete(t) PROVE TypeOK'
  BY <1>1 DEF Complete
<1>2. ASSUME NEW t \in Threads, Fail(t) PROVE TypeOK'
  BY <1>2 DEF Fail
<1>3. ASSUME NEW t \in Threads, Cancel(t) PROVE TypeOK'
  BY <1>3 DEF Cancel
<1>a. ASSUME NEW t \in Threads, RegisterOrRun(t)
      PROVE  /\ onComplete' \in Threads \cup {None}
             /\ invoked' \in BOOLEAN
             /\ pc' \in [Threads -> Locations]
             /\ cb' \in [Threads -> Threads \cup {None}]
             /\ res' \in [Threads -> Results]
  <2>1. CASE /\ state = "Pending" /\ onComplete' = t
             /\ Return(t, "true") /\ UNCHANGED <<invoked, cb>>
    BY <2>1
  <2>2. CASE /\ Done /\ ~invoked /\ invoked' = TRUE
             /\ cb' = [cb EXCEPT ![t] = t]
             /\ Goto(t, "invoke") /\ UNCHANGED onComplete
    BY <2>2
  <2>3. CASE /\ Done /\ invoked /\ Return(t, "true")
             /\ UNCHANGED <<invoked, cb, onComplete>>
    BY <2>3
  <2> QED
    BY <1>a, <2>1, <2>2, <2>3 DEF RegisterOrRun
<1>4. ASSUME NEW t \in Threads, OnComplete(t) PROVE TypeOK'
  BY <1>4, <1>a DEF OnComplete
<1>5. ASSUME NEW t \in Threads, Map(t) PROVE TypeOK'
  BY <1>5, <1>a DEF Map
<1>6. ASSUME NEW t \in Threads, ContinueWith(t) PROVE TypeOK'
  BY <1>6 DEF ContinueWith
<1>7. ASSUME NEW t \in Threads, WaitFor(t) PROVE TypeOK'
  BY <1>7 DEF WaitFor
<1>8. ASSUME NEW t \in Threads, Notify(t) PROVE TypeOK'
  <2>1. CASE /\ invoked' = TRUE
             /\ cb' = [cb EXCEPT ![t] = onComplete]
             /\ onComplete' = None
             /\ Goto(t, "invoke")
    BY <1>8, <2>1 DEF Notify
  <2>2. CASE Return(t, "true") /\ UNCHANGED <<invoked, cb, onComplete>>
    BY <1>8, <2>2 DEF Notify
  <2> QED
    BY <1>8, <2>1, <2>2 DEF Notify
<1>9. ASSUME NEW t \in Threads, Invoke(t) PROVE TypeOK'
  <2>1. ASSUME NEW c \in Threads, NEW o \in {"true", "false", "raise"}
        PROVE  ChildAfter(c, o) \in {"none", "Pending", "Completed", "Failed"}
    BY DEF ChildAfter, Chaining
  <2>2. child' \in [Threads -> {"none", "Pending", "Completed", "Failed"}]
    <3>1. PICK o \in {"true", "false", "raise"} :
            child' = [child EXCEPT ![cb[t]] = ChildAfter(cb[t], o)]
      BY <1>9 DEF Invoke
    <3>2. CASE cb[t] = None
      BY <3>1, <3>2
    <3>3. CASE cb[t] \in Threads
      BY <2>1, <3>1, <3>3
    <3> QED
      BY <3>2, <3>3
  <2>3. runs' \in [Threads -> Nat]
    <3>1. runs' = [runs EXCEPT ![cb[t]] = runs[cb[t]] + 1]
      BY <1>9 DEF Invoke
    <3>2. CASE cb[t] = None
      BY <3>1, <3>2
    <3>3. CASE cb[t] \in Threads
      <4>1. runs[cb[t]] + 1 \in Nat
        BY <3>3
      <4> QED
        BY <3>1, <3>3, <4>1
    <3> QED
      BY <3>2, <3>3
  <2> QED
    BY <1>9, <2>2, <2>3 DEF Invoke
<1>10. ASSUME NEW t \in Threads, ContinueRegister(t) PROVE TypeOK'
  BY <1>10 DEF ContinueRegister
<1>11. ASSUME NEW t \in Threads, WaitSignaled(t) PROVE TypeOK'
  BY <1>11 DEF WaitSignaled
<1>12. ASSUME NEW t \in Threads, WaitTimeout(t) PROVE TypeOK'
  BY <1>12 DEF WaitTimeout
<1>13. ASSUME NEW t \in Threads, WaitRecheck(t) PROVE TypeOK'
  BY <1>13 DEF WaitRecheck
<1>14. CASE UNCHANGED vars
  BY <1>14 DEF vars
<1> QED
  BY <1>1, <1>2, <1>3, <1>4, <1>5, <1>6, <1>7, <1>8, <1>9, <1>10, <1>11,
     <1>12, <1>13, <1>14 DEF Next, Call, Step

\* Every reachable state of TFuture is well typed.
THEOREM TypeCorrect == Spec => []TypeOK
<1>1. Init => TypeOK
  <2> SUFFICES ASSUME Init PROVE TypeOK
    OBVIOUS
  <2> USE DEF Init
  <2>1. state \in FutureStates /\ signaled \in BOOLEAN /\ invoked \in BOOLEAN
    OBVIOUS
  <2>2. runs \in [Threads -> Nat]
    OBVIOUS
  <2>3. onComplete \in Threads \cup {None} /\ cb \in [Threads -> Threads \cup {None}]
    OBVIOUS
  <2>4. /\ op \in [Threads -> Operations \cup {"none"}]
        /\ pc \in [Threads -> Locations]
        /\ res \in [Threads -> Results]
        /\ child \in [Threads -> {"none", "Pending", "Completed", "Failed"}]
    OBVIOUS
  <2> QED
    BY <2>1, <2>2, <2>3, <2>4 DEF TypeOK
<1> QED
  BY <1>1, TypeStep, PTL DEF Spec

-----------------------------------------------------------------------------
(* The state and its event *)

\* Waiters and state agree: the event is set exactly when the future is done.
EventIffDone == signaled <=> Done

\* SetCompleted, SetCancelled and SetFailed change both in one critical section.
LEMMA EventAgrees == Spec => []EventIffDone
<1>1. Init => EventIffDone
  BY DEF Init, EventIffDone, Done
<1>2. TypeOK /\ EventIffDone /\ [Next]_vars => EventIffDone'
  <2> SUFFICES ASSUME TypeOK, EventIffDone, [Next]_vars PROVE EventIffDone'
    OBVIOUS
  <2> USE DEF EventIffDone, Done, Settle
  <2>1. CASE UNCHANGED core
    BY <2>1
  <2>2. ASSUME NEW t \in Threads, Complete(t) PROVE EventIffDone'
    BY <2>2, <2>1 DEF Complete
  <2>3. ASSUME NEW t \in Threads, Fail(t) PROVE EventIffDone'
    BY <2>3, <2>1 DEF Fail
  <2>4. ASSUME NEW t \in Threads, Cancel(t) PROVE EventIffDone'
    BY <2>4, <2>1 DEF Cancel
  <2>5. ASSUME NEW t \in Threads,
               OnComplete(t) \/ Map(t) \/ ContinueWith(t) \/ WaitFor(t) \/ Step(t)
        PROVE  UNCHANGED core
    BY <2>5 DEF OnComplete, Map, ContinueWith, WaitFor, Step, Notify, Invoke,
                ContinueRegister, WaitSignaled, WaitTimeout, WaitRecheck
  <2> QED
    BY <2>1, <2>2, <2>3, <2>4, <2>5 DEF Next, Call, vars
<1> QED
  BY <1>1, <1>2, TypeCorrect, PTL DEF Spec

\* A settled future keeps its state and its event through every operation.
THEOREM SettledStays == Spec => SettledForever
<1>1. TypeOK /\ [Next]_vars => [Done => UNCHANGED core]_vars
  <2> SUFFICES ASSUME TypeOK, Next, Done PROVE UNCHANGED core
    OBVIOUS
  <2> USE DEF Done
  <2>1. PICK t \in Threads : Call(t) \/ Step(t)
    BY DEF Next
  <2>2. CASE Complete(t) \/ Fail(t) \/ Cancel(t)
    BY <2>2 DEF Complete, Fail, Cancel
  <2>3. CASE OnComplete(t) \/ Map(t) \/ ContinueWith(t) \/ WaitFor(t) \/ Step(t)
    BY <2>3 DEF OnComplete, Map, ContinueWith, WaitFor, Step, Notify, Invoke,
                ContinueRegister, WaitSignaled, WaitTimeout, WaitRecheck
  <2> QED
    BY <2>1, <2>2, <2>3 DEF Call
<1> QED
  BY <1>1, TypeCorrect, PTL DEF Spec, SettledForever

-----------------------------------------------------------------------------
(* Callbacks *)

\* No step moves a callback into a second place.
LEMMA PlaceStep == TypeOK /\ CallbackPlace /\ [Next]_vars => CallbackPlace'
<1> SUFFICES ASSUME TypeOK, CallbackPlace, [Next]_vars PROVE CallbackPlace'
  OBVIOUS
<1> USE FutureAssumption DEF TypeOK, Begin, Goto, Return
<1>1. ASSUME NEW t \in Threads, Complete(t) PROVE CallbackPlace'
  BY <1>1 DEF Complete, CallbackPlace
<1>2. ASSUME NEW t \in Threads, Fail(t) PROVE CallbackPlace'
  BY <1>2 DEF Fail, CallbackPlace
<1>3. ASSUME NEW t \in Threads, Cancel(t) PROVE CallbackPlace'
  BY <1>3 DEF Cancel, CallbackPlace
<1>4. ASSUME NEW t \in Threads, pc[t] = "idle", RegisterOrRun(t), UNCHANGED runs
      PROVE  CallbackPlace'
  <2>1. CASE onComplete' = t /\ Return(t, "true") /\ UNCHANGED cb
    BY <1>4, <2>1 DEF CallbackPlace
  <2>2. CASE cb' = [cb EXCEPT ![t] = t] /\ Goto(t, "invoke") /\ UNCHANGED onComplete
    BY <1>4, <2>2 DEF CallbackPlace
  <2>3. CASE Return(t, "true") /\ UNCHANGED <<cb, onComplete>>
    BY <1>4, <2>3 DEF CallbackPlace
  <2> QED
    BY <1>4, <2>1, <2>2, <2>3 DEF RegisterOrRun
<1>5. ASSUME NEW t \in Threads, OnComplete(t) \/ Map(t) PROVE CallbackPlace'
  BY <1>4, <1>5 DEF OnComplete, Map
<1>6. ASSUME NEW t \in Threads, ContinueWith(t) PROVE CallbackPlace'
  BY <1>6 DEF ContinueWith, CallbackPlace
<1>7. ASSUME NEW t \in Threads, WaitFor(t) PROVE CallbackPlace'
  BY <1>7 DEF WaitFor, CallbackPlace
<1>8. ASSUME NEW t \in Threads, Notify(t) PROVE CallbackPlace'
  <2>1. CASE /\ onComplete # None
             /\ cb' = [cb EXCEPT ![t] = onComplete]
             /\ onComplete' = None
             /\ Goto(t, "invoke")
    BY <1>8, <2>1 DEF Notify, CallbackPlace
  <2>2. CASE Return(t, "true") /\ UNCHANGED <<cb, onComplete>>
    BY <1>8, <2>2 DEF Notify, CallbackPlace
  <2> QED
    BY <1>8, <2>1, <2>2 DEF Notify
<1>9. ASSUME NEW t \in Threads, Invoke(t) PROVE CallbackPlace'
  <2>1. cb[t] \in Threads /\ runs[cb[t]] = 0
    BY <1>9 DEF Invoke, CallbackPlace
  <2>2. runs' = [runs EXCEPT ![cb[t]] = 1]
    BY <1>9, <2>1 DEF Invoke
  <2>3. /\ cb' = [cb EXCEPT ![t] = None]
        /\ pc' = [pc EXCEPT ![t] = "done"]
        /\ onComplete' = onComplete
        /\ pc[t] = "invoke"
    BY <1>9 DEF Invoke
  <2> QED
    BY <2>1, <2>2, <2>3 DEF CallbackPlace
<1>10. ASSUME NEW t \in Threads, ContinueRegister(t) PROVE CallbackPlace'
  BY <1>10 DEF ContinueRegister, CallbackPlace
<1>11. ASSUME NEW t \in Threads, WaitSignaled(t) \/ WaitTimeout(t) \/ WaitRecheck(t)
       PROVE  CallbackPlace'
  BY <1>11 DEF WaitSignaled, WaitTimeout, WaitRecheck, CallbackPlace
<1>12. CASE UNCHANGED vars
  BY <1>12 DEF vars, CallbackPlace
<1> QED
  BY <1>1, <1>2, <1>3, <1>5, <1>6, <1>7, <1>8, <1>9, <1>10, <1>11, <1>12
  DEF Next, Call, Step

\* However many threads race Complete, Fail, OnComplete, Map and ContinueWith,
\* each registered callback runs at most once.
THEOREM AtMostOnce == Spec => []CallbackAtMostOnce
<1>1. Init => CallbackPlace
  BY FutureAssumption DEF Init, CallbackPlace
<1>2. TypeOK /\ CallbackPlace => CallbackAtMostOnce
  BY DEF TypeOK, CallbackPlace, CallbackAtMostOnce
<1> QED
  BY <1>1, <1>2, PlaceStep, TypeCorrect, PTL DEF Spec

\* While the future is pending no call has started to notify.
LEMMA QuietStep ==
  TypeOK /\ CallbackPlace /\ QuietWhilePending /\ [Next]_vars => QuietWhilePending'
<1> SUFFICES ASSUME TypeOK, CallbackPlace, QuietWhilePending, [Next]_vars,
                    state' = "Pending"
             PROVE  \A t \in Threads : runs'[t] = 0 /\ pc'[t] \notin {"notify", "invoke"}
  BY DEF QuietWhilePending
<1> USE DEF TypeOK, Begin, Goto, Return, Settle, Done
<1>1. state = "Pending"
  <2>1. CASE UNCHANGED state
    BY <2>1
  <2>2. ASSUME NEW t \in Threads, Complete(t) \/ Fail(t) \/ Cancel(t)
        PROVE  state = "Pending"
    BY <2>2 DEF Complete, Fail, Cancel
  <2>3. ASSUME NEW t \in Threads,
               OnComplete(t) \/ Map(t) \/ ContinueWith(t) \/ WaitFor(t) \/ Step(t)
        PROVE  UNCHANGED state
    BY <2>3 DEF OnComplete, Map, ContinueWith, WaitFor, Step, Notify, Invoke,
                ContinueRegister, WaitSignaled, WaitTimeout, WaitRecheck
  <2> QED
    BY <2>1, <2>2, <2>3 DEF Next, Call, vars
<1>2. \A t \in Threads : runs[t] = 0 /\ pc[t] \notin {"notify", "invoke"}
  BY <1>1 DEF QuietWhilePending
<1>3. CASE UNCHANGED vars
  BY <1>2, <1>3 DEF vars
<1>4. ASSUME NEW t \in Threads, Call(t)
      PROVE  UNCHANGED runs /\ \E l \in {"register", "wait", "done"} :
               pc' = [pc EXCEPT ![t] = l]
  BY <1>1, <1>4 DEF Call, Complete, Fail, Cancel, OnComplete, Map, RegisterOrRun,
                    ContinueWith, WaitFor
<1>5. ASSUME NEW t \in Threads, Step(t)
      PROVE  UNCHANGED runs /\ \E l \in {"recheck", "done"} :
               pc' = [pc EXCEPT ![t] = l]
  BY <1>2, <1>5 DEF Step, Notify, Invoke, ContinueRegister, WaitSignaled,
                    WaitTimeout, WaitRecheck
<1> QED
  BY <1>2, <1>3, <1>4, <1>5 DEF Next

\* No callback runs, and no call is about to run one, before the future is done.
THEOREM NotBeforeDone == Spec => []CallbackAfterDone
<1>1. Init => CallbackPlace /\ QuietWhilePending
  BY FutureAssumption DEF Init, CallbackPlace, QuietWhilePending
<1>2. TypeOK /\ CallbackPlace /\ QuietWhilePending => CallbackAfterDone
  BY DEF TypeOK, CallbackPlace, QuietWhilePending, CallbackAfterDone
<1> QED
  BY <1>1, <1>2, PlaceStep, QuietStep, TypeCorrect, PTL DEF Spec

-----------------------------------------------------------------------------
(* What callers are told *)

\* No step moves a call to a place its operation does not have.
LEMMA ShapeStep == TypeOK /\ CallShape /\ [Next]_vars => CallShape'
<1> SUFFICES ASSUME TypeOK, CallShape, [Next]_vars PROVE CallShape'
  OBVIOUS
<1> USE FutureAssumption DEF TypeOK, Begin, Goto, Return, CallShape
<1>1. ASSUME NEW t \in Threads, Complete(t) \/ Fail(t) \/ Cancel(t) PROVE CallShape'
  BY <1>1 DEF Complete, Fail, Cancel
<1>2. ASSUME NEW t \in Threads, OnComplete(t) \/ Map(t) PROVE CallShape'
  BY <1>2 DEF OnComplete, Map, RegisterOrRun
<1>3. ASSUME NEW t \in Threads, ContinueWith(t) \/ WaitFor(t) PROVE CallShape'
  BY <1>3 DEF ContinueWith, WaitFor
<1>4. ASSUME NEW t \in Threads, Notify(t) \/ Invoke(t) PROVE CallShape'
  BY <1>4 DEF Notify, Invoke
<1>5. ASSUME NEW t \in Threads, ContinueRegister(t) PROVE CallShape'
  BY <1>5 DEF ContinueRegister
<1>6. ASSUME NEW t \in Threads, WaitSignaled(t) \/ WaitTimeout(t) \/ WaitRecheck(t)
      PROVE  CallShape'
  BY <1>6 DEF WaitSignaled, WaitTimeout, WaitRecheck
<1>7. CASE UNCHANGED vars
  BY <1>7 DEF vars
<1> QED
  BY <1>1, <1>2, <1>3, <1>4, <1>5, <1>6, <1>7 DEF Next, Call, Step

\* No step makes two calls believe that they settled the future.
LEMMA OutcomeStep ==
  TypeOK /\ CallShape /\ OutcomeAgrees /\ [Next]_vars => OutcomeAgrees'
<1> SUFFICES ASSUME TypeOK, CallShape, OutcomeAgrees, [Next]_vars
             PROVE  OutcomeAgrees'
  OBVIOUS
<1> USE FutureAssumption DEF TypeOK, Begin, Goto, Return, Settle, Settled
\* A step that leaves the state alone and makes nobody Settled is harmless.
<1>a. ASSUME UNCHANGED state, \A u \in Threads : Settled(u)' => Settled(u) /\ op'[u] = op[u]
      PROVE  OutcomeAgrees'
  BY <1>a DEF OutcomeAgrees
\* While the future is pending nobody has been told that it settled it.
<1>b. ASSUME state = "Pending", NEW u \in Threads PROVE ~Settled(u)
  BY <1>b DEF OutcomeAgrees
<1>1. ASSUME NEW t \in Threads, Complete(t) PROVE OutcomeAgrees'
  <2>1. CASE state = "Pending" /\ Settle("Completed") /\ Goto(t, "notify")
    <3>1. \A u \in Threads : u # t => ~Settled(u)'
      BY <1>1, <2>1, <1>b DEF Complete
    <3>2. op'[t] = "Complete" /\ state' = "Completed"
      BY <1>1, <2>1 DEF Complete
    <3> QED
      BY <3>1, <3>2 DEF OutcomeAgrees
  <2>2. CASE Return(t, "raise") /\ UNCHANGED core
    BY <1>1, <2>2, <1>a DEF Complete, CallShape
  <2> QED
    BY <1>1, <2>1, <2>2 DEF Complete
<1>2. ASSUME NEW t \in Threads, Fail(t) PROVE OutcomeAgrees'
  <2>1. ~Settled(t)'
    BY <1>2 DEF Fail
  <2>2. \A u \in Threads : Settled(u)' => Settled(u) /\ op'[u] = op[u]
    BY <1>2, <2>1 DEF Fail
  <2>3. CASE state = "Pending"
    BY <1>b, <2>2, <2>3 DEF OutcomeAgrees
  <2>4. CASE UNCHANGED state
    BY <1>a, <2>2, <2>4
  <2> QED
    BY <1>2, <2>3, <2>4 DEF Fail
<1>3. ASSUME NEW t \in Threads, Cancel(t) PROVE OutcomeAgrees'
  <2>1. CASE state = "Pending" /\ Settle("Cancelled") /\ Return(t, "true")
    <3>1. \A u \in Threads : u # t => ~Settled(u)'
      BY <1>3, <2>1, <1>b DEF Cancel
    <3>2. op'[t] = "Cancel" /\ state' = "Cancelled"
      BY <1>3, <2>1 DEF Cancel
    <3> QED
      BY <3>1, <3>2 DEF OutcomeAgrees
  <2>2. CASE (Return(t, "raise") \/ Return(t, "false")) /\ UNCHANGED core
    BY <1>3, <2>2, <1>a DEF Cancel, CallShape
  <2> QED
    BY <1>3, <2>1, <2>2 DEF Cancel
<1>4. ASSUME NEW t \in Threads, OnComplete(t) \/ Map(t) PROVE OutcomeAgrees'
  BY <1>4, <1>a DEF OnComplete, Map, RegisterOrRun
<1>5. ASSUME NEW t \in Threads, ContinueWith(t) \/ WaitFor(t) PROVE OutcomeAgrees'
  BY <1>5, <1>a DEF ContinueWith, WaitFor
<1>6. ASSUME NEW t \in Threads, Step(t) PROVE OutcomeAgrees'
  <2>1. UNCHANGED <<state, op>>
    BY <1>6 DEF Step, Notify, Invoke, ContinueRegister, WaitSignaled,
                WaitTimeout, WaitRecheck
  <2>2. pc[t] \notin {"idle", "done"}
    BY <1>6 DEF Step, Notify, Invoke, ContinueRegister, WaitSignaled,
                WaitTimeout, WaitRecheck
  <2>3. op[t] # "Cancel" /\ res[t] # "raise"
    BY <2>2 DEF CallShape
  <2>4. \A u \in Threads : u # t => pc'[u] = pc[u] /\ res'[u] = res[u]
    BY <1>6 DEF Step, Notify, Invoke, ContinueRegister, WaitSignaled,
                WaitTimeout, WaitRecheck
  <2> QED
    BY <2>1, <2>2, <2>3, <2>4, <1>a
<1>7. CASE UNCHANGED vars
  BY <1>7, <1>a DEF vars
<1> QED
  BY <1>1, <1>2, <1>3, <1>4, <1>5, <1>6, <1>7 DEF Next, Call

\* At most one of the racing Complete and Cancel calls is told that it settled
\* the future, and the future is in the state that call was told.
THEOREM OutcomeIsTold == Spec => []OutcomeAgrees
<1>1. Init => CallShape /\ OutcomeAgrees
  BY DEF Init, CallShape, OutcomeAgrees, Settled
<1> QED
  BY <1>1, ShapeStep, OutcomeStep, TypeCorrect, PTL DEF Spec

-----------------------------------------------------------------------------
(* Refinement *)

\* Which calls wait, and what their results can be: the part of CallShape and of
\* TypeOK the refinement rests on.
WaitShape ==
  \A t \in Threads :
    /\ pc[t] = "idle" => op[t] = "none"
    /\ pc[t] \in {"wait", "recheck"} => op[t] \in Waits
    /\ pc[t] # "done" => res[t] = "none"
    /\ op[t] \in Waits => pc[t] \in {"wait", "recheck", "done"}

\* Every step keeps it; one step per group of actions that treat waits alike.
LEMMA WaitShapeStep == TypeOK /\ WaitShape /\ [Next]_vars => WaitShape'
<1> SUFFICES ASSUME TypeOK, WaitShape, [Next]_vars PROVE WaitShape'
  OBVIOUS
<1> USE DEF TypeOK, WaitShape, Waits, Begin, Goto, Return
<1>1. ASSUME NEW t \in Threads, Complete(t) \/ Fail(t) \/ Cancel(t) PROVE WaitShape'
  BY <1>1 DEF Complete, Fail, Cancel
<1>2. ASSUME NEW t \in Threads, OnComplete(t) \/ Map(t) PROVE WaitShape'
  BY <1>2 DEF OnComplete, Map, RegisterOrRun
<1>3. ASSUME NEW t \in Threads, ContinueWith(t) PROVE WaitShape'
  BY <1>3 DEF ContinueWith
<1>4. ASSUME NEW t \in Threads, WaitFor(t) PROVE WaitShape'
  BY <1>4 DEF WaitFor
<1>5. ASSUME NEW t \in Threads, Step(t) PROVE WaitShape'
  BY <1>5 DEF Step, Notify, Invoke, ContinueRegister, WaitSignaled, WaitTimeout, WaitRecheck
<1>6. CASE UNCHANGED vars
  BY <1>6 DEF vars
<1> QED
  BY <1>1, <1>2, <1>3, <1>4, <1>5, <1>6 DEF Next, Call

\* A step of a call that is no wait is not seen by the promise.
LEMMA OtherCall ==
  ASSUME TypeOK, WaitShape, NEW t \in Threads,
         \/ \E o \in Operations \ Waits : pc[t] = "idle" /\ op' = [op EXCEPT ![t] = o]
         \/ pc[t] \in {"notify", "invoke", "register"} /\ op' = op,
         \E l \in Locations \ {"wait", "recheck"} : pc' = [pc EXCEPT ![t] = l],
         res' = res \/ \E r \in Results : res' = [res EXCEPT ![t] = r]
  PROVE  UNCHANGED <<InWait, Answer>>
<1> USE DEF TypeOK, WaitShape
<1>1. \A u \in Threads : pc'[u] \in {"wait", "recheck"} <=> pc[u] \in {"wait", "recheck"}
  OBVIOUS
<1>2. op[t] \notin Waits /\ op'[t] \notin Waits
  BY DEF Waits
<1>3. \A u \in Threads : (IF op'[u] \in Waits THEN res'[u] ELSE "none")
                          = (IF op[u] \in Waits THEN res[u] ELSE "none")
  BY <1>2
<1> QED
  BY <1>1, <1>3 DEF InWait, Answer

\* Every step of the future is a step of the promise or none at all.
LEMMA PromiseStep ==
  TypeOK /\ EventIffDone /\ WaitShape /\ [Next]_vars => [P!Next]_(P!vars)
<1> SUFFICES ASSUME TypeOK, EventIffDone, WaitShape, [Next]_vars
             PROVE  P!Next \/ UNCHANGED <<state, InWait, Answer>>
  BY DEF P!vars
<1> USE DEF TypeOK, Begin, Goto, Return, Done
\* Settling is seen, the rest of Complete, Fail and Cancel is not.
<1>1. ASSUME NEW t \in Threads, Complete(t) \/ Fail(t) \/ Cancel(t)
      PROVE  P!Next \/ UNCHANGED <<state, InWait, Answer>>
  <2>1. UNCHANGED <<InWait, Answer>>
    <3>1. \E o \in Operations \ Waits : pc[t] = "idle" /\ op' = [op EXCEPT ![t] = o]
      BY <1>1 DEF Complete, Fail, Cancel, Waits
    <3>2. \E l \in Locations \ {"wait", "recheck"} : pc' = [pc EXCEPT ![t] = l]
      BY <1>1 DEF Complete, Fail, Cancel
    <3>3. res' = res \/ \E r \in Results : res' = [res EXCEPT ![t] = r]
      BY <1>1 DEF Complete, Fail, Cancel
    <3> QED
      BY <3>1, <3>2, <3>3, OtherCall
  <2>2. \/ state' = state
        \/ state = "Pending" /\ state' \in {"Completed", "Cancelled", "Failed"}
    BY <1>1 DEF Complete, Fail, Cancel, Settle
  <2> QED
    BY <2>1, <2>2 DEF P!Next, P!Settle
<1>2. ASSUME NEW t \in Threads, OnComplete(t) \/ Map(t) \/ ContinueWith(t)
      PROVE  UNCHANGED <<state, InWait, Answer>>
  <2>1. \E o \in Operations \ Waits : pc[t] = "idle" /\ op' = [op EXCEPT ![t] = o]
    BY <1>2 DEF OnComplete, Map, ContinueWith, Waits
  <2>2. \E l \in Locations \ {"wait", "recheck"} : pc' = [pc EXCEPT ![t] = l]
    BY <1>2 DEF OnComplete, Map, ContinueWith, RegisterOrRun
  <2>3. res' = res \/ \E r \in Results : res' = [res EXCEPT ![t] = r]
    BY <1>2 DEF OnComplete, Map, ContinueWith, RegisterOrRun
  <2>4. state' = state
    BY <1>2 DEF OnComplete, Map, ContinueWith
  <2> QED
    BY <2>1, <2>2, <2>3, <2>4, OtherCall
<1>3. ASSUME NEW t \in Threads, Notify(t) \/ Invoke(t) \/ ContinueRegister(t)
      PROVE  UNCHANGED <<state, InWait, Answer>>
  <2>1. pc[t] \in {"notify", "invoke", "register"} /\ op' = op /\ state' = state
    BY <1>3 DEF Notify, Invoke, ContinueRegister
  <2>2. \E l \in Locations \ {"wait", "recheck"} : pc' = [pc EXCEPT ![t] = l]
    BY <1>3 DEF Notify, Invoke, ContinueRegister
  <2>3. res' = res \/ \E r \in Results : res' = [res EXCEPT ![t] = r]
    BY <1>3 DEF Notify, Invoke, ContinueRegister
  <2> QED
    BY <2>1, <2>2, <2>3, OtherCall
\* A wait passes or blocks by the state it finds.
<1>4. ASSUME NEW t \in Threads, WaitFor(t) PROVE P!Next
  <2>1. t \notin InWait /\ Answer[t] = "none" /\ state' = state
    BY <1>4 DEF WaitFor, InWait, Answer, WaitShape, Waits
  <2>2. CASE Done /\ Return(t, "true")
    <3>1. InWait' = InWait
      BY <1>4, <2>2 DEF WaitFor, InWait
    <3>2. Answer' = [Answer EXCEPT ![t] = "true"]
      BY <1>4, <2>2 DEF WaitFor, Answer, Waits
    <3> QED
      BY <2>1, <2>2, <3>1, <3>2 DEF P!Next, P!Pass
  <2>3. CASE ~Done /\ Goto(t, "wait")
    <3>1. InWait' = InWait \cup {t}
      BY <1>4, <2>3 DEF WaitFor, InWait
    <3>2. Answer' = Answer
      BY <1>4, <2>3 DEF WaitFor, Answer, Waits, WaitShape
    <3> QED
      BY <2>1, <2>3, <3>1, <3>2 DEF P!Next, P!Block
  <2> QED
    BY <1>4, <2>2, <2>3 DEF WaitFor
\* The event and the state agree, so a signaled wait finds the future settled.
<1>5. ASSUME NEW t \in Threads, WaitSignaled(t) \/ WaitRecheck(t) PROVE P!Next
  <2>1. t \in InWait /\ op[t] \in Waits /\ op' = op /\ state' = state
    BY <1>5 DEF WaitSignaled, WaitRecheck, InWait, WaitShape
  <2>2. CASE Done /\ Return(t, "true")
    <3>1. InWait' = InWait \ {t}
      BY <2>1, <2>2 DEF InWait
    <3>2. Answer' = [Answer EXCEPT ![t] = "true"]
      BY <2>1, <2>2 DEF Answer
    <3> QED
      BY <2>1, <2>2, <3>1, <3>2 DEF P!Next, P!Release
  <2>3. CASE ~Done /\ Return(t, "false")
    <3>1. InWait' = InWait \ {t}
      BY <2>1, <2>3 DEF InWait
    <3>2. Answer' = [Answer EXCEPT ![t] = "false"]
      BY <2>1, <2>3 DEF Answer
    <3> QED
      BY <2>1, <2>3, <3>1, <3>2 DEF P!Next, P!GiveUp
  <2> QED
    BY <1>5, <2>2, <2>3 DEF WaitSignaled, WaitRecheck, EventIffDone
<1>6. ASSUME NEW t \in Threads, WaitTimeout(t) PROVE UNCHANGED <<state, InWait, Answer>>
  <2>1. InWait' = InWait
    BY <1>6 DEF WaitTimeout, InWait
  <2> QED
    BY <1>6, <2>1 DEF WaitTimeout, Answer
<1>7. CASE UNCHANGED vars
  BY <1>7 DEF vars, InWait, Answer
<1> QED
  BY <1>1, <1>2, <1>3, <1>4, <1>5, <1>6, <1>7 DEF Next, Call, Step

\* TFuture implements the one-shot cell of Promise, for any number of threads:
\* it is settled once, no wait returns True before that, and none returns False
\* after it.
THEOREM FutureIsPromise == Spec => P!Spec
<1>1. Init => P!Init
  BY DEF Init, P!Init, InWait, Answer, Waits
<1>2. Init => WaitShape
  BY DEF Init, WaitShape, Waits
<1> QED
  BY <1>1, <1>2, TypeCorrect, EventAgrees, WaitShapeStep, PromiseStep, PTL DEF Spec, P!Spec
=============================================================================
