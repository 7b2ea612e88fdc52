------------------------ MODULE TaskSchedulerProofs ------------------------
(***************************************************************************)
(* Proofs about TTaskScheduler for any tasks, delays and tokens, however   *)
(* slow the pool is: the closures share the variables of TimerLoop, and    *)
(* nothing is assumed about when they run.                                 *)
(***************************************************************************)
EXTENDS TaskScheduler, FiniteSetTheorems, TLAPS

States == {"none", "pending", "completed", "failed", "cancelled"}

\* The item TimerLoop works on is its own: it left the heap.
InHand ==
  /\ loop \in {"load", "future", "token", "submit"} => item \in Tasks
  /\ loop \notin {"load", "future", "token", "submit"} => item = None
  /\ item \notin heap

\* What is in the heap, in hand or loaded was scheduled.
KnownTasks ==
  /\ \A t \in heap : future[t] # "none"
  /\ item \in Tasks => future[item] # "none"
  /\ code \in Tasks => future[code] # "none"
  /\ owner \in Tasks => future[owner] # "none"

\* A closure exists only once an item was loaded.
ClosureLoaded ==
  /\ loop \in {"token", "submit"} => owner \in Tasks
  /\ loop \in {"future", "token", "submit"} => code = item
  /\ pool # <<>> \/ worker # Idle => code \in Tasks /\ owner \in Tasks
  /\ worker = Idle <=> worker.at = "none"

Counted ==
  /\ IsFiniteSet(heap)
  /\ scheduled = executed + cancelled + active
  /\ active = Cardinality(heap) + (IF item = None THEN 0 ELSE 1)

SInv == TypeOK /\ InHand /\ KnownTasks /\ ClosureLoaded /\ Counted

USE DEF metrics, exec, control, ending, history, calls

-----------------------------------------------------------------------------
(* Counting *)

\* Entries that leave the heap uncounted by hand: each is counted once.
LEMMA PurgeCounts ==
  ASSUME SInv, NEW P \in SUBSET heap, Purge(P), item = None,
         UNCHANGED <<scheduled, executed>>
  PROVE  /\ IsFiniteSet(heap \ P) /\ Cardinality(heap \ P) \in Nat
         /\ cancelled' \in Nat /\ active' = Cardinality(heap \ P)
         /\ scheduled' = executed' + cancelled' + active'
<1>1. /\ IsFiniteSet(P) /\ IsFiniteSet(heap \ P)
      /\ Cardinality(P) \in Nat /\ Cardinality(heap) \in Nat /\ Cardinality(heap \ P) \in Nat
  BY FS_Subset, FS_CardinalityType DEF SInv, Counted
<1>2. Cardinality(heap \ P) = Cardinality(heap) - Cardinality(P)
  <2>1. heap \ (heap \ P) = P /\ heap \cap P = P
    OBVIOUS
  <2>2. Cardinality(heap \ P) = Cardinality(heap) - Cardinality(heap \cap P)
    BY FS_Difference DEF SInv, Counted
  <2> QED
    BY <2>1, <2>2
<1>3. scheduled \in Nat /\ executed \in Nat /\ cancelled \in Nat /\ active \in Nat
  BY DEF SInv, TypeOK
<1>4. scheduled = executed + cancelled + active
  BY DEF SInv, Counted
<1>5. active = Cardinality(heap)
  <2>1. active = Cardinality(heap) + 0
    BY DEF SInv, Counted
  <2> QED
    BY <2>1, <1>1
<1>6. cancelled' = cancelled + Cardinality(P) /\ active' = LessActive(Cardinality(P))
  BY DEF Purge
<1>7. active' = Cardinality(heap \ P)
  BY <1>1, <1>2, <1>5, <1>6 DEF LessActive
<1>8. cancelled' \in Nat /\ scheduled' = executed' + cancelled' + active'
  BY <1>1, <1>2, <1>3, <1>4, <1>5, <1>6, <1>7
<1> QED
  BY <1>1, <1>7, <1>8

\* The item in hand leaves it: one active task less.
LEMMA HandCounts ==
  ASSUME SInv, item \in Tasks
  PROVE  /\ LessActive(1) = Cardinality(heap) /\ Cardinality(heap) \in Nat
         /\ scheduled = executed + cancelled + 1 + LessActive(1)
<1>1. Cardinality(heap) \in Nat
  BY FS_CardinalityType DEF SInv, Counted
<1>2. scheduled \in Nat /\ executed \in Nat /\ cancelled \in Nat /\ active \in Nat
  BY DEF SInv, TypeOK
<1>3. item # None
  BY SchedulerAssumption
<1>4. scheduled = executed + cancelled + active /\ active = Cardinality(heap) + 1
  BY <1>3 DEF SInv, Counted
<1>5. LessActive(1) = Cardinality(heap)
  BY <1>1, <1>4 DEF LessActive
<1> QED
  BY <1>1, <1>2, <1>4, <1>5

-----------------------------------------------------------------------------
(* The closures in the pool *)

\* A closure that is submitted joins those that wait.
LEMMA RangeAppend ==
  ASSUME NEW S, NEW q \in Seq(S), NEW e \in S
  PROVE  Range(Append(q, e)) = Range(q) \cup {e}
<1>1. /\ DOMAIN q = 1 .. Len(q) /\ DOMAIN Append(q, e) = 1 .. Len(q) + 1
      /\ Len(q) \in Nat /\ Append(q, e)[Len(q) + 1] = e
      /\ \A i \in 1 .. Len(q) : Append(q, e)[i] = q[i]
  OBVIOUS
<1>2. 1 .. Len(q) + 1 = (1 .. Len(q)) \cup {Len(q) + 1}
  BY <1>1
<1> QED
  BY <1>1, <1>2, Zenon DEF Range

\* The worker takes one of the closures that wait.
LEMMA RangeTail ==
  ASSUME NEW S, NEW q \in Seq(S), q # <<>>
  PROVE  Range(Tail(q)) \subseteq Range(q) /\ Head(q) \in Range(q)
BY DEF Range

\* Closures are named after tasks.
LEMMA AliveTasks == ASSUME TypeOK PROVE Alive \subseteq Tasks
BY DEF TypeOK, Alive, Range, Running

-----------------------------------------------------------------------------
(* SInv is inductive *)

\* The parts that do not count.
Placed == InHand /\ KnownTasks /\ ClosureLoaded

\* Every step of TTaskScheduler keeps the types.
LEMMA TypeStep == SInv /\ Next => TypeOK'
<1> SUFFICES ASSUME SInv, Next PROVE TypeOK'
  OBVIOUS
<1> USE SchedulerAssumption DEF SInv, TypeOK, States
<1>1. CASE Tick
  BY <1>1 DEF Tick
<1>2. CASE Exit
  BY <1>2 DEF Exit
<1>3. CASE RoundIdle
  <2>1. PICK P \in SUBSET Cancelled : Purge(P) /\ heap' = heap \ P
    BY <1>3 DEF RoundIdle
  <2>2. P \in SUBSET heap /\ item = None
    BY <1>3 DEF Cancelled, InHand, RoundIdle
  <2>3. cancelled' \in Nat /\ active' \in Nat
    <3> HIDE DEF SInv, TypeOK
    <3>1. UNCHANGED <<scheduled, executed>>
      BY <1>3 DEF RoundIdle
    <3> QED
      BY <2>1, <2>2, <3>1, PurgeCounts
  <2> QED
    BY <1>3, <2>1, <2>3 DEF RoundIdle
<1>4. ASSUME NEW t \in Tasks, RoundTake(t) PROVE TypeOK'
  <2>1. PICK P \in SUBSET Cancelled : Purge(P) /\ heap' = (heap \ P) \ {t}
    BY <1>4 DEF RoundTake
  <2>2. P \in SUBSET heap /\ item = None
    BY <1>4 DEF Cancelled, InHand, RoundTake
  <2>3. cancelled' \in Nat /\ active' \in Nat
    <3> HIDE DEF SInv, TypeOK
    <3>1. UNCHANGED <<scheduled, executed>>
      BY <1>4 DEF RoundTake
    <3> QED
      BY <2>1, <2>2, <3>1, PurgeCounts
  <2> QED
    BY <1>4, <2>1, <2>3 DEF RoundTake
<1>5. CASE LoadFuture
  <2>1. item \in Tasks
    BY <1>5 DEF LoadFuture, InHand
  <2>2. LessActive(1) \in Nat
    BY <2>1, HandCounts
  <2>3. CASE future[item] = "cancelled"
    <3>1. /\ cancelled' = cancelled + 1 /\ active' = LessActive(1)
          /\ item' = None /\ loop' = "round" /\ scheduled' = scheduled /\ executed' = executed
      BY <1>5, <2>3 DEF LoadFuture, DropItem
    <3>2. cancelled' \in Nat /\ active' \in Nat
      BY <3>1, <2>2
    <3> QED
      BY <1>5, <2>1, <3>1, <3>2 DEF LoadFuture
  <2>4. CASE future[item] # "cancelled"
    BY <1>5, <2>1, <2>4 DEF LoadFuture
  <2> QED
    BY <2>3, <2>4
<1>6. CASE TokenCheck
  <2>1. item \in Tasks
    BY <1>6 DEF TokenCheck, InHand
  <2>2. LessActive(1) \in Nat
    BY <2>1, HandCounts
  <2>3. CASE TokenRequested(item)
    <3>1. /\ cancelled' = cancelled + 1 /\ active' = LessActive(1)
          /\ item' = None /\ loop' \in {"dead", "round"} /\ scheduled' = scheduled /\ executed' = executed
      BY <1>6, <2>3 DEF TokenCheck, DropItem
    <3>2. cancelled' \in Nat /\ active' \in Nat
      BY <3>1, <2>2
    <3>3. future' \in [Tasks -> States]
      <4>1. \/ future' = future
            \/ future' = [future EXCEPT ![item] = "cancelled"]
        BY <1>6, <2>3, Zenon DEF TokenCheck
      <4>2. future \in [Tasks -> States]
        OBVIOUS
      <4> HIDE DEF SInv, TypeOK
      <4> QED
        BY <2>1, <4>1, <4>2
    <3> QED
      BY <1>6, <2>1, <3>1, <3>2, <3>3 DEF TokenCheck
  <2>4. CASE ~TokenRequested(item)
    BY <1>6, <2>1, <2>4 DEF TokenCheck
  <2> QED
    BY <2>3, <2>4
<1>7. CASE Submit
  <2>1. item \in Tasks
    BY <1>7 DEF Submit, InHand
  <2>2. LessActive(1) \in Nat
    BY <2>1, HandCounts
  <2>3. Append(pool, item) \in Seq(Tasks)
    BY <2>1
  <2> QED
    BY <1>7, <2>1, <2>2, <2>3, SMTT(30) DEF Submit
<1>8. CASE Begin
  <2>1. code \in Tasks /\ Tail(pool) \in Seq(Tasks) /\ Head(pool) \in Tasks
    BY <1>8 DEF Begin, ClosureLoaded
  <2>2. ran' \in [Tasks -> Nat]
    <3>1. ran' = ran \/ ran' = [ran EXCEPT ![code] = @ + 1]
      BY <1>8 DEF Begin
    <3>2. ran \in [Tasks -> Nat]
      OBVIOUS
    <3> HIDE DEF SInv, TypeOK
    <3> QED
      BY <2>1, <3>1, <3>2
  <2>3. \E b \in Tasks \cup {None} : worker' = [of |-> Head(pool), body |-> b, at |-> "task"]
    BY <1>8, <2>1 DEF Begin
  <2>4. worker' \in Running
    BY <2>1, <2>3 DEF Running
  <2>5. pool' = Tail(pool) /\ UNCHANGED <<clock, heap, due, future, token, control, ending, metrics,
                                          calls, overwritten>>
    BY <1>8 DEF Begin
  <2> QED
    BY <2>1, <2>2, <2>4, <2>5
<1>9. CASE End \/ EndExcept
  <2>1. owner \in Tasks
    BY <1>9 DEF End, EndExcept, ClosureLoaded, Idle
  <2>2. \A ok \in BOOLEAN : Settle(owner, ok) \in [Tasks -> States]
    BY <2>1 DEF Settle
  <2>3. future' \in [Tasks -> States]
    <3> HIDE DEF SInv, TypeOK, States
    <3>1. \E ok \in BOOLEAN : future' = Settle(owner, ok)
      BY <1>9 DEF End, EndExcept
    <3> QED
      BY <2>2, <3>1
  <2>4. worker' \in Running
    <3>1. worker' = Idle \/ worker' = [worker EXCEPT !.at = "except"]
      BY <1>9 DEF End, EndExcept
    <3>2. worker \in Running
      OBVIOUS
    <3> HIDE DEF SInv, TypeOK
    <3>3. Idle \in Running /\ [worker EXCEPT !.at = "except"] \in Running
      BY <3>2 DEF Running, Idle
    <3> QED
      BY <3>1, <3>3
  <2>5. UNCHANGED <<clock, heap, due, token, control, pool, ending, metrics, history>>
    BY <1>9 DEF End, EndExcept
  <2> QED
    BY <2>3, <2>4, <2>5
<1>10. ASSUME NEW t \in Tasks, Schedule(t) PROVE TypeOK'
  <2>1. PICK d \in Delays[t] : due' = [due EXCEPT ![t] = clock + d]
    BY <1>10 DEF Schedule
  <2>2. d \in Nat /\ clock \in Nat
    OBVIOUS
  <2>3. clock + d \in Nat
    BY <2>2
  <2>4. due' \in [Tasks -> Nat]
    BY <2>1, <2>3
  <2>5. scheduled' \in Nat /\ active' \in Nat
    BY <1>10 DEF Schedule
  <2>6. future' \in [Tasks -> States]
    BY <1>10 DEF Schedule
  <2> QED
    BY <1>10, <2>4, <2>5, <2>6 DEF Schedule
<1>11. ASSUME NEW t \in Tasks, CancelFuture(t) PROVE TypeOK'
  BY <1>11 DEF CancelFuture
<1>12. ASSUME NEW t \in Tasks, CancelToken(t) PROVE TypeOK'
  BY <1>12 DEF CancelToken
<1>13. CASE Shutdown
  BY <1>13 DEF Shutdown
<1>14. CASE ShutdownRest
  <2>1. item = None /\ heap \in SUBSET heap /\ Purge(heap)
    BY <1>14 DEF ShutdownRest, InHand
  <2>2. cancelled' \in Nat /\ active' \in Nat
    <3> HIDE DEF SInv, TypeOK
    <3>1. UNCHANGED <<scheduled, executed>>
      BY <1>14 DEF ShutdownRest
    <3> QED
      BY <2>1, <3>1, PurgeCounts
  <2>3. FailRest \in [Tasks -> States]
    BY DEF FailRest
  <2> QED
    BY <1>14, <2>2, <2>3 DEF ShutdownRest
<1>15. CASE LoadCode
  <2>1. item \in Tasks
    BY <1>15 DEF LoadCode, InHand
  <2>2. Alive \subseteq Tasks
    BY AliveTasks
  <2> QED
    BY <1>15, <2>1, <2>2 DEF LoadCode
<1> QED
  BY <1>1, <1>2, <1>3, <1>4, <1>5, <1>6, <1>7, <1>8, <1>9, <1>10, <1>11, <1>12, <1>13, <1>14, <1>15
     DEF Next, TimerStep, WorkerStep

\* Every step keeps the item, the tasks and the closures in their places.
LEMMA PlacedStep == SInv /\ Next => Placed'
<1> SUFFICES ASSUME SInv, Next PROVE Placed'
  OBVIOUS
<1> USE SchedulerAssumption DEF SInv, TypeOK, Placed, InHand, KnownTasks, ClosureLoaded, Idle
<1>1. CASE Tick
  BY <1>1 DEF Tick
<1>2. CASE Exit
  BY <1>2 DEF Exit
<1>3. CASE RoundIdle
  BY <1>3 DEF RoundIdle
<1>4. ASSUME NEW t \in Tasks, RoundTake(t) PROVE Placed'
  BY <1>4 DEF RoundTake, Earliest
<1>5. CASE LoadCode
  BY <1>5 DEF LoadCode
<1>15. CASE LoadFuture
  <2>1. item \in Tasks /\ owner' = item /\ UNCHANGED <<heap, future, code, pool, worker>>
    BY <1>15 DEF LoadFuture
  <2>2. \/ item' = None /\ loop' = "round"
        \/ item' = item /\ loop' = "token"
    BY <1>15 DEF LoadFuture, DropItem
  <2>3. code = item
    BY <1>15 DEF LoadFuture
  <2> QED
    BY <2>1, <2>2, <2>3
<1>6. CASE TokenCheck
  <2>1. item \in Tasks
    BY <1>6 DEF TokenCheck
  <2>2. CASE TokenRequested(item)
    BY <1>6, <2>1, <2>2 DEF TokenCheck, DropItem
  <2>3. CASE ~TokenRequested(item)
    BY <1>6, <2>1, <2>3 DEF TokenCheck
  <2> QED
    BY <2>2, <2>3
<1>7. CASE Submit
  <2>1. /\ loop = "submit" /\ loop' = "round" /\ item' = None
        /\ UNCHANGED <<heap, future, code, owner, worker>>
    BY <1>7 DEF Submit
  <2>2. item \in Tasks /\ item = code /\ owner \in Tasks
    BY <2>1
  <2> QED
    BY <2>1, <2>2
<1>8. CASE Begin
  BY <1>8 DEF Begin
<1>9. CASE End \/ EndExcept
  <2>1. owner \in Tasks /\ code \in Tasks
    BY <1>9 DEF End, EndExcept
  <2>2. worker' = Idle \/ (worker' = [worker EXCEPT !.at = "except"] /\ worker.at = "task")
    BY <1>9 DEF End, EndExcept
  <2>3. worker' = Idle <=> worker'.at = "none"
    <3>1. worker \in Running
      BY DEF TypeOK
    <3> QED
      BY <2>2, <3>1 DEF Running, Idle
  <2>4. \A t \in Tasks : future[t] # "none" => future'[t] # "none"
    BY <1>9, <2>1 DEF End, EndExcept, Settle
  <2>5. UNCHANGED <<loop, item, heap, code, owner, pool>>
    BY <1>9 DEF End, EndExcept
  <2> QED
    BY <2>1, <2>3, <2>4, <2>5
<1>10. ASSUME NEW t \in Tasks, Schedule(t) PROVE Placed'
  BY <1>10 DEF Schedule
<1>11. ASSUME NEW t \in Tasks, CancelFuture(t) PROVE Placed'
  BY <1>11 DEF CancelFuture
<1>12. ASSUME NEW t \in Tasks, CancelToken(t) PROVE Placed'
  BY <1>12 DEF CancelToken
<1>13. CASE Shutdown
  BY <1>13 DEF Shutdown
<1>14. CASE ShutdownRest
  BY <1>14 DEF ShutdownRest, FailRest
<1> QED
  BY <1>1, <1>2, <1>3, <1>4, <1>5, <1>6, <1>7, <1>8, <1>9, <1>10, <1>11, <1>12, <1>13, <1>14, <1>15
     DEF Next, TimerStep, WorkerStep

\* Every step keeps the counters exact: each task leaves the heap or the hand once.
LEMMA CountedStep == SInv /\ Next => Counted'
<1> SUFFICES ASSUME SInv, Next PROVE Counted'
  OBVIOUS
<1>0. /\ IsFiniteSet(heap) /\ Cardinality(heap) \in Nat
      /\ scheduled \in Nat /\ executed \in Nat /\ cancelled \in Nat /\ active \in Nat
      /\ scheduled = executed + cancelled + active
      /\ active = Cardinality(heap) + (IF item = None THEN 0 ELSE 1)
  BY FS_CardinalityType DEF SInv, Counted, TypeOK
<1>1. CASE UNCHANGED <<heap, item, metrics>>
  BY <1>0, <1>1 DEF Counted
<1>2. CASE RoundIdle
  <2>1. PICK P \in SUBSET Cancelled : Purge(P) /\ heap' = heap \ P
    BY <1>2 DEF RoundIdle
  <2>2. P \in SUBSET heap /\ item = None /\ item' = None /\ UNCHANGED <<scheduled, executed>>
    BY <1>2 DEF Cancelled, InHand, RoundIdle, SInv
  <2>3. /\ IsFiniteSet(heap') /\ Cardinality(heap') \in Nat /\ active' = Cardinality(heap')
        /\ scheduled' = executed' + cancelled' + active'
    BY <2>1, <2>2, PurgeCounts
  <2> QED
    BY <2>2, <2>3 DEF Counted
<1>3. ASSUME NEW t \in Tasks, RoundTake(t) PROVE Counted'
  <2>1. PICK P \in SUBSET Cancelled :
          Purge(P) /\ Earliest(heap \ P, t) /\ heap' = (heap \ P) \ {t}
    BY <1>3 DEF RoundTake
  <2>2. P \in SUBSET heap /\ item = None /\ item' # None /\ UNCHANGED <<scheduled, executed>>
    BY <1>3, SchedulerAssumption DEF Cancelled, InHand, RoundTake, SInv
  <2>3. /\ IsFiniteSet(heap \ P) /\ Cardinality(heap \ P) \in Nat /\ active' = Cardinality(heap \ P)
        /\ scheduled' = executed' + cancelled' + active'
    BY <2>1, <2>2, PurgeCounts
  <2>4. t \in heap \ P
    BY <2>1 DEF Earliest
  <2>5. IsFiniteSet(heap') /\ Cardinality(heap') = Cardinality(heap \ P) - 1
    BY <2>1, <2>3, <2>4, FS_RemoveElement
  <2>6. active' = Cardinality(heap') + 1
    BY <2>3, <2>5
  <2> QED
    BY <2>2, <2>3, <2>5, <2>6 DEF Counted
<1>4. ASSUME item \in Tasks, DropItem, heap' = heap PROVE Counted'
  <2>1. /\ LessActive(1) = Cardinality(heap)
        /\ scheduled = executed + cancelled + 1 + LessActive(1)
    BY <1>4, HandCounts
  <2>2. /\ cancelled' = cancelled + 1 /\ active' = LessActive(1)
        /\ item' = None /\ scheduled' = scheduled /\ executed' = executed
    BY <1>4 DEF DropItem
  <2>3. active' = Cardinality(heap') /\ scheduled' = executed' + cancelled' + active'
    BY <1>0, <1>4, <2>1, <2>2
  <2> QED
    BY <1>0, <1>4, <2>2, <2>3 DEF Counted
<1>5. CASE LoadFuture
  <2>1. item \in Tasks /\ heap' = heap
    BY <1>5 DEF LoadFuture, InHand, SInv
  <2> QED
    BY <1>1, <1>4, <1>5, <2>1 DEF LoadFuture
<1>6. CASE TokenCheck
  <2>1. item \in Tasks /\ heap' = heap
    BY <1>6 DEF TokenCheck, InHand, SInv
  <2> QED
    BY <1>1, <1>4, <1>6, <2>1 DEF TokenCheck
<1>7. CASE Submit
  <2>1. item \in Tasks /\ heap' = heap /\ item' = None
    BY <1>7 DEF Submit, InHand, SInv
  <2>2. /\ LessActive(1) = Cardinality(heap)
        /\ scheduled = executed + cancelled + 1 + LessActive(1)
    BY <2>1, HandCounts
  <2>3. /\ executed' = executed + 1 /\ active' = LessActive(1)
        /\ scheduled' = scheduled /\ cancelled' = cancelled
    BY <1>7 DEF Submit
  <2>4. active' = Cardinality(heap') /\ scheduled' = executed' + cancelled' + active'
    BY <1>0, <2>1, <2>2, <2>3
  <2> QED
    BY <1>0, <2>1, <2>4 DEF Counted
<1>8. ASSUME NEW t \in Tasks, Schedule(t) PROVE Counted'
  <2>1. t \notin heap
    BY <1>8 DEF SInv, KnownTasks, Schedule
  <2>2. /\ heap' = heap \cup {t} /\ item' = item
        /\ scheduled' = scheduled + 1 /\ active' = active + 1
        /\ executed' = executed /\ cancelled' = cancelled
    BY <1>8 DEF Schedule
  <2>3. IsFiniteSet(heap') /\ Cardinality(heap') = Cardinality(heap) + 1
    BY <1>0, <2>1, <2>2, FS_AddElement
  <2>4. scheduled' = executed' + cancelled' + active'
    BY <1>0, <2>2
  <2>5. active' = Cardinality(heap') + (IF item' = None THEN 0 ELSE 1)
    BY <1>0, <2>2, <2>3
  <2> QED
    BY <2>3, <2>4, <2>5 DEF Counted
<1>9. CASE ShutdownRest
  <2>1. /\ item = None /\ item' = None /\ heap \in SUBSET heap /\ Purge(heap) /\ heap' = {}
        /\ UNCHANGED <<scheduled, executed>>
    BY <1>9 DEF ShutdownRest, InHand, SInv
  <2>2. heap \ heap = {}
    OBVIOUS
  <2>3. /\ IsFiniteSet(heap') /\ Cardinality(heap') \in Nat /\ active' = Cardinality(heap')
        /\ scheduled' = executed' + cancelled' + active'
    BY <2>1, <2>2, PurgeCounts
  <2> QED
    BY <2>1, <2>3 DEF Counted
<1> QED
  BY <1>1, <1>2, <1>3, <1>5, <1>6, <1>7, <1>8, <1>9
     DEF Next, TimerStep, WorkerStep, Tick, Exit, LoadCode, Begin, End, EndExcept,
         CancelFuture, CancelToken, Shutdown

\* A new scheduler satisfies the invariant.
LEMMA SInitially == Init => SInv
<1> SUFFICES ASSUME Init PROVE SInv
  OBVIOUS
<1>1. TypeOK
  <2>1. 0 \in 0 .. Horizon /\ <<>> \in Seq(Tasks)
    BY SchedulerAssumption
  <2>2. Idle \in Running
    BY DEF Idle, Running
  <2> QED
    BY <2>1, <2>2 DEF Init, TypeOK
<1>2. InHand /\ KnownTasks /\ ClosureLoaded
  BY SchedulerAssumption DEF Init, InHand, KnownTasks, ClosureLoaded, Idle
<1>3. Counted
  BY FS_EmptySet DEF Init, Counted
<1> QED
  BY <1>1, <1>2, <1>3 DEF SInv

\* Stuttering keeps the invariant.
LEMMA SUnchanged == SInv /\ UNCHANGED vars => SInv'
<1> SUFFICES ASSUME SInv, UNCHANGED vars PROVE SInv'
  OBVIOUS
<1> USE DEF SInv, vars
<1>1. TypeOK'
  BY DEF TypeOK
<1>2. InHand' /\ KnownTasks'
  BY DEF InHand, KnownTasks
<1>3. ClosureLoaded'
  BY DEF ClosureLoaded, Idle
<1>4. Counted'
  BY DEF Counted
<1> QED
  BY <1>1, <1>2, <1>3, <1>4

\* Every step keeps the invariant.
LEMMA SStep == SInv /\ [Next]_vars => SInv'
BY TypeStep, PlacedStep, CountedStep, SUnchanged DEF SInv, Placed

\* The invariant holds in every reachable state.
LEMMA SAlways == Spec => []SInv
BY SInitially, SStep, PTL DEF Spec

-----------------------------------------------------------------------------
(* The metrics and the first settlement *)

\* What was scheduled was executed, cancelled or is active, and the active tasks
\* are those in the heap and the one in TimerLoop's hands: every path out of the
\* heap (RemoveCancelledHeads, the two drops of TimerLoop, Submit, Shutdown) counts
\* once, and the guard of Dec(FActiveTasks) never hides a decrement.
THEOREM MetricsAlwaysBalance == Spec => []MetricsBalance
<1>1. SInv => MetricsBalance
  BY DEF SInv, Counted, MetricsBalance
<1> QED
  BY <1>1, SAlways, PTL

\* A settled future keeps its state, even where the shared variables make a
\* closure settle the future of another task.
THEOREM FirstSettlementWins == Spec => SettledOnce
<1>1. SInv /\ [Next]_vars => [\A t \in Tasks : future[t] \in Settled => future'[t] = future[t]]_vars
  <2> SUFFICES ASSUME SInv, Next, NEW t \in Tasks, future[t] \in Settled
               PROVE  future'[t] = future[t]
    OBVIOUS
  <2>1. CASE UNCHANGED future
    BY <2>1
  <2>2. CASE TokenCheck
    <3>1. item \in Tasks
      BY <2>2 DEF TokenCheck, SInv, InHand
    <3> QED
      BY <2>2, <3>1 DEF TokenCheck, SInv, TypeOK, Settled
  <2>3. CASE End \/ EndExcept
    <3>1. owner \in Tasks
      BY <2>3 DEF End, EndExcept, SInv, ClosureLoaded, Idle
    <3> QED
      BY <2>3, <3>1 DEF End, EndExcept, Settle, SInv, TypeOK, Settled
  <2>4. ASSUME NEW u \in Tasks, Schedule(u) \/ CancelFuture(u) PROVE future'[t] = future[t]
    BY <2>4 DEF Schedule, CancelFuture, SInv, TypeOK, Settled
  <2>5. CASE ShutdownRest
    BY <2>5 DEF ShutdownRest, FailRest, SInv, TypeOK, Settled
  <2> QED
    BY <2>1, <2>2, <2>3, <2>4, <2>5
       DEF Next, TimerStep, WorkerStep, Tick, Exit, RoundIdle, RoundTake, LoadCode, LoadFuture,
           Submit, Begin,
           CancelToken, Shutdown
<1> QED
  BY <1>1, SAlways, PTL DEF SettledOnce, Spec

-----------------------------------------------------------------------------
(* What the closures may run and settle *)

\* The tasks that an item, a closure or a future speaks of have left the heap,
\* and they were due when they did.
Touched(t) ==
  t = item \/ t = code \/ t = owner \/ ran[t] > 0 \/ t \in ByClosure

OutAndDue == \A t \in Tasks : Touched(t) => t \notin heap /\ IsDue(t) /\ future[t] # "none"

\* What was cancelled in the heap is stopped on its way to the pool: by
\* RemoveCancelledHeads if its future was, by the look at its token otherwise.
StillWanted ==
  /\ \A t \in withdrawn : future[t] = "cancelled"
  /\ \A t \in stopped : token[t]
  /\ \A t \in Tasks : ran[t] > 0 \/ t = item \/ t = code => t \notin withdrawn
  /\ loop = "submit" => item \notin stopped
  /\ Alive \cap (withdrawn \cup stopped) = {}
  /\ \A t \in Alive : t \notin heap /\ future[t] # "none"

\* Every closure that has settled a future or may do so was dispatched.
Backed ==
  /\ IsFiniteSet(ByClosure)
  /\ Cardinality(ByClosure) + Len(pool) + (IF worker = Idle THEN 0 ELSE 1) <= executed

CInv == OutAndDue /\ StillWanted /\ Backed

\* No step settles a future through a closure but the end of one, for one task.
LEMMA SettledBy ==
  ASSUME SInv, Next
  PROVE  \/ ByClosure' \subseteq ByClosure
         \/ /\ End \/ EndExcept
            /\ worker' = Idle /\ ByClosure' \subseteq ByClosure \cup {owner}
<1> USE DEF ByClosure
<1>0. TypeOK /\ InHand /\ KnownTasks /\ ClosureLoaded
  BY DEF SInv
<1>1. CASE UNCHANGED <<future, closer>>
  BY <1>1
<1>2. CASE TokenCheck
  <2>1. item \in Tasks
    BY <1>0, <1>2 DEF TokenCheck, InHand
  <2> QED
    BY <1>0, <1>2, <2>1 DEF TokenCheck, TypeOK
<1>3. CASE End \/ EndExcept
  <2>1. owner \in Tasks
    BY <1>0, <1>3 DEF End, EndExcept, ClosureLoaded, Idle
  <2>2. UNCHANGED closer
    BY <1>3 DEF End, EndExcept
  <2>3. \/ UNCHANGED future
        \/ worker' = Idle /\ \A t \in Tasks : t # owner => future'[t] = future[t]
    BY <1>0, <1>3, <2>1 DEF End, EndExcept, Settle, TypeOK
  <2> QED
    BY <1>1, <1>3, <2>2, <2>3
<1>4. ASSUME NEW t \in Tasks, Schedule(t) \/ CancelFuture(t)
      PROVE  ByClosure' \subseteq ByClosure
  BY <1>0, <1>4 DEF Schedule, CancelFuture, TypeOK
<1>5. CASE Shutdown
  BY <1>5 DEF Shutdown
<1>6. CASE ShutdownRest
  BY <1>0, <1>6 DEF ShutdownRest, FailRest, TypeOK
<1> QED
  BY <1>1, <1>2, <1>3, <1>4, <1>5, <1>6
     DEF Next, TimerStep, WorkerStep, Tick, Exit, RoundIdle, RoundTake, LoadCode, LoadFuture,
         Submit, Begin, CancelToken

\* Every closure settles at most one future.
LEMMA BackedStep ==
  ASSUME SInv, Backed, Next PROVE Backed'
<1>1. /\ IsFiniteSet(ByClosure) /\ Cardinality(ByClosure) \in Nat
      /\ pool \in Seq(Tasks) /\ Len(pool) \in Nat /\ executed \in Nat
  BY FS_CardinalityType DEF SInv, Backed, TypeOK
<1> DEFINE Busy == IF worker = Idle THEN 0 ELSE 1
<1>2. Cardinality(ByClosure) + Len(pool) + Busy <= executed
  BY DEF Backed
<1>3. CASE (End \/ EndExcept) /\ worker' = Idle /\ ByClosure' \subseteq ByClosure \cup {owner}
  <2>1. /\ IsFiniteSet(ByClosure \cup {owner})
        /\ Cardinality(ByClosure \cup {owner}) \in Nat
        /\ Cardinality(ByClosure \cup {owner}) <= Cardinality(ByClosure) + 1
    <3>1. /\ IsFiniteSet(ByClosure \cup {owner})
          /\ \/ Cardinality(ByClosure \cup {owner}) = Cardinality(ByClosure)
             \/ Cardinality(ByClosure \cup {owner}) = Cardinality(ByClosure) + 1
      <4>1. CASE owner \in ByClosure
        <5>1. ByClosure \cup {owner} = ByClosure
          BY <4>1
        <5> QED
          BY <1>1, <5>1, Zenon
      <4>2. CASE owner \notin ByClosure
        BY <1>1, <4>2, FS_AddElement
      <4> QED
        BY <4>1, <4>2
    <3> QED
      BY <1>1, <3>1
  <2>2. /\ IsFiniteSet(ByClosure') /\ Cardinality(ByClosure') \in Nat
        /\ Cardinality(ByClosure') <= Cardinality(ByClosure \cup {owner})
    BY <1>3, <2>1, FS_Subset, FS_CardinalityType
  <2>3. worker # Idle /\ pool' = pool /\ executed' = executed
    BY <1>3 DEF End, EndExcept, SInv, ClosureLoaded
  <2>4. Busy = 1
    BY <2>3
  <2>5. Cardinality(ByClosure') + Len(pool') + 0 <= executed'
    BY <1>1, <1>2, <2>1, <2>2, <2>3, <2>4
  <2> QED
    BY <1>3, <2>2, <2>5 DEF Backed
<1>4. CASE ByClosure' \subseteq ByClosure
  <2>1. /\ IsFiniteSet(ByClosure') /\ Cardinality(ByClosure') \in Nat
        /\ Cardinality(ByClosure') <= Cardinality(ByClosure)
    BY <1>1, <1>4, FS_Subset, FS_CardinalityType
  <2>2. CASE Submit
    <3>1. item \in Tasks /\ pool' = Append(pool, item) /\ executed' = executed + 1 /\ worker' = worker
      BY <2>2 DEF Submit, SInv, InHand
    <3>2. Len(pool') = Len(pool) + 1
      BY <1>1, <3>1
    <3>3. Cardinality(ByClosure') + Len(pool') + Busy <= executed'
      BY <1>1, <1>2, <2>1, <3>1, <3>2
    <3> QED
      BY <2>1, <3>1, <3>3 DEF Backed
  <2>3. CASE Begin
    <3>1. worker = Idle /\ pool # <<>> /\ pool' = Tail(pool) /\ executed' = executed
      BY <2>3 DEF Begin
    <3>2. Len(pool') = Len(pool) - 1
      BY <1>1, <3>1
    <3>3. Busy = 0
      BY <3>1
    <3>4. Cardinality(ByClosure') + Len(pool') + (IF worker' = Idle THEN 0 ELSE 1) <= executed'
      BY <1>1, <1>2, <2>1, <3>1, <3>2, <3>3
    <3> QED
      BY <2>1, <3>4 DEF Backed
  <2>4. CASE End \/ EndExcept
    <3>1. worker # Idle /\ pool' = pool /\ executed' = executed
      BY <2>4 DEF End, EndExcept, SInv, ClosureLoaded
    <3>2. Busy = 1
      BY <3>1
    <3>3. Cardinality(ByClosure') + Len(pool') + (IF worker' = Idle THEN 0 ELSE 1) <= executed'
      BY <1>1, <1>2, <2>1, <3>1, <3>2
    <3> QED
      BY <2>1, <3>3 DEF Backed
  <2>5. CASE UNCHANGED <<pool, worker, executed>>
    <3>1. Cardinality(ByClosure') + Len(pool) + Busy <= executed
      BY <1>1, <1>2, <2>1
    <3> QED
      BY <2>1, <2>5, <3>1 DEF Backed
  <2> QED
    BY <2>2, <2>3, <2>4, <2>5
       DEF Next, TimerStep, WorkerStep, Tick, Exit, RoundIdle, RoundTake, LoadCode, LoadFuture,
           DropItem, TokenCheck, Schedule, CancelFuture, CancelToken, Shutdown, ShutdownRest
<1> QED
  BY <1>3, <1>4, SettledBy

\* A future, once given out, stays given out.
LEMMA KnownStays ==
  ASSUME SInv, Next, NEW t \in Tasks PROVE future[t] # "none" => future'[t] # "none"
<1>0. TypeOK /\ InHand /\ ClosureLoaded
  BY DEF SInv
<1>1. CASE UNCHANGED future
  BY <1>1
<1>2. CASE TokenCheck
  BY <1>0, <1>2 DEF TokenCheck, TypeOK, InHand
<1>3. CASE End \/ EndExcept
  <2>1. owner \in Tasks
    BY <1>0, <1>3 DEF End, EndExcept, ClosureLoaded, Idle
  <2> QED
    BY <1>0, <1>3, <2>1 DEF End, EndExcept, Settle, TypeOK
<1>4. ASSUME NEW u \in Tasks, Schedule(u) \/ CancelFuture(u)
      PROVE  future[t] # "none" => future'[t] # "none"
  BY <1>0, <1>4 DEF Schedule, CancelFuture, TypeOK
<1>5. CASE ShutdownRest
  BY <1>5 DEF ShutdownRest, FailRest
<1> QED
  BY <1>1, <1>2, <1>3, <1>4, <1>5
     DEF Next, TimerStep, WorkerStep, Tick, Exit, RoundIdle, RoundTake, LoadCode, LoadFuture,
         Submit, Begin, CancelToken, Shutdown

\* Only tasks that were due leave the heap, and what left it does not come back.
LEMMA OutStep ==
  ASSUME SInv, OutAndDue, Next PROVE OutAndDue'
<1>0. TypeOK /\ InHand /\ KnownTasks /\ ClosureLoaded
  BY DEF SInv
<1> SUFFICES ASSUME NEW t \in Tasks, Touched(t)'
             PROVE  t \notin heap' /\ IsDue(t)' /\ future'[t] # "none"
  BY DEF OutAndDue
<1>1. future[t] # "none" => future'[t] # "none"
  BY KnownStays
<1>2. ASSUME Touched(t) PROVE t \notin heap' /\ IsDue(t)' /\ future'[t] # "none"
  <2>1. t \notin heap /\ due[t] <= clock /\ future[t] # "none"
    BY <1>2 DEF OutAndDue, IsDue
  <2>2. t \notin heap' /\ due'[t] = due[t]
    <3>1. CASE heap' \subseteq heap /\ due' = due
      BY <2>1, <3>1
    <3>2. ASSUME NEW u \in Tasks, Schedule(u) PROVE t \notin heap' /\ due'[t] = due[t]
      <4>1. u # t /\ heap' = heap \cup {u}
        BY <2>1, <3>2 DEF Schedule
      <4>2. PICK d : due' = [due EXCEPT ![u] = d]
        BY <3>2 DEF Schedule
      <4> QED
        BY <1>0, <2>1, <4>1, <4>2 DEF TypeOK
    <3> QED
      BY <3>1, <3>2
         DEF Next, TimerStep, WorkerStep, Tick, Exit, RoundIdle, RoundTake, LoadCode, LoadFuture,
             TokenCheck, Submit, Begin, End, EndExcept, CancelFuture, CancelToken, Shutdown,
             ShutdownRest
  <2>3. clock \in Int /\ clock' \in Int /\ clock <= clock' /\ due[t] \in Int
    <3>1. clock \in Int /\ due[t] \in Int
      BY <1>0 DEF TypeOK
    <3>2. clock' = clock \/ clock' = clock + 1
      BY DEF Next, TimerStep, WorkerStep, Tick, Exit, RoundIdle, RoundTake, LoadCode, LoadFuture,
             TokenCheck, Submit, Begin, End, EndExcept, CancelFuture, CancelToken, Shutdown,
             ShutdownRest, Schedule
    <3> QED
      BY <3>1, <3>2
  <2>4. due'[t] <= clock'
    BY <2>1, <2>2, <2>3
  <2> QED
    BY <1>1, <2>1, <2>2, <2>4 DEF IsDue
<1>3. ASSUME ~Touched(t) PROVE RoundTake(t)
  <2>1. t \notin ByClosure /\ t # owner /\ t \notin ByClosure'
    BY <1>3, SettledBy DEF Touched
  <2>2. CASE UNCHANGED <<item, code, owner, ran>>
    BY <1>3, <2>1, <2>2 DEF Touched
  <2>3. ASSUME NEW u \in Tasks, RoundTake(u) PROVE RoundTake(t)
    <3>1. item' = u /\ UNCHANGED <<code, owner, ran>>
      BY <2>3 DEF RoundTake
    <3> QED
      BY <1>3, <2>1, <2>3, <3>1 DEF Touched
  <2>4. CASE LoadCode \/ LoadFuture
    BY <1>3, <2>1, <2>4, SchedulerAssumption DEF LoadCode, LoadFuture, DropItem, Touched
  <2>5. CASE TokenCheck \/ Submit
    BY <1>3, <2>1, <2>5, SchedulerAssumption DEF TokenCheck, Submit, DropItem, Touched
  <2>6. CASE Begin
    <3>1. UNCHANGED <<item, code, owner>> /\ (ran' = ran \/ ran' = [ran EXCEPT ![code] = @ + 1])
      BY <2>6 DEF Begin
    <3>2. t # code => ran'[t] = ran[t]
      BY <1>0, <3>1 DEF TypeOK
    <3> QED
      BY <1>3, <2>1, <3>1, <3>2 DEF Touched
  <2> QED
    BY <2>2, <2>3, <2>4, <2>5, <2>6
       DEF Next, TimerStep, WorkerStep, Tick, Exit, RoundIdle, End, EndExcept,
           Schedule, CancelFuture, CancelToken, Shutdown, ShutdownRest
<1>4. ASSUME RoundTake(t) PROVE t \notin heap' /\ IsDue(t)' /\ future'[t] # "none"
  <2>1. t \in heap /\ t \notin heap' /\ IsDue(t) /\ UNCHANGED <<due, clock>>
    BY <1>4 DEF RoundTake, Earliest
  <2>2. future[t] # "none"
    BY <1>0, <2>1 DEF KnownTasks
  <2> QED
    BY <1>1, <2>1, <2>2 DEF IsDue
<1> QED
  BY <1>2, <1>3, <1>4

\* The looks at future and token stop what was cancelled in the heap.
LEMMA WantedStep ==
  ASSUME SInv, OutAndDue, StillWanted, Next PROVE StillWanted'
<1>0. /\ TypeOK /\ InHand /\ KnownTasks /\ ClosureLoaded /\ StillWanted
      /\ Alive \subseteq Tasks /\ withdrawn \subseteq Tasks /\ stopped \subseteq Tasks
      /\ \A t \in Tasks : future[t] # "none" => future'[t] # "none"
  BY AliveTasks, KnownStays DEF SInv, TypeOK
<1>1. ASSUME UNCHANGED <<withdrawn, stopped, heap, token, pool, worker, ran, code>>,
             \A t \in Tasks : future[t] = "cancelled" => future'[t] = "cancelled",
             item' \in {item, None}, loop' # "submit"
      PROVE  StillWanted'
  BY <1>0, <1>1, SchedulerAssumption DEF StillWanted, Alive
<1>2. CASE Tick \/ Shutdown
  BY <1>0, <1>2 DEF Tick, Shutdown, StillWanted, Alive
<1>3. CASE Exit
  BY <1>1, <1>3 DEF Exit
<1>4. CASE RoundIdle
  <2>1. heap' \subseteq heap /\ UNCHANGED <<withdrawn, stopped, future, token, pool, worker, ran, code, item, loop>>
    BY <1>4 DEF RoundIdle
  <2> QED
    BY <1>0, <2>1 DEF StillWanted, Alive
<1>5. ASSUME NEW t \in Tasks, RoundTake(t) PROVE StillWanted'
  <2>1. /\ heap' \subseteq heap /\ item' = t /\ loop' = "load" /\ t \in heap /\ future[t] # "cancelled"
        /\ UNCHANGED <<withdrawn, stopped, future, token, pool, worker, ran, code>>
    BY <1>5 DEF RoundTake, Earliest, Cancelled
  <2> QED
    BY <1>0, <2>1 DEF StillWanted, Alive
<1>6. CASE LoadCode
  <2>1. /\ loop' = "future" /\ code' = item /\ item' = item /\ item \in Tasks
        /\ UNCHANGED <<withdrawn, stopped, heap, future, token, pool, worker, ran>>
    BY <1>0, <1>6 DEF LoadCode, InHand
  <2> QED
    BY <1>0, <2>1 DEF StillWanted, Alive
<1>7. CASE LoadFuture
  BY <1>1, <1>7 DEF LoadFuture, DropItem
<1>8. CASE TokenCheck
  <2>1. item \in Tasks
    BY <1>0, <1>8 DEF TokenCheck, InHand
  <2>2. CASE token[item]
    <3>1. /\ item' = None /\ loop' \in {"dead", "round"}
          /\ UNCHANGED <<withdrawn, stopped, heap, token, pool, worker, ran, code>>
          /\ \A t \in Tasks : future[t] = "cancelled" => future'[t] = "cancelled"
      BY <1>0, <1>8, <2>1, <2>2 DEF TokenCheck, DropItem, TokenRequested, TypeOK
    <3> QED
      BY <1>1, <3>1
  <2>3. CASE ~token[item]
    <3>1. /\ item' = item /\ loop' = "submit" /\ item \notin stopped
          /\ UNCHANGED <<withdrawn, stopped, heap, future, token, pool, worker, ran, code>>
      BY <1>0, <1>8, <2>1, <2>3 DEF TokenCheck, TokenRequested, StillWanted
    <3> QED
      BY <1>0, <3>1 DEF StillWanted, Alive
  <2> QED
    BY <2>2, <2>3
<1>9. CASE Submit
  <2>1. /\ item \in Tasks /\ item \notin withdrawn /\ item \notin stopped /\ item \notin heap
        /\ pool \in Seq(Tasks) /\ future[item] # "none"
    BY <1>0, <1>9 DEF Submit, InHand, KnownTasks, StillWanted, TypeOK
  <2>2. /\ item' = None /\ loop' = "round" /\ pool' = Append(pool, item)
        /\ UNCHANGED <<withdrawn, stopped, heap, future, token, worker, ran, code>>
    BY <1>9 DEF Submit
  <2>3. Alive' = Alive \cup {item}
    <3>1. Range(pool') = Range(pool) \cup {item}
      BY <2>1, <2>2, RangeAppend
    <3> QED
      BY <2>2, <3>1 DEF Alive
  <2> QED
    BY <1>0, <2>1, <2>2, <2>3, SchedulerAssumption DEF StillWanted
<1>10. CASE Begin
  <2>1. code \in Tasks /\ pool \in Seq(Tasks) /\ pool # <<>>
    BY <1>0, <1>10 DEF Begin, ClosureLoaded, TypeOK
  <2>2. /\ pool' = Tail(pool) /\ worker'.of = Head(pool)
        /\ UNCHANGED <<withdrawn, stopped, heap, future, token, code, item, loop>>
    BY <1>10 DEF Begin
  <2>3. Alive' \subseteq Alive
    <3>1. Range(Tail(pool)) \subseteq Range(pool) /\ Head(pool) \in Range(pool)
      BY <2>1, RangeTail
    <3> QED
      BY <2>2, <3>1 DEF Alive
  <2>4. \A t \in Tasks : t # code => ran'[t] = ran[t]
    <3>1. ran' = ran \/ ran' = [ran EXCEPT ![code] = @ + 1]
      BY <1>10 DEF Begin
    <3> QED
      BY <1>0, <3>1 DEF TypeOK
  <2> QED
    BY <1>0, <2>1, <2>2, <2>3, <2>4 DEF StillWanted
<1>11. CASE End \/ EndExcept
  <2>1. owner \in Tasks
    BY <1>0, <1>11 DEF End, EndExcept, ClosureLoaded, Idle
  <2>2. \A t \in Tasks : future[t] = "cancelled" => future'[t] = "cancelled"
    BY <1>0, <1>11, <2>1 DEF End, EndExcept, Settle, TypeOK
  <2>3. worker'.of \in {worker.of, None}
    <3>1. worker' = Idle \/ worker' = [worker EXCEPT !.at = "except"]
      BY <1>11 DEF End, EndExcept
    <3>2. worker \in Running
      BY <1>0 DEF TypeOK
    <3> QED
      BY <3>1, <3>2 DEF Idle, Running
  <2>4. UNCHANGED <<withdrawn, stopped, heap, token, pool, ran, code, item, loop>>
    BY <1>11 DEF End, EndExcept
  <2>5. Alive' \subseteq Alive
    BY <2>3, <2>4 DEF Alive
  <2> QED
    BY <1>0, <2>2, <2>4, <2>5 DEF StillWanted
<1>12. ASSUME NEW u \in Tasks, Schedule(u) PROVE StillWanted'
  <2>1. /\ future[u] = "none" /\ future' = [future EXCEPT ![u] = "pending"] /\ heap' = heap \cup {u}
        /\ UNCHANGED <<withdrawn, stopped, token, pool, worker, ran, code, item, loop>>
    BY <1>12 DEF Schedule
  <2>2. u \notin Alive
    BY <1>0, <2>1 DEF StillWanted
  <2>3. \A t \in Tasks : future[t] = "cancelled" => future'[t] = "cancelled"
    BY <1>0, <2>1 DEF TypeOK
  <2> QED
    BY <1>0, <2>1, <2>2, <2>3 DEF StillWanted, Alive
<1>13. ASSUME NEW u \in Tasks, CancelFuture(u) \/ CancelToken(u) PROVE StillWanted'
  <2>1. /\ \A t \in Tasks : future[t] = "cancelled" => future'[t] = "cancelled"
        /\ \A t \in Tasks : token[t] => token'[t]
        /\ UNCHANGED <<heap, pool, worker, ran, code, item, loop>>
    BY <1>0, <1>13 DEF CancelFuture, CancelToken, TypeOK
  <2>2. \/ withdrawn' = withdrawn /\ stopped' = stopped
        \/ u \in heap /\ withdrawn' = withdrawn \cup {u} /\ stopped' = stopped /\ future'[u] = "cancelled"
        \/ u \in heap /\ withdrawn' = withdrawn /\ stopped' = stopped \cup {u} /\ token'[u]
    BY <1>0, <1>13 DEF CancelFuture, CancelToken, TypeOK
  <2>3. u \in heap => u \notin Alive /\ ~(ran[u] > 0) /\ u # item /\ u # code
    BY <1>0 DEF StillWanted, OutAndDue, Touched
  <2> QED
    BY <1>0, <2>1, <2>2, <2>3 DEF StillWanted, Alive
<1>14. CASE ShutdownRest
  <2>1. /\ \A t \in Tasks : future[t] = "cancelled" => future'[t] = "cancelled"
        /\ heap' = {} /\ UNCHANGED <<withdrawn, stopped, token, pool, worker, ran, code, item, loop>>
    BY <1>14 DEF ShutdownRest, FailRest
  <2> QED
    BY <1>0, <2>1 DEF StillWanted, Alive
<1> QED
  BY <1>2, <1>3, <1>4, <1>5, <1>6, <1>7, <1>8, <1>9, <1>10, <1>11, <1>12, <1>13, <1>14
     DEF Next, TimerStep, WorkerStep

\* The invariant about closures holds in every reachable state.
LEMMA CAlways == Spec => []CInv
<1>1. Init => CInv
  <2> SUFFICES ASSUME Init PROVE CInv
    OBVIOUS
  <2>1. ByClosure = {} /\ Alive = {}
    BY DEF Init, ByClosure, Alive, Idle, Range
  <2>2. IsFiniteSet({}) /\ Cardinality({}) = 0
    BY FS_EmptySet
  <2>3. Backed
    BY <2>1, <2>2 DEF Init, Backed
  <2>4. StillWanted
    BY <2>1, SchedulerAssumption DEF Init, StillWanted
  <2>5. OutAndDue
    BY <2>1, SchedulerAssumption DEF Init, OutAndDue, Touched
  <2> QED
    BY <2>3, <2>4, <2>5 DEF CInv
<1>2. CInv /\ UNCHANGED vars => CInv'
  <2> SUFFICES ASSUME CInv, UNCHANGED vars PROVE CInv'
    OBVIOUS
  <2>1. ByClosure' = ByClosure /\ Alive' = Alive
    BY DEF vars, ByClosure, Alive
  <2>2. OutAndDue'
    BY <2>1 DEF CInv, vars, OutAndDue, Touched, IsDue
  <2>3. StillWanted'
    BY <2>1 DEF CInv, vars, StillWanted
  <2>4. Backed'
    BY <2>1 DEF CInv, vars, Backed, Idle
  <2> QED
    BY <2>2, <2>3, <2>4 DEF CInv
<1>3. SInv /\ CInv /\ [Next]_vars => CInv'
  BY <1>2, BackedStep, OutStep, WantedStep DEF CInv
<1> QED
  BY <1>1, <1>3, SAlways, PTL DEF Spec

\* However the closures and TimerLoop interleave on the variables they share, no
\* closure settles two futures, and no future is settled by one before its task is
\* due and has left the heap.
THEOREM SettlementsAlwaysBacked == Spec => []SettlementsBacked
<1>1. CInv => SettlementsBacked
  BY DEF CInv, Backed, OutAndDue, Touched, ByClosure, SettlementsBacked
<1> QED
  BY <1>1, CAlways, PTL

\* No body starts before its task is due or after its future was cancelled in the
\* heap, and no closure is dispatched for a task whose future or token was.
THEOREM NothingRunsEarly == Spec => []OnlyDueTasksRun
<1>1. CInv => OnlyDueTasksRun
  BY DEF CInv, OutAndDue, Touched, StillWanted, OnlyDueTasksRun
<1> QED
  BY <1>1, CAlways, PTL
=============================================================================
