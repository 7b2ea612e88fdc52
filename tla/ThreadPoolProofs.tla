-------------------------- MODULE ThreadPoolProofs --------------------------
(***************************************************************************)
(* Proofs about TThreadPool for any number of tasks, threads and closing   *)
(* calls, any sizes, capacity and rejection policy: first the threads and  *)
(* their list, then the tasks.                                             *)
(***************************************************************************)
EXTENDS ThreadPool, FiniteSetTheorems, TLAPS

\* The thread list agrees with the threads: a running thread is listed, a free
\* slot is not, and termination is only reported for an empty list.
ListAgrees ==
  /\ PoolBounded
  /\ \A w \in Workers : wpc[w] \notin {"none", "exit"} => w \in workers
  /\ \A w \in Workers : wpc[w] = "none" => w \notin workers
  /\ TerminatedIsFinal

\* The typing the argument about the thread list needs.
ListTyped ==
  /\ workers \subseteq Workers
  /\ alive \in Nat
  /\ wpc \in [Workers -> WorkerLocations]
  /\ shutdown \in BOOLEAN /\ terminated \in BOOLEAN

LInv == ListTyped /\ ListAgrees

USE DEF lists, life, locks, wlocals, svars, cvars, AtLeast0

-----------------------------------------------------------------------------
(* The thread list *)

\* Sets of threads are finite and have a size.
LEMMA FiniteWorkers ==
  ASSUME NEW S \in SUBSET Workers
  PROVE  IsFiniteSet(S) /\ Cardinality(S) \in Nat
BY PoolAssumption, FS_Subset, FS_CardinalityType

\* Starting threads keeps the list in step, as long as it stays within Max
\* and nothing is started once the pool is shut down.
LEMMA CreateStep ==
  ASSUME LInv, NEW n \in Nat, CreateWorkers(n),
         Cardinality(workers) + n <= Max, shutdown => n = 0,
         UNCHANGED life
  PROVE  LInv'
<1>1. PICK S \in SUBSET {w \in Workers : wpc[w] = "none"} :
        /\ Cardinality(S) = n
        /\ workers' = workers \cup S
        /\ alive' = alive + n
        /\ wpc' = [w \in Workers |-> IF w \in S THEN "loop" ELSE wpc[w]]
  BY DEF CreateWorkers
<1>2. IsFiniteSet(S) /\ IsFiniteSet(workers) /\ Cardinality(workers) \in Nat
  BY <1>1, FiniteWorkers DEF LInv, ListTyped
<1>3. S \cap workers = {}
  BY <1>1 DEF LInv, ListAgrees
<1>4. Cardinality(workers') = Cardinality(workers) + n
  BY <1>1, <1>2, <1>3, FS_Union, FS_EmptySet
<1>5. shutdown => S = {}
  BY <1>1, <1>2, FS_EmptySet
<1>6. ListTyped'
  BY <1>1 DEF LInv, ListTyped, WorkerLocations
<1>7. PoolBounded'
  BY <1>1, <1>2, <1>4 DEF LInv, ListAgrees, PoolBounded
<1>8. TerminatedIsFinal'
  BY <1>1, <1>5 DEF LInv, ListTyped, ListAgrees, TerminatedIsFinal
<1> QED
  BY <1>1, <1>6, <1>7, <1>8 DEF LInv, ListTyped, ListAgrees

\* A thread that leaves: it is removed at most once, and the pool reports its
\* termination with the last one.
LEMMA RemoveStep ==
  ASSUME LInv, NEW w \in Workers, RemoveWorker(w),
         wpc[w] \in {"retire", "exit"},
         NEW l \in {"none", "exit"}, WGoto(w, l), UNCHANGED shutdown
  PROVE  LInv'
<1>1. IsFiniteSet(workers) /\ Cardinality(workers) \in Nat
  BY FiniteWorkers DEF LInv, ListTyped
<1>2. /\ workers' = workers \ {w}
      /\ alive' = IF w \in workers THEN AtLeast0(alive - 1) ELSE alive
      /\ terminated' = (terminated \/ (shutdown /\ alive' = 0))
      /\ wpc' = [wpc EXCEPT ![w] = l]
  BY DEF RemoveWorker, WGoto
<1>3. /\ IsFiniteSet(workers')
      /\ Cardinality(workers') = IF w \in workers THEN Cardinality(workers) - 1
                                                  ELSE Cardinality(workers)
  BY <1>1, <1>2, FS_RemoveElement
<1>4. Cardinality(workers') \in Nat
  BY <1>3, FS_CardinalityType
<1>5. ListTyped'
  BY <1>2 DEF LInv, ListTyped, WorkerLocations
<1>6. PoolBounded'
  BY <1>1, <1>2, <1>3, <1>4, PoolAssumption DEF LInv, ListAgrees, PoolBounded
<1>7. alive' = 0 => workers' = {}
  BY <1>3, <1>6, FS_EmptySet DEF PoolBounded
<1>8. /\ \A v \in Workers : wpc'[v] \notin {"none", "exit"} => v \in workers'
      /\ \A v \in Workers : wpc'[v] = "none" => v \notin workers'
  BY <1>2 DEF LInv, ListTyped, ListAgrees
<1>9. TerminatedIsFinal'
  <2>1. CASE terminated
    BY <2>1, <1>2 DEF LInv, ListTyped, ListAgrees, TerminatedIsFinal
  <2>2. CASE ~terminated
    <3>1. terminated' => shutdown /\ alive' = 0
      BY <2>2, <1>2
    <3>2. terminated' => \A v \in Workers : wpc'[v] \in {"none", "exit"}
      BY <3>1, <1>7, <1>8
    <3> QED
      BY <3>1, <3>2, <1>7 DEF TerminatedIsFinal
  <2> QED
    BY <2>1, <2>2
<1> QED
  BY <1>5, <1>6, <1>8, <1>9 DEF LInv, ListAgrees

\* A step of a thread that stays in its loop.
LEMMA StayStep ==
  ASSUME LInv, NEW w \in Workers, wpc[w] \notin {"none", "exit"},
         NEW l \in WorkerLocations \ {"none"}, WGoto(w, l),
         UNCHANGED <<workers, alive, shutdown, terminated>>
  PROVE  LInv'
<1>1. wpc' = [wpc EXCEPT ![w] = l]
  BY DEF WGoto
<1>2. ListTyped'
  BY <1>1 DEF LInv, ListTyped
<1>3. ~terminated
  BY DEF LInv, ListTyped, ListAgrees, TerminatedIsFinal
<1> QED
  BY <1>1, <1>2, <1>3 DEF LInv, ListTyped, ListAgrees, TerminatedIsFinal, PoolBounded

\* A step of a submitter, a closing call or a user: the list is left alone,
\* and FShutdown can only be set.
LEMMA AsideStep ==
  ASSUME LInv, UNCHANGED <<workers, alive, wpc, terminated>>,
         shutdown' \in BOOLEAN, shutdown => shutdown'
  PROVE  LInv'
BY DEF LInv, ListTyped, ListAgrees, TerminatedIsFinal, PoolBounded

\* Every step keeps the thread list in step with the running threads.
LEMMA ListStep == LInv /\ [Next]_vars => LInv'
<1> SUFFICES ASSUME LInv, [Next]_vars PROVE LInv'
  OBVIOUS
<1> USE DEF WorkerLocations
<1>a. shutdown \in BOOLEAN
  BY DEF LInv, ListTyped
<1>1. ASSUME NEW w \in Workers, Loop(w) PROVE LInv'
  <2>1. /\ wpc[w] \notin {"none", "exit"}
        /\ \E l \in WorkerLocations \ {"none"} : WGoto(w, l)
        /\ UNCHANGED <<workers, alive, shutdown, terminated>>
    BY <1>1 DEF Loop
  <2> QED
    BY <2>1, StayStep
<1>2. ASSUME NEW w \in Workers, GetNextTask(w) PROVE LInv'
  <2>1. /\ wpc[w] \notin {"none", "exit"}
        /\ \E l \in WorkerLocations \ {"none"} : WGoto(w, l)
        /\ UNCHANGED <<workers, alive, shutdown, terminated>>
    BY <1>2 DEF GetNextTask, Pop
  <2> QED
    BY <2>1, StayStep
<1>3. ASSUME NEW w \in Workers, AddQueueObserved(w) PROVE LInv'
  <2>1. /\ wpc[w] \notin {"none", "exit"}
        /\ \E l \in WorkerLocations \ {"none"} : WGoto(w, l)
        /\ UNCHANGED <<workers, alive, shutdown, terminated>>
    BY <1>3 DEF AddQueueObserved, Pop
  <2> QED
    BY <2>1, StayStep
<1>4. ASSUME NEW w \in Workers, ExecuteCancelled(w) PROVE LInv'
  <2>1. /\ wpc[w] \notin {"none", "exit"}
        /\ \E l \in WorkerLocations \ {"none"} : WGoto(w, l)
        /\ UNCHANGED <<workers, alive, shutdown, terminated>>
    BY <1>4 DEF ExecuteCancelled
  <2> QED
    BY <2>1, StayStep
<1>5. ASSUME NEW w \in Workers, ExecuteStart(w) PROVE LInv'
  <2>1. /\ wpc[w] \notin {"none", "exit"}
        /\ \E l \in WorkerLocations \ {"none"} : WGoto(w, l)
        /\ UNCHANGED <<workers, alive, shutdown, terminated>>
    BY <1>5 DEF ExecuteStart
  <2> QED
    BY <2>1, StayStep
<1>6. ASSUME NEW w \in Workers, ExecuteTask(w) PROVE LInv'
  <2>1. /\ wpc[w] \notin {"none", "exit"}
        /\ \E l \in WorkerLocations \ {"none"} : WGoto(w, l)
        /\ UNCHANGED <<workers, alive, shutdown, terminated>>
    BY <1>6 DEF ExecuteTask
  <2> QED
    BY <2>1, StayStep
<1>7. ASSUME NEW w \in Workers, ExecuteFinish(w) PROVE LInv'
  <2>1. /\ wpc[w] \notin {"none", "exit"}
        /\ \E l \in WorkerLocations \ {"none"} : WGoto(w, l)
        /\ UNCHANGED <<workers, alive, shutdown, terminated>>
    BY <1>7 DEF ExecuteFinish
  <2> QED
    BY <2>1, StayStep
<1>8. ASSUME NEW w \in Workers, Idle(w) PROVE LInv'
  <2>1. /\ wpc[w] \notin {"none", "exit"}
        /\ \E l \in WorkerLocations \ {"none"} : WGoto(w, l)
        /\ UNCHANGED <<workers, alive, shutdown, terminated>>
    BY <1>8 DEF Idle
  <2> QED
    BY <2>1, StayStep
<1>9. ASSUME NEW w \in Workers, IdleActive(w) PROVE LInv'
  <2>1. /\ wpc[w] \notin {"none", "exit"}
        /\ \E l \in WorkerLocations \ {"none"} : WGoto(w, l)
        /\ UNCHANGED <<workers, alive, shutdown, terminated>>
    BY <1>9 DEF IdleActive
  <2> QED
    BY <2>1, StayStep
<1>10. ASSUME NEW w \in Workers, IdleQueue(w) PROVE LInv'
  <2>1. /\ wpc[w] \notin {"none", "exit"}
        /\ \E l \in WorkerLocations \ {"none"} : WGoto(w, l)
        /\ UNCHANGED <<workers, alive, shutdown, terminated>>
    BY <1>10 DEF IdleQueue
  <2> QED
    BY <2>1, StayStep
<1>11. ASSUME NEW w \in Workers, Confirm(w) PROVE LInv'
  <2>1. /\ wpc[w] \notin {"none", "exit"}
        /\ \E l \in WorkerLocations \ {"none"} : WGoto(w, l)
        /\ UNCHANGED <<workers, alive, shutdown, terminated>>
    BY <1>11 DEF Confirm
  <2> QED
    BY <2>1, StayStep
<1>12. ASSUME NEW w \in Workers, Reserve(w) PROVE LInv'
  <2>1. /\ wpc[w] \notin {"none", "exit"}
        /\ \E l \in WorkerLocations \ {"none"} : WGoto(w, l)
        /\ UNCHANGED <<workers, alive, shutdown, terminated>>
    BY <1>12 DEF Reserve
  <2> QED
    BY <2>1, StayStep
<1>13. ASSUME NEW w \in Workers, WaitSignaled(w) PROVE LInv'
  <2>1. /\ wpc[w] \notin {"none", "exit"}
        /\ \E l \in WorkerLocations \ {"none"} : WGoto(w, l)
        /\ UNCHANGED <<workers, alive, shutdown, terminated>>
    BY <1>13 DEF WaitSignaled
  <2> QED
    BY <2>1, StayStep
<1>14. ASSUME NEW w \in Workers, WaitTimeout(w) PROVE LInv'
  <2>1. /\ wpc[w] \notin {"none", "exit"}
        /\ \E l \in WorkerLocations \ {"none"} : WGoto(w, l)
        /\ UNCHANGED <<workers, alive, shutdown, terminated>>
    BY <1>14 DEF WaitTimeout
  <2> QED
    BY <2>1, StayStep
<1>15. ASSUME NEW w \in Workers, Retire(w) PROVE LInv'
  BY <1>15, RemoveStep DEF Retire
<1>16. ASSUME NEW w \in Workers, Exit(w) PROVE LInv'
  <2>1. WGoto(w, "none")
    BY <1>16 DEF Exit, WGoto
  <2> QED
    BY <1>16, <2>1, RemoveStep DEF Exit
<1>17. ASSUME NEW t \in Tasks, EnsureCore(t) PROVE LInv'
  <2> DEFINE n == IF shutdown THEN 0 ELSE AtLeast0(Core - Cardinality(workers))
  <2>1. Cardinality(workers) \in Nat /\ Cardinality(workers) <= Max
    BY FiniteWorkers DEF LInv, ListTyped, ListAgrees, PoolBounded
  <2>2. n \in Nat /\ Cardinality(workers) + n <= Max
    BY <2>1, PoolAssumption
  <2>3. CreateWorkers(n) /\ UNCHANGED life
    BY <1>17 DEF EnsureCore
  <2>4. shutdown => n = 0
    OBVIOUS
  <2> HIDE DEF n
  <2> QED
    BY <2>2, <2>3, <2>4, CreateStep
<1>18. ASSUME NEW t \in Tasks, ScaleUp(t) PROVE LInv'
  <2> DEFINE n == IF shutdown \/ Cardinality(workers) >= Max THEN 0 ELSE 1
  <2>1. Cardinality(workers) \in Nat /\ Cardinality(workers) <= Max
    BY FiniteWorkers DEF LInv, ListTyped, ListAgrees, PoolBounded
  <2>2. n \in Nat /\ Cardinality(workers) + n <= Max
    BY <2>1, PoolAssumption
  <2>3. CreateWorkers(n) /\ UNCHANGED life
    BY <1>18 DEF ScaleUp
  <2>4. shutdown => n = 0
    OBVIOUS
  <2> HIDE DEF n
  <2> QED
    BY <2>2, <2>3, <2>4, CreateStep
<1>19. ASSUME NEW t \in Tasks,
              \/ Submit(t) \/ TakeSnapshot(t) \/ Enqueue(t)
              \/ CallerStart(t) \/ CallerRun(t) \/ CallerFinish(t)
              \/ CancelFuture(t) \/ CancelToken(t)
       PROVE  LInv'
  <2>1. UNCHANGED <<workers, alive, wpc, terminated, shutdown>>
    BY <1>19 DEF Submit, TakeSnapshot, Enqueue, CallerStart, CallerRun, CallerFinish,
                 CancelFuture, CancelToken
  <2> QED
    BY <2>1, <1>a, AsideStep
<1>20. ASSUME NEW c \in Closers, Close(c) PROVE LInv'
  <2>1. UNCHANGED <<workers, alive, wpc, terminated>> /\ shutdown' = TRUE
    BY <1>20 DEF Close
  <2> QED
    BY <2>1, AsideStep
<1>21. ASSUME NEW c \in Closers, CloseStep(c) PROVE LInv'
  <2>1. UNCHANGED <<workers, alive, wpc, terminated, shutdown>>
    BY <1>21 DEF CloseStep, TakeQueue, SignalAll, AwaitTermination, Drain, Reap
  <2> QED
    BY <2>1, <1>a, AsideStep
<1>22. CASE UNCHANGED vars
  <2>1. UNCHANGED <<workers, alive, wpc, terminated, shutdown>>
    BY <1>22 DEF vars
  <2> QED
    BY <2>1, <1>a, AsideStep
<1> QED
  BY <1>1, <1>2, <1>3, <1>4, <1>5, <1>6, <1>7, <1>8, <1>9, <1>10, <1>11,
     <1>12, <1>13, <1>14, <1>15, <1>16, <1>17, <1>18, <1>19, <1>20, <1>21, <1>22
  DEF Next, WorkerStep, SubmitStep

\* The constructor leaves Core listed threads, all in their loop.
LEMMA ListInit == Init => LInv
<1> SUFFICES ASSUME Init PROVE LInv
  OBVIOUS
<1>1. /\ workers \in SUBSET Workers /\ Cardinality(workers) = Core
      /\ alive = Core /\ shutdown = FALSE /\ terminated = FALSE
      /\ wpc = [w \in Workers |-> IF w \in workers THEN "loop" ELSE "none"]
  BY DEF Init
<1>2. ListTyped
  BY <1>1, PoolAssumption DEF ListTyped, WorkerLocations
<1>3. ListAgrees
  BY <1>1, PoolAssumption DEF ListAgrees, PoolBounded, TerminatedIsFinal
<1> QED
  BY <1>2, <1>3 DEF LInv

\* The thread list and the running threads agree in every state.
LEMMA ListInvariant == Spec => []LInv
BY ListInit, ListStep, PTL DEF Spec

\* However many Submits start threads at the same time and workers retire,
\* the pool never has more than FMaxPoolSize threads, and FAliveThreads counts
\* the list exactly.
THEOREM PoolStaysBounded == Spec => []PoolBounded
<1>1. LInv => PoolBounded
  BY DEF LInv, ListAgrees
<1> QED
  BY <1>1, ListInvariant, PTL

\* IsTerminated is final: once the pool reports it, there is no thread left
\* that runs or can take a task, and none is started again.
THEOREM TerminationIsFinal == Spec => []TerminatedIsFinal
<1>1. LInv => TerminatedIsFinal
  BY DEF LInv, ListAgrees
<1> QED
  BY <1>1, ListInvariant, PTL

-----------------------------------------------------------------------------
(* The active count *)

Busy    == {w \in Workers : wpc[w] \in {"run", "finish"}}
Calling == {t \in Tasks : spc[t] \in {"callerRun", "callerFinish"}}

ActiveTyped ==
  /\ active \in Nat
  /\ wpc \in [Workers -> WorkerLocations]
  /\ spc \in [Tasks -> SubmitLocations]

AInv == ActiveTyped /\ ActiveExact

\* The threads and the callers that run a task are finitely many.
LEMMA FiniteCounts ==
  /\ IsFiniteSet(Busy) /\ Cardinality(Busy) \in Nat
  /\ IsFiniteSet(Calling) /\ Cardinality(Calling) \in Nat
BY PoolAssumption, FS_Subset, FS_CardinalityType DEF Busy, Calling

\* The definition of ActiveExact in terms of the two sets.
LEMMA ActiveIs == ActiveExact <=> active = Cardinality(Busy) + Cardinality(Calling)
BY DEF ActiveExact, Busy, Calling

\* Steps that change neither who is running a task nor the count.
LEMMA SameActive ==
  ASSUME AInv, active' = active, Busy' = Busy, Calling' = Calling,
         wpc' \in [Workers -> WorkerLocations], spc' \in [Tasks -> SubmitLocations]
  PROVE  AInv'
<1>1. active = Cardinality(Busy) + Cardinality(Calling)
  BY ActiveIs DEF AInv
<1>2. active' = Cardinality(Busy') + Cardinality(Calling')
  BY <1>1
<1>3. ActiveExact'
  BY <1>2 DEF ActiveExact, Busy, Calling
<1> QED
  BY <1>3 DEF AInv, ActiveTyped

\* A worker that moves without entering or leaving a task body.
LEMMA WorkerMoves ==
  ASSUME AInv, NEW w \in Workers, NEW l \in WorkerLocations, WGoto(w, l),
         wpc[w] \in {"run", "finish"} <=> l \in {"run", "finish"},
         UNCHANGED <<active, spc>>
  PROVE  AInv'
<1>1. wpc' = [wpc EXCEPT ![w] = l] /\ wpc' \in [Workers -> WorkerLocations]
  BY DEF WGoto, AInv, ActiveTyped
<1>2. Busy' = Busy
  BY <1>1 DEF Busy, AInv, ActiveTyped
<1>3. Calling' = Calling
  BY DEF Calling
<1> QED
  BY <1>1, <1>2, <1>3, SameActive DEF AInv, ActiveTyped

\* A Submit that moves without entering or leaving a task body.
LEMMA SubmitMoves ==
  ASSUME AInv, NEW t \in Tasks, NEW l \in SubmitLocations, SGoto(t, l),
         spc[t] \in {"callerRun", "callerFinish"} <=> l \in {"callerRun", "callerFinish"},
         UNCHANGED active, wpc' \in [Workers -> WorkerLocations], Busy' = Busy
  PROVE  AInv'
<1>1. spc' = [spc EXCEPT ![t] = l] /\ spc' \in [Tasks -> SubmitLocations]
  BY DEF SGoto, AInv, ActiveTyped
<1>2. Calling' = Calling
  BY <1>1 DEF Calling, AInv, ActiveTyped
<1> QED
  BY <1>1, <1>2, SameActive

\* A thread that is started does not run a task yet.
LEMMA CreateKeepsBusy ==
  ASSUME AInv, NEW n, CreateWorkers(n)
  PROVE  wpc' \in [Workers -> WorkerLocations] /\ Busy' = Busy
<1>1. PICK S \in SUBSET {w \in Workers : wpc[w] = "none"} :
        wpc' = [w \in Workers |-> IF w \in S THEN "loop" ELSE wpc[w]]
  BY DEF CreateWorkers
<1> QED
  BY <1>1 DEF Busy, AInv, ActiveTyped, WorkerLocations

\* Every step keeps FActiveCount exact.
LEMMA ActiveStep == AInv /\ [Next]_vars => AInv'
<1> SUFFICES ASSUME AInv, [Next]_vars PROVE AInv'
  OBVIOUS
<1> USE DEF WorkerLocations, SubmitLocations
<1>a. active = Cardinality(Busy) + Cardinality(Calling)
  BY ActiveIs DEF AInv
<1>b. active \in Nat /\ wpc \in [Workers -> WorkerLocations]
        /\ spc \in [Tasks -> SubmitLocations]
  BY DEF AInv, ActiveTyped
<1>1. ASSUME NEW w \in Workers,
             \/ Loop(w) \/ GetNextTask(w) \/ AddQueueObserved(w) \/ ExecuteCancelled(w)
             \/ ExecuteTask(w) \/ Idle(w) \/ IdleActive(w) \/ IdleQueue(w) \/ Confirm(w)
             \/ Reserve(w) \/ Retire(w) \/ WaitSignaled(w) \/ WaitTimeout(w) \/ Exit(w)
      PROVE  AInv'
  <2>1. \E l \in WorkerLocations :
          WGoto(w, l) /\ (wpc[w] \in {"run", "finish"} <=> l \in {"run", "finish"})
    <3>1. CASE Loop(w)
      BY <3>1 DEF Loop
    <3>2. CASE GetNextTask(w)
      BY <3>2 DEF GetNextTask, Pop
    <3>3. CASE AddQueueObserved(w)
      BY <3>3 DEF AddQueueObserved, Pop
    <3>4. CASE ExecuteCancelled(w)
      BY <3>4 DEF ExecuteCancelled
    <3>5. CASE ExecuteTask(w)
      BY <3>5 DEF ExecuteTask
    <3>6. CASE Idle(w)
      BY <3>6 DEF Idle
    <3>7. CASE IdleActive(w)
      BY <3>7 DEF IdleActive
    <3>8. CASE IdleQueue(w)
      BY <3>8 DEF IdleQueue
    <3>9. CASE Confirm(w)
      BY <3>9 DEF Confirm
    <3>10. CASE Reserve(w)
      BY <3>10 DEF Reserve
    <3>11. CASE Retire(w)
      BY <3>11 DEF Retire
    <3>12. CASE WaitSignaled(w)
      BY <3>12 DEF WaitSignaled
    <3>13. CASE WaitTimeout(w)
      BY <3>13 DEF WaitTimeout
    <3>14. CASE Exit(w)
      BY <3>14 DEF Exit, WGoto
    <3> QED
      BY <1>1, <3>1, <3>2, <3>3, <3>4, <3>5, <3>6, <3>7, <3>8, <3>9, <3>10, <3>11, <3>12, <3>13, <3>14
  <2>2. UNCHANGED <<active, spc>>
    BY <1>1 DEF Loop, GetNextTask, AddQueueObserved, ExecuteCancelled, ExecuteTask, Idle,
       IdleActive, IdleQueue, Confirm, Reserve, Retire, WaitSignaled, WaitTimeout, Exit
  <2> QED
    BY <2>1, <2>2, WorkerMoves
<1>2. ASSUME NEW w \in Workers, ExecuteStart(w) PROVE AInv'
  <2>1. /\ active' = AtLeast0(active + 1)
        /\ wpc' = [wpc EXCEPT ![w] = "run"] /\ wpc[w] = "take" /\ spc' = spc
    BY <1>2 DEF ExecuteStart, UpdateActive, WGoto
  <2>2. Busy' = Busy \cup {w} /\ w \notin Busy /\ Calling' = Calling
    BY <2>1, <1>b DEF Busy, Calling
  <2>3. Cardinality(Busy') = Cardinality(Busy) + 1
    BY <2>2, FiniteCounts, FS_AddElement
  <2>4. active' = Cardinality(Busy') + Cardinality(Calling') /\ active' \in Nat
    BY <1>a, <1>b, <2>1, <2>2, <2>3, FiniteCounts
  <2>5. ActiveExact'
    BY <2>4 DEF ActiveExact, Busy, Calling
  <2> QED
    BY <2>1, <2>4, <2>5, <1>b DEF AInv, ActiveTyped
<1>3. ASSUME NEW w \in Workers, ExecuteFinish(w) PROVE AInv'
  <2>1. /\ active' = AtLeast0(active + (-1))
        /\ wpc' = [wpc EXCEPT ![w] = "loop"] /\ wpc[w] = "finish" /\ spc' = spc
    BY <1>3 DEF ExecuteFinish, UpdateActive, WGoto
  <2>2. Busy' = Busy \ {w} /\ w \in Busy /\ Calling' = Calling
    BY <2>1, <1>b DEF Busy, Calling
  <2>3. Cardinality(Busy') = Cardinality(Busy) - 1 /\ Cardinality(Busy') \in Nat
    BY <2>2, FiniteCounts, FS_RemoveElement, FS_CardinalityType
  <2>4. active' = Cardinality(Busy') + Cardinality(Calling') /\ active' \in Nat
    BY <1>a, <1>b, <2>1, <2>2, <2>3, FiniteCounts
  <2>5. ActiveExact'
    BY <2>4 DEF ActiveExact, Busy, Calling
  <2> QED
    BY <2>1, <2>4, <2>5, <1>b DEF AInv, ActiveTyped
<1>4. ASSUME NEW t \in Tasks, EnsureCore(t) \/ ScaleUp(t) PROVE AInv'
  <2>1. wpc' \in [Workers -> WorkerLocations] /\ Busy' = Busy
    BY <1>4, CreateKeepsBusy DEF EnsureCore, ScaleUp
  <2>2. /\ UNCHANGED active
        /\ \E l \in SubmitLocations : SGoto(t, l)
             /\ (spc[t] \in {"callerRun", "callerFinish"} <=> l \in {"callerRun", "callerFinish"})
    BY <1>4 DEF EnsureCore, ScaleUp
  <2> QED
    BY <2>1, <2>2, SubmitMoves
<1>5. ASSUME NEW t \in Tasks, Submit(t) \/ TakeSnapshot(t) \/ CallerRun(t) \/ Enqueue(t)
      PROVE  AInv'
  <2>1. \E l \in SubmitLocations : SGoto(t, l)
             /\ (spc[t] \in {"callerRun", "callerFinish"} <=> l \in {"callerRun", "callerFinish"})
    <3>1. CASE Submit(t)
      BY <3>1 DEF Submit
    <3>2. CASE TakeSnapshot(t)
      BY <3>2 DEF TakeSnapshot
    <3>3. CASE CallerRun(t)
      BY <3>3 DEF CallerRun
    <3>4. CASE Enqueue(t)
      <4>1. spc[t] = "enqueue"
        BY <3>4 DEF Enqueue
      <4>2. \E l \in {"raised", "callerStart", "done", "scale"} : SGoto(t, l)
        BY <3>4 DEF Enqueue, Reject, RunInCaller, Push
      <4> QED
        BY <4>1, <4>2
    <3> QED
      BY <1>5, <3>1, <3>2, <3>3, <3>4
  <2>2. UNCHANGED <<active, wpc>>
    BY <1>5 DEF Submit, TakeSnapshot, CallerRun, Enqueue
  <2>3. Busy' = Busy
    BY <2>2 DEF Busy
  <2> QED
    BY <2>1, <2>2, <2>3, <1>b, SubmitMoves
<1>6. ASSUME NEW t \in Tasks, CallerStart(t) PROVE AInv'
  <2>1. /\ active' = AtLeast0(active + 1)
        /\ spc' = [spc EXCEPT ![t] = "callerRun"] /\ spc[t] = "callerStart" /\ wpc' = wpc
    BY <1>6 DEF CallerStart, UpdateActive, SGoto
  <2>2. Calling' = Calling \cup {t} /\ t \notin Calling /\ Busy' = Busy
    BY <2>1, <1>b DEF Busy, Calling
  <2>3. Cardinality(Calling') = Cardinality(Calling) + 1
    BY <2>2, FiniteCounts, FS_AddElement
  <2>4. active' = Cardinality(Busy') + Cardinality(Calling') /\ active' \in Nat
    BY <1>a, <1>b, <2>1, <2>2, <2>3, FiniteCounts
  <2>5. ActiveExact'
    BY <2>4 DEF ActiveExact, Busy, Calling
  <2> QED
    BY <2>1, <2>4, <2>5, <1>b DEF AInv, ActiveTyped
<1>7. ASSUME NEW t \in Tasks, CallerFinish(t) PROVE AInv'
  <2>1. /\ active' = AtLeast0(active + (-1))
        /\ spc' = [spc EXCEPT ![t] = "done"] /\ spc[t] = "callerFinish" /\ wpc' = wpc
    BY <1>7 DEF CallerFinish, UpdateActive, SGoto
  <2>2. Calling' = Calling \ {t} /\ t \in Calling /\ Busy' = Busy
    BY <2>1, <1>b DEF Busy, Calling
  <2>3. Cardinality(Calling') = Cardinality(Calling) - 1 /\ Cardinality(Calling') \in Nat
    BY <2>2, FiniteCounts, FS_RemoveElement, FS_CardinalityType
  <2>4. active' = Cardinality(Busy') + Cardinality(Calling') /\ active' \in Nat
    BY <1>a, <1>b, <2>1, <2>2, <2>3, FiniteCounts
  <2>5. ActiveExact'
    BY <2>4 DEF ActiveExact, Busy, Calling
  <2> QED
    BY <2>1, <2>4, <2>5, <1>b DEF AInv, ActiveTyped
<1>8. ASSUME UNCHANGED <<active, wpc, spc>> PROVE AInv'
  BY <1>8, <1>b, SameActive DEF Busy, Calling
<1>9. ASSUME NEW t \in Tasks, CancelFuture(t) \/ CancelToken(t) PROVE AInv'
  BY <1>9, <1>8 DEF CancelFuture, CancelToken
<1>10. ASSUME NEW c \in Closers, Close(c) \/ CloseStep(c) PROVE AInv'
  BY <1>10, <1>8 DEF Close, CloseStep, TakeQueue, SignalAll, AwaitTermination, Drain, Reap
<1>11. CASE UNCHANGED vars
  BY <1>11, <1>8 DEF vars
<1> QED
  BY <1>1, <1>2, <1>3, <1>4, <1>5, <1>6, <1>7, <1>9, <1>10, <1>11
  DEF Next, WorkerStep, SubmitStep

\* The constructor leaves nobody running a task.
LEMMA ActiveInit == Init => AInv
<1> SUFFICES ASSUME Init PROVE AInv
  OBVIOUS
<1>1. Busy = {} /\ Calling = {} /\ active = 0
  BY DEF Init, Busy, Calling
<1>2. ActiveExact
  BY <1>1, ActiveIs, FS_EmptySet
<1> QED
  BY <1>1, <1>2 DEF Init, AInv, ActiveTyped, WorkerLocations, SubmitLocations

\* FActiveCount, incremented and decremented in sections of its own by workers
\* and by callers that run a task, is exact in every state.
THEOREM ActiveIsExact == Spec => []ActiveExact
<1>1. AInv => ActiveExact
  BY DEF AInv
<1> QED
  BY <1>1, ActiveInit, ActiveStep, PTL DEF Spec

-----------------------------------------------------------------------------
(* The tasks: each runs at most once, its item is never lost or in two places, *)
(* a rejected task never runs, and the queue keeps to its bound.               *)

TaskTyped ==
  /\ queue \in Seq(Tasks)
  /\ wtask \in [Workers -> Tasks \cup {None}]
  /\ runs \in [Tasks -> Nat]
  /\ wpc \in [Workers -> WorkerLocations]
  /\ spc \in [Tasks -> SubmitLocations]

\* A queued task was accepted, has not run, and is queued once.
QueueFresh ==
  /\ \A i \in 1..Len(queue) : spc[queue[i]] \in {"scale", "done"} /\ runs[queue[i]] = 0
  /\ \A i, j \in 1..Len(queue) : queue[i] = queue[j] => i = j

\* A worker holds a task exactly from GetNextTask to the end of ExecuteTask; no
\* other worker holds it and it is not queued.
HeldOnce ==
  /\ \A w \in Workers : wtask[w] # None <=> wpc[w] \in {"take", "run", "finish"}
  /\ \A w \in Workers : wtask[w] # None => spc[wtask[w]] \in {"scale", "done"}
  /\ \A w \in Workers : wpc[w] \in {"take", "run"} => runs[wtask[w]] = 0
  /\ \A w, v \in Workers : wtask[w] # None /\ wtask[w] = wtask[v] => w = v
  /\ \A w \in Workers : \A i \in 1..Len(queue) : wtask[w] # queue[i]

\* Before it is accepted, or until its caller runs it, a task has not run.
NotYetRun ==
  \A t \in Tasks : spc[t] \in {"none", "ensure", "lock", "enqueue", "callerStart", "callerRun"}
                     => runs[t] = 0

\* A worker that records how long a task was queued owns FQueueLock, so the
\* task it has seen is still the first one when it takes it.
ObserverOwns ==
  \A w \in Workers : wpc[w] = "observe" => qlock = w /\ queue # <<>>

TInv == TaskTyped /\ RunsAtMostOnce /\ QueueFresh /\ HeldOnce /\ NotYetRun /\ ObserverOwns

USE DEF lists, life, locks, wlocals, svars, cvars, AtLeast0

Plain == WorkerLocations \ {"take", "run", "finish", "observe"}

-----------------------------------------------------------------------------
(* The kinds of steps *)

\* A worker that holds no task moves.
LEMMA PlainStep ==
  ASSUME TInv, NEW w \in Workers, wpc[w] \in Plain, NEW l \in Plain, WGoto(w, l),
         UNCHANGED <<queue, wtask, runs, spc, qlock>>
  PROVE  TInv'
<1>1. wpc' = [wpc EXCEPT ![w] = l]
  BY DEF WGoto
<1>2. TaskTyped' /\ RunsAtMostOnce' /\ QueueFresh' /\ NotYetRun'
  BY <1>1 DEF TInv, TaskTyped, RunsAtMostOnce, QueueFresh, NotYetRun, Plain
<1>3. HeldOnce'
  BY <1>1 DEF TInv, TaskTyped, HeldOnce, Plain
<1>4. ObserverOwns'
  BY <1>1 DEF TInv, TaskTyped, ObserverOwns, Plain
<1> QED
  BY <1>2, <1>3, <1>4 DEF TInv

\* The first task of the queue goes to a worker while nobody else owns
\* FQueueLock.
LEMMA PopStep ==
  ASSUME TInv, NEW w \in Workers, wpc[w] \in {"get", "observe"}, queue # <<>>, Pop(w),
         \A v \in Workers : v # w => wpc[v] # "observe",
         UNCHANGED <<runs, spc>>
  PROVE  TInv'
<1> USE DEF TInv, TaskTyped
<1>1. /\ wtask' = [wtask EXCEPT ![w] = Head(queue)]
      /\ queue' = Tail(queue)
      /\ wpc' = [wpc EXCEPT ![w] = "take"]
  BY DEF Pop, WGoto
<1>2. /\ Len(queue) \in Nat /\ Len(queue) > 0
      /\ queue' \in Seq(Tasks) /\ Len(queue') = Len(queue) - 1
      /\ \A i \in 1..Len(queue') : i + 1 \in 1..Len(queue) /\ queue'[i] = queue[i + 1]
      /\ Head(queue) = queue[1] /\ 1 \in 1..Len(queue) /\ queue[1] \in Tasks
  BY <1>1
<1>3. TaskTyped'
  BY <1>1, <1>2 DEF WorkerLocations
<1>4. QueueFresh'
  <2>1. ASSUME NEW i \in 1..Len(queue')
        PROVE  spc[queue'[i]] \in {"scale", "done"} /\ runs[queue'[i]] = 0
    <3>1. i + 1 \in 1..Len(queue) /\ queue'[i] = queue[i + 1]
      BY <1>2
    <3> QED
      BY <3>1 DEF QueueFresh
  <2>2. ASSUME NEW i \in 1..Len(queue'), NEW j \in 1..Len(queue'), queue'[i] = queue'[j]
        PROVE  i = j
    <3>1. i + 1 \in 1..Len(queue) /\ j + 1 \in 1..Len(queue) /\ queue[i + 1] = queue[j + 1]
      BY <1>2, <2>2
    <3>2. i + 1 = j + 1
      BY <3>1 DEF QueueFresh
    <3> QED
      BY <3>2
  <2> QED
    BY <2>1, <2>2 DEF QueueFresh
<1>5. queue[1] # None /\ \A v \in Workers : wtask[v] # queue[1]
  BY <1>2, PoolAssumption DEF HeldOnce
<1>6. \A i \in 1..Len(queue') : queue'[i] # queue[1]
  BY <1>2 DEF QueueFresh
<1>7. HeldOnce'
  <2>1. \A v \in Workers : wtask'[v] # None <=> wpc'[v] \in {"take", "run", "finish"}
    BY <1>1, <1>2, <1>5 DEF HeldOnce
  <2>2. \A v \in Workers : wtask'[v] # None => spc'[wtask'[v]] \in {"scale", "done"}
    BY <1>1, <1>2 DEF HeldOnce, QueueFresh
  <2>3. \A v \in Workers : wpc'[v] \in {"take", "run"} => runs'[wtask'[v]] = 0
    BY <1>1, <1>2 DEF HeldOnce, QueueFresh
  <2>4. \A u, v \in Workers : wtask'[u] # None /\ wtask'[u] = wtask'[v] => u = v
    BY <1>1, <1>2, <1>5 DEF HeldOnce
  <2>5. \A v \in Workers : \A i \in 1..Len(queue') : wtask'[v] # queue'[i]
    BY <1>1, <1>2, <1>5, <1>6 DEF HeldOnce
  <2> QED
    BY <2>1, <2>2, <2>3, <2>4, <2>5 DEF HeldOnce
<1>8. ObserverOwns'
  BY <1>1 DEF ObserverOwns
<1>9. RunsAtMostOnce' /\ NotYetRun'
  BY DEF RunsAtMostOnce, NotYetRun
<1> QED
  BY <1>3, <1>4, <1>7, <1>8, <1>9 DEF TInv

\* A Submit that has neither queued nor run its task moves and leaves the queue
\* alone, or a caller has finished its task.
LEMMA ApproachStep ==
  ASSUME TInv, NEW t \in Tasks,
         NEW l \in SubmitLocations, SGoto(t, l),
         \/ spc[t] \in {"none", "lock", "enqueue", "callerStart"}
         \/ spc[t] = "callerFinish" /\ l = "done",
         UNCHANGED <<queue, wtask, runs, wpc, qlock>>
  PROVE  TInv'
<1> USE DEF TInv, TaskTyped
<1>1. spc' = [spc EXCEPT ![t] = l]
  BY DEF SGoto
<1>2. TaskTyped' /\ RunsAtMostOnce' /\ ObserverOwns'
  BY <1>1 DEF RunsAtMostOnce, ObserverOwns
<1>3. \A i \in 1..Len(queue) : queue[i] \in Tasks /\ queue[i] # t
  BY SMTT(30) DEF QueueFresh
<1>4. QueueFresh'
  BY <1>1, <1>3 DEF QueueFresh
<1>5. HeldOnce'
  BY <1>1 DEF HeldOnce
<1>6. NotYetRun'
  BY <1>1 DEF NotYetRun
<1> QED
  BY <1>2, <1>4, <1>5, <1>6 DEF TInv

\* A part of the queue, with or without the new task, replaces the queue.
LEMMA PushStep ==
  ASSUME TInv, NEW t \in Tasks, spc[t] = "enqueue", QLockFree,
         Push(t, queue) \/ (queue # <<>> /\ Push(t, Tail(queue))),
         UNCHANGED <<wtask, runs, wpc>>
  PROVE  TInv'
<1> USE DEF TInv, TaskTyped
<1>0. PICK q \in Seq(Tasks) :
        Push(t, q) /\ (q = queue \/ (queue # <<>> /\ q = Tail(queue)))
  <2>1. CASE Push(t, queue)
    BY <2>1, Zenon
  <2>2. CASE queue # <<>> /\ Push(t, Tail(queue))
    <3>1. Tail(queue) \in Seq(Tasks)
      BY <2>2
    <3> QED
      BY <2>2, <3>1, Zenon
  <2> QED
    BY <2>1, <2>2
<1>1. PICK l \in {"scale", "done"} : spc' = [spc EXCEPT ![t] = l]
  BY <1>0 DEF Push, SGoto
<1>2. queue' = Append(q, t) /\ queue' \in Seq(Tasks) /\ Len(q) \in Nat
        /\ Len(queue') = Len(q) + 1 /\ queue'[Len(q) + 1] = t
        /\ \A i \in 1..Len(q) : queue'[i] = q[i]
  BY <1>0 DEF Push
<1>3. PICK d \in {0, 1} : \A i \in 1..Len(q) : i + d \in 1..Len(queue) /\ q[i] = queue[i + d]
  <2>1. CASE q = queue
    BY <2>1
  <2>2. CASE queue # <<>> /\ q = Tail(queue)
    <3>1. \A i \in 1..Len(q) : i + 1 \in 1..Len(queue) /\ q[i] = queue[i + 1]
      BY <2>2
    <3> QED
      BY <3>1
  <2> QED
    BY <1>0, <2>1, <2>2
<1>4. ASSUME NEW i \in 1..Len(queue) PROVE queue[i] \in Tasks /\ queue[i] # t
  <2>1. spc[queue[i]] \in {"scale", "done"}
    BY DEF QueueFresh
  <2> QED
    BY <2>1
<1>5. /\ \A i \in 1..Len(q) : spc[q[i]] \in {"scale", "done"} /\ runs[q[i]] = 0
      /\ \A i \in 1..Len(q) : q[i] # t /\ q[i] \in Tasks
      /\ \A i, j \in 1..Len(q) : q[i] = q[j] => i = j
      /\ \A w \in Workers : \A i \in 1..Len(q) : wtask[w] # q[i]
  <2> SUFFICES ASSUME NEW i \in 1..Len(q)
               PROVE  /\ spc[q[i]] \in {"scale", "done"} /\ runs[q[i]] = 0
                      /\ q[i] # t /\ q[i] \in Tasks
                      /\ \A j \in 1..Len(q) : q[i] = q[j] => i = j
                      /\ \A w \in Workers : wtask[w] # q[i]
    OBVIOUS
  <2>1. i + d \in 1..Len(queue) /\ q[i] = queue[i + d]
    BY <1>3
  <2>2. spc[q[i]] \in {"scale", "done"} /\ runs[q[i]] = 0
    BY <2>1 DEF QueueFresh
  <2>3. q[i] # t /\ q[i] \in Tasks
    BY <2>1, <1>4
  <2>4. ASSUME NEW j \in 1..Len(q), q[i] = q[j] PROVE i = j
    <3>1. j + d \in 1..Len(queue) /\ q[j] = queue[j + d]
      BY <1>3
    <3>2. i + d = j + d
      BY <2>1, <2>4, <3>1 DEF QueueFresh
    <3> QED
      BY <3>2
  <2>5. \A w \in Workers : wtask[w] # q[i]
    BY <2>1 DEF HeldOnce
  <2> QED
    BY <2>2, <2>3, <2>4, <2>5
<1>6. runs[t] = 0 /\ t # None /\ \A w \in Workers : wtask[w] # t
  BY PoolAssumption, ZenonT(30) DEF NotYetRun, HeldOnce
<1>7. \A i \in 1..Len(queue') : i = Len(q) + 1 \/ i \in 1..Len(q)
  BY <1>2
<1>8. QueueFresh'
  <2>1. \A i \in 1..Len(queue') : spc'[queue'[i]] \in {"scale", "done"} /\ runs'[queue'[i]] = 0
    BY <1>1, <1>2, <1>5, <1>6, <1>7
  <2>2. \A i, j \in 1..Len(queue') : queue'[i] = queue'[j] => i = j
    BY <1>2, <1>5, <1>7
  <2> QED
    BY <2>1, <2>2 DEF QueueFresh
<1>9. HeldOnce'
  <2>1. \A w \in Workers : \A i \in 1..Len(queue') : wtask'[w] # queue'[i]
    BY <1>2, <1>5, <1>6, <1>7
  <2>2. \A w \in Workers : wtask'[w] # None => spc'[wtask'[w]] \in {"scale", "done"}
    BY <1>1 DEF HeldOnce
  <2> QED
    BY <2>1, <2>2 DEF HeldOnce
<1>10. TaskTyped' /\ RunsAtMostOnce' /\ NotYetRun'
  BY <1>1, <1>2 DEF RunsAtMostOnce, NotYetRun, SubmitLocations
<1>11. ObserverOwns'
  BY PoolAssumption DEF ObserverOwns, QLockFree
<1> QED
  BY <1>8, <1>9, <1>10, <1>11 DEF TInv

\* The queue is emptied, by Shutdown or ShutdownNow.
LEMMA EmptyStep ==
  ASSUME TInv, QLockFree, queue' = <<>>, UNCHANGED <<wtask, runs, wpc, spc>>
  PROVE  TInv'
<1>1. \A w \in Workers : wpc[w] # "observe"
  BY PoolAssumption DEF TInv, ObserverOwns, QLockFree
<1> QED
  BY <1>1 DEF TInv, TaskTyped, RunsAtMostOnce, QueueFresh, HeldOnce, NotYetRun, ObserverOwns

\* A step that touches neither the queue nor a task in hand.
LEMMA TaskAside ==
  ASSUME TInv, UNCHANGED <<queue, wtask, runs, wpc, spc, qlock>>
  PROVE  TInv'
BY DEF TInv, TaskTyped, RunsAtMostOnce, QueueFresh, HeldOnce, NotYetRun, ObserverOwns

\* A thread is started in a free slot by a Submit that goes on to its next
\* section.
LEMMA StartStep ==
  ASSUME TInv, NEW t \in Tasks, EnsureCore(t) \/ ScaleUp(t)
  PROVE  TInv'
<1> USE DEF TInv, TaskTyped
<1>1. PICK S \in SUBSET {w \in Workers : wpc[w] = "none"} :
        wpc' = [w \in Workers |-> IF w \in S THEN "loop" ELSE wpc[w]]
  BY DEF EnsureCore, ScaleUp, CreateWorkers
<1>2. /\ UNCHANGED <<queue, wtask, runs, qlock>>
      /\ \/ spc[t] = "ensure" /\ spc' = [spc EXCEPT ![t] = "lock"]
         \/ spc[t] = "scale" /\ spc' = [spc EXCEPT ![t] = "done"]
  BY DEF EnsureCore, ScaleUp, SGoto
<1>3. TaskTyped' /\ RunsAtMostOnce' /\ ObserverOwns'
  BY <1>1, <1>2 DEF RunsAtMostOnce, ObserverOwns, WorkerLocations, SubmitLocations
<1>4. QueueFresh' /\ NotYetRun'
  BY <1>2, SMTT(30) DEF QueueFresh, NotYetRun
<1>5. HeldOnce'
  BY <1>1, <1>2, SMTT(30) DEF HeldOnce
<1> QED
  BY <1>3, <1>4, <1>5 DEF TInv

\* The body of a task that has not run is executed, by the worker that holds it.
LEMMA WorkerRuns ==
  ASSUME TInv, NEW w \in Workers, ExecuteTask(w)
  PROVE  TInv'
<1> USE DEF TInv, TaskTyped
<1>1. /\ wpc[w] = "run" /\ wpc' = [wpc EXCEPT ![w] = "finish"]
      /\ runs' = [runs EXCEPT ![wtask[w]] = @ + 1]
      /\ UNCHANGED <<queue, wtask, spc, qlock>>
  BY DEF ExecuteTask, Perform, WGoto
<1>2. /\ wtask[w] # None /\ wtask[w] \in Tasks /\ runs[wtask[w]] = 0
      /\ spc[wtask[w]] \in {"scale", "done"}
  BY <1>1 DEF HeldOnce
<1>3. TaskTyped' /\ RunsAtMostOnce'
  BY <1>1, <1>2 DEF RunsAtMostOnce, WorkerLocations
<1>4. QueueFresh'
  <2>1. \A i \in 1..Len(queue) : queue[i] # wtask[w] /\ queue[i] \in Tasks
    BY DEF HeldOnce
  <2> QED
    BY <1>1, <2>1 DEF QueueFresh
<1>5. HeldOnce'
  BY <1>1, <1>2 DEF HeldOnce
<1>6. NotYetRun' /\ ObserverOwns'
  BY <1>1, <1>2 DEF NotYetRun, ObserverOwns
<1> QED
  BY <1>3, <1>4, <1>5, <1>6 DEF TInv

\* ... or by the caller that kept it out of the queue.
LEMMA CallerRuns ==
  ASSUME TInv, NEW t \in Tasks, CallerRun(t)
  PROVE  TInv'
<1> USE DEF TInv, TaskTyped
<1>1. /\ spc[t] = "callerRun" /\ spc' = [spc EXCEPT ![t] = "callerFinish"]
      /\ runs' = [runs EXCEPT ![t] = @ + 1]
      /\ UNCHANGED <<queue, wtask, wpc, qlock>>
  BY DEF CallerRun, Perform, SGoto
<1>2. runs[t] = 0
  BY <1>1 DEF NotYetRun
<1>3. TaskTyped' /\ RunsAtMostOnce'
  BY <1>1, <1>2 DEF RunsAtMostOnce, SubmitLocations
<1>4. QueueFresh'
  <2>1. ASSUME NEW i \in 1..Len(queue) PROVE queue[i] # t /\ queue[i] \in Tasks
    <3>1. spc[queue[i]] \in {"scale", "done"}
      BY DEF QueueFresh
    <3> QED
      BY <1>1, <3>1
  <2> QED
    BY <1>1, <2>1 DEF QueueFresh
<1>5. \A w \in Workers : wtask[w] # t
  BY <1>1, PoolAssumption DEF HeldOnce
<1>6. HeldOnce'
  BY <1>1, <1>5 DEF HeldOnce
<1>7. NotYetRun' /\ ObserverOwns'
  BY <1>1 DEF NotYetRun, ObserverOwns
<1> QED
  BY <1>3, <1>4, <1>6, <1>7 DEF TInv

\* A worker gives up a task: it was cancelled, or it has run.
LEMMA ReleaseStep ==
  ASSUME TInv, NEW w \in Workers, wtask' = [wtask EXCEPT ![w] = None], WGoto(w, "loop"),
         UNCHANGED <<queue, runs, spc, qlock>>
  PROVE  TInv'
<1> USE DEF TInv, TaskTyped
<1>1. wpc' = [wpc EXCEPT ![w] = "loop"]
  BY DEF WGoto
<1>2. TaskTyped' /\ RunsAtMostOnce' /\ QueueFresh' /\ NotYetRun' /\ ObserverOwns'
  BY <1>1 DEF RunsAtMostOnce, QueueFresh, NotYetRun, ObserverOwns, WorkerLocations
<1>3. \A i \in 1..Len(queue) : queue[i] # None
  BY PoolAssumption
<1>4. HeldOnce'
  BY <1>1, <1>3 DEF HeldOnce
<1> QED
  BY <1>2, <1>4 DEF TInv

-----------------------------------------------------------------------------
(* Every step keeps every task in one place *)

\* Every step keeps each task in at most one pair of hands.
LEMMA TaskStep == TInv /\ [Next]_vars => TInv'
<1> SUFFICES ASSUME TInv, [Next]_vars PROVE TInv'
  OBVIOUS
<1>1. ASSUME NEW w \in Workers,
             \/ Loop(w) \/ Idle(w) \/ IdleActive(w) \/ IdleQueue(w) \/ Confirm(w)
             \/ Reserve(w) \/ Retire(w) \/ WaitSignaled(w) \/ WaitTimeout(w) \/ Exit(w)
      PROVE  TInv'
  <2>1. wpc[w] \in Plain /\ \E l \in Plain : WGoto(w, l)
    <3>1. CASE Loop(w)
      BY <3>1 DEF Loop, Plain, WorkerLocations
    <3>2. CASE Idle(w)
      BY <3>2 DEF Idle, Plain, WorkerLocations
    <3>3. CASE IdleActive(w)
      BY <3>3 DEF IdleActive, Plain, WorkerLocations
    <3>4. CASE IdleQueue(w)
      BY <3>4 DEF IdleQueue, Plain, WorkerLocations
    <3>5. CASE Confirm(w)
      BY <3>5 DEF Confirm, Plain, WorkerLocations
    <3>6. CASE Reserve(w)
      BY <3>6 DEF Reserve, Plain, WorkerLocations
    <3>7. CASE Retire(w)
      BY <3>7 DEF Retire, Plain, WorkerLocations
    <3>8. CASE WaitSignaled(w)
      BY <3>8 DEF WaitSignaled, Plain, WorkerLocations
    <3>9. CASE WaitTimeout(w)
      BY <3>9 DEF WaitTimeout, Plain, WorkerLocations
    <3>10. CASE Exit(w)
      BY <3>10 DEF Exit, Plain, WorkerLocations, WGoto
    <3> QED
      BY <1>1, <3>1, <3>2, <3>3, <3>4, <3>5, <3>6, <3>7, <3>8, <3>9, <3>10
  <2>2. UNCHANGED <<queue, wtask, runs, spc, qlock>>
    BY <1>1 DEF Loop, Idle, ReadCount, IdleActive, IdleQueue, Confirm, Reserve, Retire,
       WaitSignaled, WaitTimeout, Exit
  <2> QED
    BY <2>1, <2>2, PlainStep
<1>2. ASSUME NEW w \in Workers, GetNextTask(w) PROVE TInv'
  <2>0. wpc[w] = "get" /\ UNCHANGED <<runs, spc>>
    BY <1>2 DEF GetNextTask
  <2>1. CASE WGoto(w, "idle") /\ UNCHANGED <<queue, wlocals, qlock>>
    BY <2>0, <2>1, PlainStep DEF Plain, WorkerLocations
  <2>2. CASE QLockFree /\ queue # <<>> /\ Pop(w)
    <3>1. \A v \in Workers : wpc[v] # "observe"
      BY <2>2, PoolAssumption DEF TInv, ObserverOwns, QLockFree
    <3> QED
      BY <2>0, <2>2, <3>1, PopStep
  <2>3. CASE /\ QLockFree /\ queue # <<>> /\ qlock' = w /\ WGoto(w, "observe")
             /\ UNCHANGED <<queue, wlocals>>
    <3> USE DEF TInv, TaskTyped
    <3>1. wpc' = [wpc EXCEPT ![w] = "observe"]
      BY <2>3 DEF WGoto
    <3>2. \A v \in Workers : wpc[v] # "observe"
      BY <2>3, PoolAssumption DEF ObserverOwns, QLockFree
    <3>3. TaskTyped' /\ RunsAtMostOnce' /\ QueueFresh' /\ NotYetRun'
      BY <2>0, <2>3, <3>1 DEF RunsAtMostOnce, QueueFresh, NotYetRun, WorkerLocations
    <3>4. HeldOnce'
      BY <2>0, <2>3, <3>1 DEF HeldOnce
    <3>5. ObserverOwns'
      BY <2>3, <3>1, <3>2 DEF ObserverOwns
    <3> QED
      BY <3>3, <3>4, <3>5 DEF TInv
  <2> QED
    BY <1>2, <2>1, <2>2, <2>3 DEF GetNextTask
<1>3. ASSUME NEW w \in Workers, AddQueueObserved(w) PROVE TInv'
  <2>1. wpc[w] = "observe" /\ Pop(w) /\ UNCHANGED <<runs, spc>>
    BY <1>3 DEF AddQueueObserved
  <2>2. queue # <<>> /\ \A v \in Workers : v # w => wpc[v] # "observe"
    BY <2>1 DEF TInv, ObserverOwns
  <2> QED
    BY <2>1, <2>2, PopStep
<1>4. ASSUME NEW w \in Workers, ExecuteCancelled(w) \/ ExecuteFinish(w) PROVE TInv'
  BY <1>4, ReleaseStep DEF ExecuteCancelled, ExecuteFinish
<1>5. ASSUME NEW w \in Workers, ExecuteStart(w) PROVE TInv'
  <2> USE DEF TInv, TaskTyped
  <2>1. /\ wpc[w] = "take" /\ wpc' = [wpc EXCEPT ![w] = "run"]
        /\ UNCHANGED <<queue, wtask, runs, spc, qlock>>
    BY <1>5 DEF ExecuteStart, WGoto
  <2>2. TaskTyped' /\ RunsAtMostOnce' /\ QueueFresh' /\ NotYetRun' /\ ObserverOwns'
    BY <2>1 DEF RunsAtMostOnce, QueueFresh, NotYetRun, ObserverOwns, WorkerLocations
  <2>3. HeldOnce'
    BY <2>1 DEF HeldOnce
  <2> QED
    BY <2>2, <2>3 DEF TInv
<1>6. ASSUME NEW w \in Workers, ExecuteTask(w) PROVE TInv'
  BY <1>6, WorkerRuns
<1>7. ASSUME NEW t \in Tasks, Submit(t) \/ TakeSnapshot(t) \/ CallerStart(t) \/ CallerFinish(t)
      PROVE  TInv'
  <2>1. \E l \in SubmitLocations :
          /\ SGoto(t, l)
          /\ \/ spc[t] \in {"none", "lock", "enqueue", "callerStart"}
             \/ spc[t] = "callerFinish" /\ l = "done"
    BY <1>7 DEF Submit, TakeSnapshot, CallerStart, CallerFinish, SubmitLocations
  <2>2. UNCHANGED <<queue, wtask, runs, wpc, qlock>>
    BY <1>7 DEF Submit, TakeSnapshot, CallerStart, CallerFinish
  <2> QED
    BY <2>1, <2>2, ApproachStep
<1>8. ASSUME NEW t \in Tasks, Enqueue(t) PROVE TInv'
  <2>0. spc[t] = "enqueue" /\ QLockFree /\ UNCHANGED <<wtask, runs, wpc, qlock>>
    BY <1>8 DEF Enqueue
  <2>1. CASE Push(t, queue) \/ (queue # <<>> /\ Push(t, Tail(queue)))
    BY <2>0, <2>1, PushStep
  <2>2. CASE /\ UNCHANGED queue
             /\ \E l \in {"raised", "callerStart", "done"} : SGoto(t, l)
    BY <2>0, <2>2, ApproachStep DEF SubmitLocations
  <2> QED
    BY <1>8, <2>1, <2>2 DEF Enqueue, Reject, RunInCaller
<1>9. ASSUME NEW t \in Tasks, EnsureCore(t) \/ ScaleUp(t) PROVE TInv'
  BY <1>9, StartStep
<1>10. ASSUME NEW t \in Tasks, CallerRun(t) PROVE TInv'
  BY <1>10, CallerRuns
<1>11. ASSUME NEW t \in Tasks, CancelFuture(t) \/ CancelToken(t) PROVE TInv'
  BY <1>11, TaskAside DEF CancelFuture, CancelToken
<1>12. ASSUME NEW c \in Closers, TakeQueue(c) \/ Drain(c) PROVE TInv'
  BY <1>12, EmptyStep DEF TakeQueue, Drain
<1>13. ASSUME NEW c \in Closers,
              Close(c) \/ SignalAll(c) \/ AwaitTermination(c) \/ Reap(c)
       PROVE  TInv'
  BY <1>13, TaskAside DEF Close, SignalAll, AwaitTermination, Reap
<1>14. CASE UNCHANGED vars
  BY <1>14, TaskAside DEF vars
<1> QED
  BY <1>1, <1>2, <1>3, <1>4, <1>5, <1>6, <1>7, <1>8, <1>9, <1>10, <1>11, <1>12, <1>13, <1>14
  DEF Next, WorkerStep, SubmitStep, CloseStep

\* No task body is executed twice, whatever mix of workers, callers, rejection
\* policies and closing calls handles it.
THEOREM EachTaskRunsOnce == Spec => []RunsAtMostOnce
<1>1. Init => TInv
  BY PoolAssumption DEF Init, TInv, TaskTyped, RunsAtMostOnce, QueueFresh, HeldOnce, NotYetRun,
     ObserverOwns, WorkerLocations, SubmitLocations
<1>2. TInv => RunsAtMostOnce
  BY DEF TInv
<1> QED
  BY <1>1, <1>2, TaskStep, PTL DEF Spec

-----------------------------------------------------------------------------
(* Nothing is lost *)

Queued(t) == \E i \in 1..Len(queue) : queue[i] = t
Held(t)   == \E w \in Workers : wtask[w] = t

PlaceTyped ==
  /\ future \in [Tasks -> {"none", "Pending", "Completed", "Failed", "Cancelled"}]
  /\ shutdown \in BOOLEAN
  /\ returned \subseteq Tasks
  /\ cpc \in [Closers -> CloseLocations]

\* Only one ShutdownNow gets to the queue, and it is the first to give tasks
\* back.
ReturnsOnce ==
  /\ \A c \in Closers : cpc[c] = "take" => shutdown /\ returned = {}
  /\ \A c, d \in Closers : cpc[c] = "take" /\ cpc[d] = "take" => c = d
  /\ returned # {} => shutdown

\* A returned task is in nobody else's hands and has not run.
ReturnedApart ==
  \A t \in returned : spc[t] \in {"scale", "done"} /\ runs[t] = 0 /\ ~Queued(t) /\ ~Held(t)

\* A future is settled before the item of its task is released.
SettledBeforeRelease ==
  /\ \A w \in Workers : wpc[w] = "finish" => future[wtask[w]] # "Pending"
  /\ \A t \in Tasks : spc[t] = "callerFinish" => future[t] # "Pending"

\* A task that Submit has not accepted has no future yet.
NoFutureYet ==
  \A t \in Tasks : spc[t] \in {"none", "ensure", "lock", "enqueue"} => future[t] = "none"

\* A task with a pending future is somewhere.
PendingPlaced ==
  \A t \in Tasks : future[t] = "Pending" => Queued(t) \/ Held(t) \/ CallerHolds(t) \/ t \in returned

\* A task that failed without running is nowhere.
FailedGone ==
  \A t \in Tasks : future[t] = "Failed" /\ runs[t] = 0 =>
                     ~Queued(t) /\ ~Held(t) /\ ~CallerHolds(t)

PInv ==
  /\ PlaceTyped /\ ReturnsOnce /\ ReturnedApart
  /\ SettledBeforeRelease /\ NoFutureYet /\ PendingPlaced /\ FailedGone

\* Where the queue is the same, the same tasks are queued.
LEMMA SameQueue ==
  ASSUME UNCHANGED queue PROVE \A t : Queued(t)' <=> Queued(t)
BY DEF Queued

\* Where no worker's task changes, the same tasks are held.
LEMMA SameHands ==
  ASSUME UNCHANGED wtask PROVE \A t : Held(t)' <=> Held(t)
BY DEF Held

\* The first task leaves the queue.
LEMMA QueuePopped ==
  ASSUME TInv, queue # <<>>, queue' = Tail(queue)
  PROVE  \A t : Queued(t)' <=> Queued(t) /\ t # Head(queue)
<1>1. /\ Len(queue) \in Nat /\ Len(queue) > 0 /\ Len(queue') = Len(queue) - 1
      /\ Head(queue) = queue[1]
      /\ \A i \in 1..Len(queue') : i + 1 \in 1..Len(queue) /\ queue'[i] = queue[i + 1]
  BY DEF TInv, TaskTyped
<1>2. ASSUME NEW t, NEW i \in 1..Len(queue'), queue'[i] = t
      PROVE  Queued(t) /\ t # Head(queue)
  <2>1. i + 1 \in 1..Len(queue) /\ queue[i + 1] = t /\ 1 \in 1..Len(queue) /\ i + 1 # 1
    BY <1>1, <1>2
  <2> QED
    BY <2>1, <1>1 DEF Queued, TInv, QueueFresh
<1>3. ASSUME NEW t, NEW i \in 1..Len(queue), queue[i] = t, t # Head(queue)
      PROVE  \E j \in 1..Len(queue') : queue'[j] = t
  <2>1. i # 1
    BY <1>1, <1>3
  <2>2. i - 1 \in 1..Len(queue') /\ (i - 1) + 1 = i
    BY <1>1, <2>1
  <2>3. queue'[i - 1] = queue[i]
    BY <1>1, <2>2
  <2> QED
    BY <1>3, <2>2, <2>3
<1> QED
  BY <1>2, <1>3 DEF Queued

\* A task is appended to the queue q.
LEMMA QueuePushed ==
  ASSUME NEW q \in Seq(Tasks), NEW t \in Tasks, queue' = Append(q, t)
  PROVE  \A u : Queued(u)' <=> u = t \/ \E i \in 1..Len(q) : q[i] = u
<1>1. /\ Len(q) \in Nat /\ Len(queue') = Len(q) + 1 /\ queue'[Len(q) + 1] = t
      /\ \A i \in 1..Len(q) : queue'[i] = q[i]
  OBVIOUS
<1>2. \A i \in 1..Len(queue') : i = Len(q) + 1 \/ i \in 1..Len(q)
  BY <1>1
<1>3. Len(q) + 1 \in 1..Len(queue') /\ \A i \in 1..Len(q) : i \in 1..Len(queue')
  BY <1>1
<1> QED
  BY <1>1, <1>2, <1>3 DEF Queued

\* The queue is emptied.
LEMMA QueueEmptied ==
  ASSUME queue' = <<>> PROVE \A t : ~Queued(t)'
BY DEF Queued

\* A worker lets go of the task it held ...
LEMMA HandEmptied ==
  ASSUME TInv, NEW w \in Workers, wtask' = [wtask EXCEPT ![w] = None]
  PROVE  \A t \in Tasks : Held(t)' <=> Held(t) /\ t # wtask[w]
<1> SUFFICES ASSUME NEW t \in Tasks PROVE Held(t)' <=> Held(t) /\ t # wtask[w]
  OBVIOUS
<1>1. t # None /\ wtask \in [Workers -> Tasks \cup {None}]
  BY PoolAssumption DEF TInv, TaskTyped
<1>2. \A v \in Workers : wtask'[v] = IF v = w THEN None ELSE wtask[v]
  BY <1>1
<1>3. \A v \in Workers : wtask[v] = t /\ wtask[w] = t => v = w
  BY <1>1 DEF TInv, HeldOnce
<1> QED
  BY <1>1, <1>2, <1>3 DEF Held

\* ... or takes one.
LEMMA HandFilled ==
  ASSUME TInv, NEW w \in Workers, wtask[w] = None, NEW h \in Tasks,
         wtask' = [wtask EXCEPT ![w] = h]
  PROVE  \A t \in Tasks : Held(t)' <=> Held(t) \/ t = h
<1> SUFFICES ASSUME NEW t \in Tasks PROVE Held(t)' <=> Held(t) \/ t = h
  OBVIOUS
<1>1. t # None /\ wtask \in [Workers -> Tasks \cup {None}]
  BY PoolAssumption DEF TInv, TaskTyped
<1>2. \A v \in Workers : wtask'[v] = IF v = w THEN h ELSE wtask[v]
  BY <1>1
<1> QED
  BY <1>1, <1>2 DEF Held

\* Queued tasks are accepted ones that have not run, and nobody holds them; held
\* ones are accepted.
LEMMA Apart ==
  ASSUME TInv, NEW t \in Tasks
  PROVE  /\ Queued(t) => spc[t] \in {"scale", "done"} /\ runs[t] = 0 /\ ~Held(t)
         /\ Held(t) => spc[t] \in {"scale", "done"}
BY PoolAssumption DEF TInv, QueueFresh, HeldOnce, Queued, Held

\* A step that moves no task and settles no future.
LEMMA PlaceKept ==
  ASSUME PInv, UNCHANGED <<queue, wtask, runs, spc, future, returned, shutdown, cpc>>,
         \A v \in Workers : wpc'[v] = "finish" => wpc[v] = "finish"
  PROVE  PInv'
<1>1. \A t : (Queued(t)' <=> Queued(t)) /\ (Held(t)' <=> Held(t))
  BY SameQueue, SameHands
<1> QED
  BY <1>1 DEF PInv, PlaceTyped, ReturnsOnce, ReturnedApart, SettledBeforeRelease, NoFutureYet,
     PendingPlaced, FailedGone, CallerHolds

\* A task goes from the queue to a worker.
LEMMA PlacePopped ==
  ASSUME TInv, PInv, NEW w \in Workers, wtask[w] = None, queue # <<>>, Pop(w),
         UNCHANGED <<runs, spc, future, returned, shutdown, cpc>>
  PROVE  PInv'
<1>1. PICK h \in Tasks : h = Head(queue) /\ Queued(h)
  BY DEF TInv, TaskTyped, Queued
<1>2. /\ wtask' = [wtask EXCEPT ![w] = h] /\ queue' = Tail(queue)
      /\ wpc' = [wpc EXCEPT ![w] = "take"]
  BY <1>1 DEF Pop, WGoto
<1>3. \A t : Queued(t)' <=> Queued(t) /\ t # h
  BY <1>1, <1>2, QueuePopped
<1>4. \A t \in Tasks : Held(t)' <=> Held(t) \/ t = h
  BY <1>2, HandFilled
<1>5. spc[h] \in {"scale", "done"} /\ runs[h] = 0
  BY <1>1, Apart
<1>6. \A v \in Workers : wpc'[v] = "finish" => wpc[v] = "finish" /\ wtask'[v] = wtask[v]
  BY <1>2 DEF TInv, TaskTyped
<1>7. PlaceTyped' /\ ReturnsOnce' /\ NoFutureYet'
  BY DEF PInv, PlaceTyped, ReturnsOnce, NoFutureYet
<1>8. ReturnedApart'
  BY <1>1, <1>3, <1>4 DEF PInv, PlaceTyped, ReturnedApart
<1>9. SettledBeforeRelease'
  BY <1>6 DEF PInv, SettledBeforeRelease
<1>10. PendingPlaced'
  BY <1>1, <1>3, <1>4 DEF PInv, PendingPlaced, CallerHolds
<1>11. FailedGone'
  BY <1>1, <1>3, <1>4 DEF PInv, FailedGone, CallerHolds
<1> QED
  BY <1>7, <1>8, <1>9, <1>10, <1>11 DEF PInv

\* A worker releases a task whose future is settled, perhaps by this step.
LEMMA PlaceReleased ==
  ASSUME TInv, PInv, NEW w \in Workers, ExecuteCancelled(w) \/ ExecuteFinish(w)
  PROVE  PInv'
<1>1. /\ wtask' = [wtask EXCEPT ![w] = None] /\ wpc' = [wpc EXCEPT ![w] = "loop"]
      /\ UNCHANGED <<queue, runs, spc, returned, shutdown, cpc>>
  BY DEF ExecuteCancelled, ExecuteFinish, WGoto
<1>2. wpc[w] \in {"take", "finish"}
  BY DEF ExecuteCancelled, ExecuteFinish
<1>3. wtask[w] \in Tasks
  BY <1>2 DEF TInv, TaskTyped, HeldOnce
<1>4. /\ future' \in [Tasks -> {"none", "Pending", "Completed", "Failed", "Cancelled"}]
      /\ \A t \in Tasks : future'[t] = future[t] \/ (future[t] = "Pending" /\ future'[t] = "Cancelled")
      /\ future'[wtask[w]] # "Pending"
  <2>1. CASE ExecuteCancelled(w)
    <3>1. future' = [t \in Tasks |-> IF t \in {wtask[w]} /\ future[t] = "Pending"
                                       THEN "Cancelled" ELSE future[t]]
      BY <2>1 DEF ExecuteCancelled, Settle
    <3> QED
      BY <3>1, <1>3 DEF PInv, PlaceTyped
  <2>2. CASE ExecuteFinish(w)
    BY <2>2 DEF ExecuteFinish, PInv, PlaceTyped, SettledBeforeRelease
  <2> QED
    BY <2>1, <2>2
<1>5. \A t : Queued(t)' <=> Queued(t)
  BY <1>1, SameQueue
<1>6. \A t \in Tasks : Held(t)' <=> Held(t) /\ t # wtask[w]
  BY <1>1, HandEmptied
<1>7. \A v \in Workers : wpc'[v] = "finish" =>
        wpc[v] = "finish" /\ wtask'[v] = wtask[v] /\ wtask[v] \in Tasks
  BY <1>1 DEF TInv, TaskTyped, HeldOnce
<1>8. PlaceTyped' /\ ReturnsOnce' /\ NoFutureYet'
  BY <1>1, <1>4 DEF PInv, PlaceTyped, ReturnsOnce, NoFutureYet
<1>9. ReturnedApart'
  BY <1>1, <1>5, <1>6 DEF PInv, PlaceTyped, ReturnedApart
<1>10. SettledBeforeRelease'
  BY <1>1, <1>4, <1>7 DEF PInv, SettledBeforeRelease
<1>11. PendingPlaced'
  BY <1>1, <1>4, <1>5, <1>6 DEF PInv, PendingPlaced, CallerHolds
<1>12. FailedGone'
  BY <1>1, <1>4, <1>5, <1>6 DEF PInv, FailedGone, CallerHolds
<1> QED
  BY <1>8, <1>9, <1>10, <1>11, <1>12 DEF PInv

\* The future after the body of task t returned.
LEMMA Performed ==
  ASSUME TInv, PInv, NEW t \in Tasks, Perform(t)
  PROVE  /\ runs' = [runs EXCEPT ![t] = @ + 1] /\ runs'[t] # 0
         /\ future' \in [Tasks -> {"none", "Pending", "Completed", "Failed", "Cancelled"}]
         /\ future'[t] # "Pending"
         /\ future[t] = "none" => future'[t] = "none"
         /\ \A u \in Tasks : u # t => future'[u] = future[u] /\ runs'[u] = runs[u]
<1>1. PICK s \in {"Completed", "Failed"} :
        future' = [u \in Tasks |-> IF u \in {t} /\ future[u] = "Pending" THEN s ELSE future[u]]
  BY DEF Perform, Settle
<1>2. runs' = [runs EXCEPT ![t] = @ + 1] /\ runs'[t] # 0
        /\ \A u \in Tasks : u # t => runs'[u] = runs[u]
  BY DEF Perform, TInv, TaskTyped
<1> QED
  BY <1>1, <1>2 DEF PInv, PlaceTyped

\* A worker runs the task it holds.
LEMMA PlaceRun ==
  ASSUME TInv, PInv, NEW w \in Workers, ExecuteTask(w)
  PROVE  PInv'
<1>1. /\ wpc[w] = "run" /\ Perform(wtask[w]) /\ wpc' = [wpc EXCEPT ![w] = "finish"]
      /\ UNCHANGED <<queue, wtask, spc, returned, shutdown, cpc>>
  BY DEF ExecuteTask, WGoto
<1>2. PICK h \in Tasks : h = wtask[w]
  BY <1>1 DEF TInv, TaskTyped, HeldOnce
<1>3. /\ runs'[h] # 0
      /\ future' \in [Tasks -> {"none", "Pending", "Completed", "Failed", "Cancelled"}]
      /\ future'[h] # "Pending"
      /\ \A u \in Tasks : u # h => future'[u] = future[u] /\ runs'[u] = runs[u]
  BY <1>1, <1>2, Performed
<1>4. Held(h) /\ spc[h] \in {"scale", "done"}
  BY <1>2, Apart DEF Held
<1>5. \A t : (Queued(t)' <=> Queued(t)) /\ (Held(t)' <=> Held(t))
  BY <1>1, SameQueue, SameHands
<1>6. \A v \in Workers : wpc'[v] = "finish" => v = w \/ wpc[v] = "finish"
  BY <1>1 DEF TInv, TaskTyped
<1>7. PlaceTyped' /\ ReturnsOnce' /\ NoFutureYet'
  BY <1>1, <1>3, <1>4 DEF PInv, PlaceTyped, ReturnsOnce, NoFutureYet
<1>8. ReturnedApart'
  BY <1>1, <1>3, <1>4, <1>5 DEF PInv, PlaceTyped, ReturnedApart
<1>9. SettledBeforeRelease'
  <2>1. ASSUME NEW v \in Workers, wpc'[v] = "finish" PROVE future'[wtask'[v]] # "Pending"
    <3>1. CASE wtask[v] = h
      BY <3>1, <1>1, <1>3
    <3>2. CASE wtask[v] # h
      <4>1. wpc[v] = "finish" /\ wtask[v] \in Tasks
        BY <2>1, <3>2, <1>2, <1>6 DEF TInv, TaskTyped, HeldOnce
      <4> QED
        BY <4>1, <3>2, <1>1, <1>3 DEF PInv, SettledBeforeRelease
    <3> QED
      BY <3>1, <3>2
  <2>2. \A t \in Tasks : spc'[t] = "callerFinish" => future'[t] # "Pending"
    BY <1>1, <1>3, <1>4 DEF PInv, SettledBeforeRelease
  <2> QED
    BY <2>1, <2>2 DEF SettledBeforeRelease
<1>10. PendingPlaced'
  BY <1>1, <1>3, <1>5 DEF PInv, PendingPlaced, CallerHolds
<1>11. FailedGone'
  BY <1>1, <1>3, <1>5 DEF PInv, FailedGone, CallerHolds
<1> QED
  BY <1>7, <1>8, <1>9, <1>10, <1>11 DEF PInv

\* A caller runs the task it kept.
LEMMA PlaceCallerRun ==
  ASSUME TInv, PInv, NEW t \in Tasks, CallerRun(t)
  PROVE  PInv'
<1>1. /\ spc[t] = "callerRun" /\ Perform(t) /\ spc' = [spc EXCEPT ![t] = "callerFinish"]
      /\ UNCHANGED <<queue, wtask, wpc, returned, shutdown, cpc>>
  BY DEF CallerRun, SGoto
<1>2. /\ runs'[t] # 0
      /\ future' \in [Tasks -> {"none", "Pending", "Completed", "Failed", "Cancelled"}]
      /\ future'[t] # "Pending"
      /\ \A u \in Tasks : u # t => future'[u] = future[u] /\ runs'[u] = runs[u]
  BY <1>1, Performed
<1>3. ~Held(t)
  BY <1>1, Apart
<1>4. /\ spc'[t] = "callerFinish" /\ \A u \in Tasks : u # t => spc'[u] = spc[u]
  BY <1>1 DEF TInv, TaskTyped
<1>5. \A u : (Queued(u)' <=> Queued(u)) /\ (Held(u)' <=> Held(u))
  BY <1>1, SameQueue, SameHands
<1>6. PlaceTyped' /\ ReturnsOnce' /\ NoFutureYet'
  BY <1>1, <1>2, <1>4 DEF PInv, PlaceTyped, ReturnsOnce, NoFutureYet
<1>7. ReturnedApart'
  BY <1>1, <1>2, <1>4, <1>5 DEF PInv, PlaceTyped, ReturnedApart
<1>8. SettledBeforeRelease'
  <2>1. ASSUME NEW v \in Workers, wpc'[v] = "finish" PROVE future'[wtask'[v]] # "Pending"
    <3>1. wpc[v] = "finish" /\ wtask[v] \in Tasks
      BY <2>1, <1>1 DEF TInv, TaskTyped, HeldOnce
    <3>2. wtask[v] # t
      BY <1>3 DEF Held
    <3> QED
      BY <3>1, <3>2, <1>1, <1>2 DEF PInv, SettledBeforeRelease
  <2>2. \A u \in Tasks : spc'[u] = "callerFinish" => future'[u] # "Pending"
    BY <1>2, <1>4 DEF PInv, SettledBeforeRelease
  <2> QED
    BY <2>1, <2>2 DEF SettledBeforeRelease
<1>9. PendingPlaced'
  BY <1>1, <1>2, <1>4, <1>5 DEF PInv, PendingPlaced, CallerHolds
<1>10. FailedGone'
  BY <1>1, <1>2, <1>4, <1>5 DEF PInv, FailedGone, CallerHolds
<1> QED
  BY <1>6, <1>7, <1>8, <1>9, <1>10 DEF PInv

\* The user cancels a future.
LEMMA PlaceCancelled ==
  ASSUME TInv, PInv, NEW t \in Tasks, CancelFuture(t)
  PROVE  PInv'
<1>1. /\ UNCHANGED <<queue, wtask, runs, spc, wpc, returned, shutdown, cpc>>
      /\ spc[t] = "done"
      /\ future' = [u \in Tasks |-> IF u \in {t} /\ future[u] = "Pending"
                                      THEN "Cancelled" ELSE future[u]]
  BY DEF CancelFuture, Settle
<1>2. \A u : (Queued(u)' <=> Queued(u)) /\ (Held(u)' <=> Held(u))
  BY <1>1, SameQueue, SameHands
<1>3. /\ future' \in [Tasks -> {"none", "Pending", "Completed", "Failed", "Cancelled"}]
      /\ \A u \in Tasks : future'[u] = future[u] \/ (future[u] = "Pending" /\ future'[u] = "Cancelled")
  BY <1>1 DEF PInv, PlaceTyped
<1>4. \A v \in Workers : wpc[v] = "finish" => wtask[v] \in Tasks
  BY DEF TInv, TaskTyped, HeldOnce
<1>5. PlaceTyped' /\ ReturnsOnce' /\ NoFutureYet'
  BY <1>1, <1>3 DEF PInv, PlaceTyped, ReturnsOnce, NoFutureYet
<1>6. ReturnedApart'
  BY <1>1, <1>2 DEF PInv, PlaceTyped, ReturnedApart
<1>7. SettledBeforeRelease'
  BY <1>1, <1>3, <1>4 DEF PInv, SettledBeforeRelease
<1>8. PendingPlaced'
  BY <1>1, <1>2, <1>3 DEF PInv, PendingPlaced, CallerHolds
<1>9. FailedGone'
  BY <1>1, <1>2, <1>3 DEF PInv, FailedGone, CallerHolds
<1> QED
  BY <1>5, <1>6, <1>7, <1>8, <1>9 DEF PInv

\* A Submit goes on with no change to the queue or to a future: on its way to
\* the queue, to the body of its task, or after it.
LEMMA PlaceMoved ==
  ASSUME TInv, PInv, NEW t \in Tasks, NEW l \in SubmitLocations, spc' = [spc EXCEPT ![t] = l],
         \/ spc[t] \in {"none", "ensure", "lock"} /\ l \in {"nil", "raised", "ensure", "lock", "enqueue"}
         \/ spc[t] = "enqueue" /\ l = "raised"
         \/ spc[t] = "callerStart" /\ l = "callerRun"
         \/ spc[t] \in {"callerFinish", "scale"} /\ l = "done",
         UNCHANGED <<queue, wtask, runs, future, returned, shutdown, cpc>>,
         \A v \in Workers : wpc'[v] = "finish" => wpc[v] = "finish"
  PROVE  PInv'
<1>1. spc'[t] = l /\ \A u \in Tasks : u # t => spc'[u] = spc[u]
  BY DEF TInv, TaskTyped
<1>2. \A u : (Queued(u)' <=> Queued(u)) /\ (Held(u)' <=> Held(u))
  BY SameQueue, SameHands
<1>3. PlaceTyped' /\ ReturnsOnce'
  BY DEF PInv, PlaceTyped, ReturnsOnce
<1>4. NoFutureYet'
  BY <1>1 DEF PInv, NoFutureYet
<1>5. ReturnedApart'
  BY <1>1, <1>2 DEF PInv, PlaceTyped, ReturnedApart
<1>6. SettledBeforeRelease'
  BY <1>1 DEF PInv, SettledBeforeRelease
<1>7. PendingPlaced'
  BY <1>1, <1>2 DEF PInv, PendingPlaced, CallerHolds, NoFutureYet, SettledBeforeRelease
<1>8. FailedGone'
  BY <1>1, <1>2 DEF PInv, FailedGone, CallerHolds
<1> QED
  BY <1>3, <1>4, <1>5, <1>6, <1>7, <1>8 DEF PInv

\* Before Enqueue a task is nowhere and has no future.
LEMMA BeforeEnqueue ==
  ASSUME TInv, PInv, NEW t \in Tasks, spc[t] = "enqueue"
  PROVE  ~Queued(t) /\ ~Held(t) /\ t \notin returned /\ future[t] = "none"
BY Apart DEF PInv, ReturnedApart, NoFutureYet

\* SubmitTaskItem keeps the task out of the queue: its caller runs it, or its
\* future fails.
LEMMA PlaceAside ==
  ASSUME TInv, PInv, NEW t \in Tasks, spc[t] = "enqueue",
         \/ Accept(t, {}) /\ SGoto(t, "callerStart")
         \/ future' = [future EXCEPT ![t] = "Failed"] /\ SGoto(t, "done"),
         UNCHANGED <<queue, wtask, runs, wpc, returned, shutdown, cpc>>
  PROVE  PInv'
<1>1. PICK l \in {"callerStart", "done"} :
        /\ spc' = [spc EXCEPT ![t] = l]
        /\ future' \in [Tasks -> {"none", "Pending", "Completed", "Failed", "Cancelled"}]
        /\ future'[t] = IF l = "done" THEN "Failed" ELSE "Pending"
        /\ \A u \in Tasks : u # t => future'[u] = future[u]
  <2>1. CASE Accept(t, {}) /\ SGoto(t, "callerStart")
    <3>1. future' = [u \in Tasks |-> IF u = t THEN "Pending" ELSE future[u]]
      BY <2>1 DEF Accept
    <3>2. spc' = [spc EXCEPT ![t] = "callerStart"]
      BY <2>1 DEF SGoto
    <3> QED
      BY <3>1, <3>2 DEF PInv, PlaceTyped
  <2>2. CASE future' = [future EXCEPT ![t] = "Failed"] /\ SGoto(t, "done")
    BY <2>2 DEF PInv, PlaceTyped, SGoto
  <2> QED
    BY <2>1, <2>2
<1>2. spc'[t] = l /\ \A u \in Tasks : u # t => spc'[u] = spc[u]
  BY <1>1 DEF TInv, TaskTyped
<1>3. ~Queued(t) /\ ~Held(t) /\ t \notin returned
  BY BeforeEnqueue
<1>4. \A u : (Queued(u)' <=> Queued(u)) /\ (Held(u)' <=> Held(u))
  BY SameQueue, SameHands
<1>5. \A v \in Workers : wpc[v] = "finish" => wtask[v] \in Tasks /\ wtask[v] # t
  BY <1>3 DEF TInv, TaskTyped, HeldOnce, Held
<1>6. PlaceTyped' /\ ReturnsOnce'
  BY <1>1 DEF PInv, PlaceTyped, ReturnsOnce
<1>7. NoFutureYet'
  BY <1>1, <1>2 DEF PInv, NoFutureYet
<1>8. ReturnedApart'
  BY <1>2, <1>3, <1>4 DEF PInv, PlaceTyped, ReturnedApart
<1>9. SettledBeforeRelease'
  BY <1>1, <1>2, <1>5 DEF PInv, SettledBeforeRelease
<1>10. PendingPlaced'
  BY <1>1, <1>2, <1>4 DEF PInv, PendingPlaced, CallerHolds
<1>11. FailedGone'
  BY <1>1, <1>2, <1>3, <1>4 DEF PInv, FailedGone, CallerHolds
<1> QED
  BY <1>6, <1>7, <1>8, <1>9, <1>10, <1>11 DEF PInv

\* SubmitTaskItem queues the task, at the end of the queue or of what is left
\* without its first task, whose future fails.
LEMMA PlacePushed ==
  ASSUME TInv, PInv, NEW t \in Tasks, spc[t] = "enqueue",
         \/ Accept(t, {}) /\ Push(t, queue)
         \/ queue # <<>> /\ Accept(t, {Head(queue)}) /\ Push(t, Tail(queue)),
         UNCHANGED <<wtask, runs, wpc, returned, shutdown, cpc>>
  PROVE  PInv'
<1>1. PICK l \in {"scale", "done"} : spc' = [spc EXCEPT ![t] = l]
  <2>1. CASE Push(t, queue)
    BY <2>1 DEF Push, SGoto
  <2>2. CASE Push(t, Tail(queue))
    BY <2>2 DEF Push, SGoto
  <2> QED
    BY <2>1, <2>2
<1>2. spc'[t] = l /\ \A u \in Tasks : u # t => spc'[u] = spc[u]
  BY <1>1 DEF TInv, TaskTyped
<1>3. ~Queued(t) /\ ~Held(t) /\ t \notin returned
  BY BeforeEnqueue
<1>4. PICK gone \in SUBSET Tasks :
        /\ \A u \in gone : Queued(u)
        /\ \A u \in Tasks : Queued(u)' <=> u = t \/ (Queued(u) /\ u \notin gone)
        /\ future' = [u \in Tasks |-> IF u = t THEN "Pending"
                                      ELSE IF u \in gone /\ future[u] = "Pending" THEN "Failed"
                                      ELSE future[u]]
  <2>1. CASE Accept(t, {}) /\ Push(t, queue)
    <3>1. queue' = Append(queue, t) /\ queue \in Seq(Tasks)
      BY <2>1 DEF Push, TInv, TaskTyped
    <3>2. \A u : Queued(u)' <=> u = t \/ Queued(u)
      BY <3>1, QueuePushed DEF Queued
    <3>3. future' = [u \in Tasks |-> IF u = t THEN "Pending"
                                      ELSE IF u \in {} /\ future[u] = "Pending" THEN "Failed"
                                      ELSE future[u]]
      BY <2>1 DEF Accept
    <3> QED
      BY <3>2, <3>3
  <2>2. CASE queue # <<>> /\ Accept(t, {Head(queue)}) /\ Push(t, Tail(queue))
    <3>1. PICK h \in Tasks : h = Head(queue) /\ Queued(h)
      BY <2>2 DEF TInv, TaskTyped, Queued
    <3>2. PICK q \in Seq(Tasks) : q = Tail(queue) /\ queue' = Append(q, t)
      <4>1. Tail(queue) \in Seq(Tasks)
        BY <2>2 DEF TInv, TaskTyped
      <4>2. queue' = Append(Tail(queue), t)
        BY <2>2 DEF Push
      <4> QED
        BY <4>1, <4>2
    <3>3. \A u : Queued(u)' <=> u = t \/ \E i \in 1..Len(q) : q[i] = u
      BY <3>2, QueuePushed
    <3>4. \A u : (\E i \in 1..Len(q) : q[i] = u) <=> Queued(u) /\ u # h
      <4>1. /\ Len(queue) \in Nat /\ Len(queue) > 0 /\ Len(q) = Len(queue) - 1
            /\ h = queue[1]
            /\ \A i \in 1..Len(q) : i + 1 \in 1..Len(queue) /\ q[i] = queue[i + 1]
        BY <2>2, <3>1, <3>2 DEF TInv, TaskTyped
      <4>2. ASSUME NEW u, NEW i \in 1..Len(q), q[i] = u PROVE Queued(u) /\ u # h
        <5>1. i + 1 \in 1..Len(queue) /\ queue[i + 1] = u /\ 1 \in 1..Len(queue) /\ i + 1 # 1
          BY <4>1, <4>2
        <5> QED
          BY <5>1, <4>1 DEF Queued, TInv, QueueFresh
      <4>3. ASSUME NEW u, NEW i \in 1..Len(queue), queue[i] = u, u # h
            PROVE  \E j \in 1..Len(q) : q[j] = u
        <5>1. i - 1 \in 1..Len(q) /\ (i - 1) + 1 = i
          BY <4>1, <4>3
        <5>2. q[i - 1] = queue[i]
          BY <4>1, <5>1
        <5> QED
          BY <4>3, <5>1, <5>2
      <4> QED
        BY <4>2, <4>3 DEF Queued
    <3>5. future' = [u \in Tasks |-> IF u = t THEN "Pending"
                                      ELSE IF u \in {h} /\ future[u] = "Pending" THEN "Failed"
                                      ELSE future[u]]
      BY <2>2, <3>1 DEF Accept
    <3>6. \A u \in Tasks : Queued(u)' <=> u = t \/ (Queued(u) /\ u \notin {h})
      BY <3>3, <3>4
    <3> HIDE <3>2, <3>3, <3>4
    <3> QED
      BY <3>1, <3>5, <3>6
  <2> QED
    BY <2>1, <2>2
<1>5. /\ future' \in [Tasks -> {"none", "Pending", "Completed", "Failed", "Cancelled"}]
      /\ future'[t] = "Pending"
      /\ \A u \in Tasks : u # t /\ u \notin gone => future'[u] = future[u]
      /\ \A u \in gone : u # t /\ future'[u] # "Pending" /\ (future[u] # "Pending" => future'[u] = future[u])
  BY <1>3, <1>4 DEF PInv, PlaceTyped
<1>6. \A u \in gone : u \in Tasks /\ spc[u] \in {"scale", "done"} /\ runs[u] = 0 /\ ~Held(u)
  BY <1>4, Apart
<1>7. \A u : Held(u)' <=> Held(u)
  BY SameHands
<1>8. \A v \in Workers : wpc[v] = "finish" => wtask[v] \in Tasks /\ Held(wtask[v])
  BY DEF TInv, TaskTyped, HeldOnce, Held
<1>9. PlaceTyped' /\ ReturnsOnce'
  BY <1>5 DEF PInv, PlaceTyped, ReturnsOnce
<1>10. NoFutureYet'
  BY <1>2, <1>5, <1>6 DEF PInv, NoFutureYet
<1>11. ReturnedApart'
  BY <1>2, <1>3, <1>4, <1>7 DEF PInv, PlaceTyped, ReturnedApart
<1>12. SettledBeforeRelease'
  <2>1. ASSUME NEW v \in Workers, wpc'[v] = "finish" PROVE future'[wtask'[v]] # "Pending"
    <3>1. wpc[v] = "finish" /\ wtask'[v] = wtask[v] /\ future[wtask[v]] # "Pending"
      BY <2>1 DEF PInv, SettledBeforeRelease
    <3>2. wtask[v] \in Tasks /\ wtask[v] # t /\ wtask[v] \notin gone
      BY <3>1, <1>3, <1>6, <1>8
    <3> QED
      BY <3>1, <3>2, <1>5
  <2>2. ASSUME NEW u \in Tasks, spc'[u] = "callerFinish" PROVE future'[u] # "Pending"
    <3>1. u # t /\ spc[u] = "callerFinish"
      BY <2>2, <1>2
    <3>2. u \notin gone /\ future[u] # "Pending"
      BY <3>1, <1>6 DEF PInv, SettledBeforeRelease
    <3> QED
      BY <3>1, <3>2, <1>5
  <2> QED
    BY <2>1, <2>2 DEF SettledBeforeRelease
<1>13. PendingPlaced'
  <2> SUFFICES ASSUME NEW u \in Tasks, future'[u] = "Pending"
               PROVE  Queued(u)' \/ Held(u)' \/ CallerHolds(u)' \/ u \in returned'
    BY DEF PendingPlaced
  <2>1. CASE u = t
    BY <2>1, <1>4
  <2>2. CASE u # t
    <3>1. u \notin gone /\ future[u] = "Pending" /\ spc'[u] = spc[u]
      BY <2>2, <1>2, <1>5
    <3>2. Queued(u) \/ Held(u) \/ CallerHolds(u) \/ u \in returned
      BY <3>1 DEF PInv, PendingPlaced
    <3> QED
      BY <3>1, <3>2, <1>4, <1>7 DEF CallerHolds
  <2> QED
    BY <2>1, <2>2
<1>14. FailedGone'
  <2> SUFFICES ASSUME NEW u \in Tasks, future'[u] = "Failed", runs'[u] = 0
               PROVE  ~Queued(u)' /\ ~Held(u)' /\ ~CallerHolds(u)'
    BY DEF FailedGone
  <2>1. u # t /\ spc'[u] = spc[u]
    BY <1>2, <1>5
  <2>2. CASE u \in gone
    BY <2>1, <2>2, <1>4, <1>6, <1>7 DEF CallerHolds
  <2>3. CASE u \notin gone
    <3>1. ~Queued(u) /\ ~Held(u) /\ ~CallerHolds(u)
      BY <2>1, <2>3, <1>5 DEF PInv, FailedGone
    <3> QED
      BY <3>1, <2>1, <1>4, <1>7 DEF CallerHolds
  <2> QED
    BY <2>2, <2>3
<1> QED
  BY <1>9, <1>10, <1>11, <1>12, <1>13, <1>14 DEF PInv

\* ShutdownNow gives the queued tasks back.
LEMMA PlaceReturned ==
  ASSUME TInv, PInv, NEW c \in Closers, TakeQueue(c)
  PROVE  PInv'
<1>1. /\ cpc[c] = "take" /\ returned' = Elems(queue) /\ queue' = <<>>
      /\ cpc' = [cpc EXCEPT ![c] = "signal"]
      /\ UNCHANGED <<wtask, runs, spc, wpc, future, shutdown>>
  BY DEF TakeQueue, CGoto
<1>2. \A t : t \in returned' <=> Queued(t)
  BY <1>1 DEF Elems, Queued
<1>3. returned = {} /\ shutdown /\ \A d \in Closers : d # c => cpc[d] # "take"
  BY <1>1 DEF PInv, ReturnsOnce
<1>4. returned' \subseteq Tasks
  BY <1>2 DEF Queued, TInv, TaskTyped
<1>5. \A t : ~Queued(t)' /\ (Held(t)' <=> Held(t))
  BY <1>1, QueueEmptied, SameHands
<1>6. PlaceTyped'
  BY <1>1, <1>4 DEF PInv, PlaceTyped, CloseLocations
<1>7. \A d \in Closers : cpc'[d] # "take"
  BY <1>1, <1>3 DEF PInv, PlaceTyped
<1>8. ReturnsOnce' /\ NoFutureYet' /\ SettledBeforeRelease'
  BY <1>1, <1>3, <1>7 DEF PInv, ReturnsOnce, NoFutureYet, SettledBeforeRelease
<1>9. ReturnedApart'
  BY <1>1, <1>2, <1>4, <1>5, Apart DEF ReturnedApart
<1>10. PendingPlaced'
  BY <1>1, <1>2, <1>3, <1>5 DEF PInv, PendingPlaced, CallerHolds
<1>11. FailedGone'
  BY <1>1, <1>5 DEF PInv, FailedGone, CallerHolds
<1> QED
  BY <1>6, <1>8, <1>9, <1>10, <1>11 DEF PInv

\* Shutdown fails the futures of the tasks left in the queue.
LEMMA PlaceDrained ==
  ASSUME TInv, PInv, NEW c \in Closers, Drain(c)
  PROVE  PInv'
<1>1. /\ cpc[c] = "drain" /\ queue' = <<>> /\ Settle(Elems(queue), "Failed")
      /\ UNCHANGED <<wtask, runs, spc, wpc, returned, shutdown>>
  BY DEF Drain
<1>2. PICK l \in {"reap", "done"} : cpc' = [cpc EXCEPT ![c] = l]
  BY DEF Drain, CGoto
<1>3. \A t : t \in Elems(queue) <=> Queued(t)
  BY DEF Elems, Queued
<1>4. /\ future' \in [Tasks -> {"none", "Pending", "Completed", "Failed", "Cancelled"}]
      /\ \A t \in Tasks : Queued(t) => future'[t] # "Pending"
      /\ \A t \in Tasks : future'[t] = future[t]
                          \/ (Queued(t) /\ future[t] = "Pending" /\ future'[t] = "Failed")
  BY <1>1, <1>3 DEF Settle, PInv, PlaceTyped
<1>5. \A t : ~Queued(t)' /\ (Held(t)' <=> Held(t))
  BY <1>1, QueueEmptied, SameHands
<1>6. PlaceTyped'
  BY <1>1, <1>2, <1>4 DEF PInv, PlaceTyped, CloseLocations
<1>7. \A d \in Closers : cpc'[d] = "take" => cpc[d] = "take"
  BY <1>2 DEF PInv, PlaceTyped
<1>8. ReturnsOnce' /\ NoFutureYet'
  BY <1>1, <1>4, <1>7 DEF PInv, ReturnsOnce, NoFutureYet
<1>9. ReturnedApart'
  BY <1>1, <1>5 DEF PInv, PlaceTyped, ReturnedApart
<1>10. SettledBeforeRelease'
  <2>1. \A v \in Workers : wpc[v] = "finish" => wtask[v] \in Tasks
    BY DEF TInv, TaskTyped, HeldOnce
  <2> QED
    BY <1>1, <1>4, <2>1 DEF PInv, SettledBeforeRelease
<1>11. PendingPlaced'
  BY <1>1, <1>4, <1>5 DEF PInv, PendingPlaced, CallerHolds
<1>12. FailedGone'
  BY <1>1, <1>4, <1>5, Apart DEF PInv, FailedGone, CallerHolds
<1> QED
  BY <1>6, <1>8, <1>9, <1>10, <1>11, <1>12 DEF PInv

\* A closing call moves without touching the queue.
LEMMA PlaceClosing ==
  ASSUME PInv, NEW c \in Closers, NEW l \in CloseLocations, cpc' = [cpc EXCEPT ![c] = l],
         shutdown' \in BOOLEAN, shutdown => shutdown',
         l = "take" => ~shutdown /\ shutdown',
         UNCHANGED <<queue, wtask, runs, spc, wpc, future, returned>>
  PROVE  PInv'
<1>1. \A t : (Queued(t)' <=> Queued(t)) /\ (Held(t)' <=> Held(t))
  BY SameQueue, SameHands
<1>2. cpc'[c] = l /\ \A d \in Closers : d # c => cpc'[d] = cpc[d]
  BY DEF PInv, PlaceTyped
<1>3. ReturnsOnce'
  BY <1>2 DEF PInv, ReturnsOnce
<1>4. PlaceTyped'
  BY DEF PInv, PlaceTyped
<1> QED
  BY <1>1, <1>3, <1>4 DEF PInv, ReturnedApart, SettledBeforeRelease, NoFutureYet,
     PendingPlaced, FailedGone, CallerHolds

\* Every step keeps every pending task in a place, and every task that was
\* given up in none.
LEMMA PlaceStep == TInv /\ PInv /\ [Next]_vars => PInv'
<1> SUFFICES ASSUME TInv, PInv, [Next]_vars PROVE PInv'
  OBVIOUS
<1>a. /\ wpc \in [Workers -> WorkerLocations] /\ spc \in [Tasks -> SubmitLocations]
      /\ shutdown \in BOOLEAN
  BY DEF TInv, TaskTyped, PInv, PlaceTyped
<1>b. \A w \in Workers : wpc[w] \in {"get", "observe"} => wtask[w] = None
  BY DEF TInv, HeldOnce
<1>1. ASSUME NEW w \in Workers,
             \/ Loop(w) \/ Idle(w) \/ IdleActive(w) \/ IdleQueue(w) \/ Confirm(w)
             \/ Reserve(w) \/ Retire(w) \/ WaitSignaled(w) \/ WaitTimeout(w) \/ Exit(w)
             \/ ExecuteStart(w)
      PROVE  PInv'
  <2>1. \E l : l # "finish" /\ wpc' = [wpc EXCEPT ![w] = l]
    <3>1. CASE Loop(w)
      BY <3>1 DEF Loop, WGoto
    <3>2. CASE Idle(w)
      BY <3>2 DEF Idle, WGoto
    <3>3. CASE IdleActive(w)
      BY <3>3 DEF IdleActive, WGoto
    <3>4. CASE IdleQueue(w)
      BY <3>4 DEF IdleQueue, WGoto
    <3>5. CASE Confirm(w)
      BY <3>5 DEF Confirm, WGoto
    <3>6. CASE Reserve(w)
      BY <3>6 DEF Reserve, WGoto
    <3>7. CASE Retire(w)
      BY <3>7 DEF Retire, WGoto
    <3>8. CASE WaitSignaled(w)
      BY <3>8 DEF WaitSignaled, WGoto
    <3>9. CASE WaitTimeout(w)
      BY <3>9 DEF WaitTimeout, WGoto
    <3>10. CASE Exit(w)
      BY <3>10 DEF Exit
    <3>11. CASE ExecuteStart(w)
      BY <3>11 DEF ExecuteStart, WGoto
    <3> QED
      BY <1>1, <3>1, <3>2, <3>3, <3>4, <3>5, <3>6, <3>7, <3>8, <3>9, <3>10, <3>11
  <2>2. \A v \in Workers : wpc'[v] = "finish" => wpc[v] = "finish"
    BY <2>1, <1>a
  <2>3. UNCHANGED <<queue, wtask, runs, spc, future, returned, shutdown, cpc>>
    BY <1>1 DEF Loop, Idle, ReadCount, IdleActive, IdleQueue, Confirm, Reserve, Retire,
       WaitSignaled, WaitTimeout, Exit, ExecuteStart
  <2> QED
    BY <2>2, <2>3, PlaceKept
<1>2. ASSUME NEW w \in Workers, GetNextTask(w) PROVE PInv'
  <2>0. wpc[w] = "get" /\ UNCHANGED <<runs, spc, future, returned, shutdown, cpc>>
    BY <1>2 DEF GetNextTask
  <2>1. CASE UNCHANGED <<queue, wtask>> /\ (WGoto(w, "idle") \/ WGoto(w, "observe"))
    <3>1. \A v \in Workers : wpc'[v] = "finish" => wpc[v] = "finish"
      BY <2>1, <1>a DEF WGoto
    <3> QED
      BY <2>0, <2>1, <3>1, PlaceKept
  <2>2. CASE queue # <<>> /\ Pop(w)
    BY <2>0, <2>2, <1>b, PlacePopped
  <2> QED
    BY <1>2, <2>1, <2>2 DEF GetNextTask
<1>3. ASSUME NEW w \in Workers, AddQueueObserved(w) PROVE PInv'
  <2>1. wpc[w] = "observe" /\ Pop(w) /\ UNCHANGED <<runs, spc, future, returned, shutdown, cpc>>
    BY <1>3 DEF AddQueueObserved
  <2>2. queue # <<>>
    BY <2>1 DEF TInv, ObserverOwns
  <2> QED
    BY <2>1, <2>2, <1>b, PlacePopped
<1>4. ASSUME NEW w \in Workers, ExecuteCancelled(w) \/ ExecuteFinish(w) PROVE PInv'
  BY <1>4, PlaceReleased
<1>5. ASSUME NEW w \in Workers, ExecuteTask(w) PROVE PInv'
  BY <1>5, PlaceRun
<1>6. ASSUME NEW t \in Tasks,
             \/ Submit(t) \/ TakeSnapshot(t) \/ CallerStart(t) \/ CallerFinish(t)
             \/ EnsureCore(t) \/ ScaleUp(t)
      PROVE  PInv'
  <2>1. UNCHANGED <<queue, wtask, runs, future, returned, shutdown, cpc>>
    BY <1>6 DEF Submit, TakeSnapshot, CallerStart, CallerFinish, EnsureCore, ScaleUp
  <2>2. \A v \in Workers : wpc'[v] = "finish" => wpc[v] = "finish"
    <3>1. CASE UNCHANGED wpc
      BY <3>1
    <3>2. CASE EnsureCore(t) \/ ScaleUp(t)
      <4>1. PICK S \in SUBSET {w \in Workers : wpc[w] = "none"} :
              wpc' = [w \in Workers |-> IF w \in S THEN "loop" ELSE wpc[w]]
        BY <3>2 DEF EnsureCore, ScaleUp, CreateWorkers
      <4> QED
        BY <4>1
    <3> QED
      BY <1>6, <3>1, <3>2 DEF Submit, TakeSnapshot, CallerStart, CallerFinish
  <2>3. \E l \in SubmitLocations :
          /\ spc' = [spc EXCEPT ![t] = l]
          /\ \/ spc[t] \in {"none", "ensure", "lock"} /\ l \in {"nil", "raised", "ensure", "lock", "enqueue"}
             \/ spc[t] = "enqueue" /\ l = "raised"
             \/ spc[t] = "callerStart" /\ l = "callerRun"
             \/ spc[t] \in {"callerFinish", "scale"} /\ l = "done"
    BY <1>6 DEF Submit, TakeSnapshot, CallerStart, CallerFinish, EnsureCore, ScaleUp, SGoto,
       SubmitLocations
  <2> QED
    BY <2>1, <2>2, <2>3, PlaceMoved
<1>7. ASSUME NEW t \in Tasks, Enqueue(t) PROVE PInv'
  <2>0. spc[t] = "enqueue" /\ UNCHANGED <<wtask, runs, wpc, returned, shutdown, cpc>>
    BY <1>7 DEF Enqueue
  <2>1. CASE SGoto(t, "raised") /\ UNCHANGED <<queue, future>>
    <3>1. spc' = [spc EXCEPT ![t] = "raised"] /\ "raised" \in SubmitLocations
      BY <2>1 DEF SGoto, SubmitLocations
    <3> QED
      BY <2>0, <2>1, <3>1, PlaceMoved
  <2>2. CASE RunInCaller(t)
    BY <2>0, <2>2, PlaceAside DEF RunInCaller
  <2>3. CASE future' = [future EXCEPT ![t] = "Failed"] /\ SGoto(t, "done") /\ UNCHANGED queue
    BY <2>0, <2>3, PlaceAside
  <2>4. CASE Accept(t, {}) /\ Push(t, queue)
    BY <2>0, <2>4, PlacePushed
  <2>5. CASE queue # <<>> /\ Accept(t, {Head(queue)}) /\ Push(t, Tail(queue))
    BY <2>0, <2>5, PlacePushed
  <2> QED
    BY <1>7, <2>1, <2>2, <2>3, <2>4, <2>5 DEF Enqueue, Reject
<1>8. ASSUME NEW t \in Tasks, CallerRun(t) PROVE PInv'
  BY <1>8, PlaceCallerRun
<1>9. ASSUME NEW t \in Tasks, CancelFuture(t) PROVE PInv'
  BY <1>9, PlaceCancelled
<1>10. ASSUME NEW t \in Tasks, CancelToken(t) PROVE PInv'
  BY <1>10, PlaceKept DEF CancelToken
<1>11. ASSUME NEW c \in Closers, TakeQueue(c) PROVE PInv'
  BY <1>11, PlaceReturned
<1>12. ASSUME NEW c \in Closers, Drain(c) PROVE PInv'
  BY <1>12, PlaceDrained
<1>13. ASSUME NEW c \in Closers, SignalAll(c) \/ AwaitTermination(c) \/ Reap(c) PROVE PInv'
  <2>1. UNCHANGED <<queue, wtask, runs, spc, wpc, future, returned, shutdown>>
    BY <1>13 DEF SignalAll, AwaitTermination, Reap
  <2>2. \E l \in CloseLocations : cpc' = [cpc EXCEPT ![c] = l] /\ l # "take"
    BY <1>13 DEF SignalAll, AwaitTermination, Reap, CGoto, CloseLocations
  <2> QED
    BY <2>1, <2>2, <1>a, PlaceClosing
<1>14. ASSUME NEW c \in Closers, Close(c) PROVE PInv'
  <2>1. UNCHANGED <<queue, wtask, runs, spc, wpc, future, returned>> /\ shutdown' = TRUE
    BY <1>14 DEF Close
  <2>2. PICK o \in MayClose :
          CGoto(c, IF shutdown THEN (IF o = "Destroy" THEN "reap" ELSE "done")
                   ELSE IF o = "ShutdownNow" THEN "take" ELSE "signal")
    BY <1>14 DEF Close
  <2>3. \E l \in CloseLocations : cpc' = [cpc EXCEPT ![c] = l] /\ (l = "take" => ~shutdown)
    BY <2>2 DEF CGoto, CloseLocations
  <2> QED
    BY <2>1, <2>3, PlaceClosing
<1>15. CASE UNCHANGED vars
  BY <1>15, PlaceKept DEF vars
<1> QED
  BY <1>1, <1>2, <1>3, <1>4, <1>5, <1>6, <1>7, <1>8, <1>9, <1>10, <1>11, <1>12, <1>13, <1>14, <1>15
  DEF Next, WorkerStep, SubmitStep, CloseStep

\* The constructor leaves no task anywhere.
LEMMA TaskInit == Init => TInv /\ PInv
<1> SUFFICES ASSUME Init PROVE TInv /\ PInv
  OBVIOUS
<1>1. TInv
  BY PoolAssumption DEF Init, TInv, TaskTyped, RunsAtMostOnce, QueueFresh, HeldOnce, NotYetRun,
     ObserverOwns, WorkerLocations, SubmitLocations
<1>2. PlaceTyped /\ ReturnsOnce /\ ReturnedApart /\ NoFutureYet
  BY DEF Init, PlaceTyped, ReturnsOnce, ReturnedApart, NoFutureYet, CloseLocations
<1>3. SettledBeforeRelease /\ PendingPlaced /\ FailedGone
  BY DEF Init, SettledBeforeRelease, PendingPlaced, FailedGone
<1> QED
  BY <1>1, <1>2, <1>3 DEF PInv

\* The item of a task is in one place at most, and in one while its future is
\* pending: counting the queue, the workers, the callers and the returned list.
LEMMA PlacesCounted == TInv /\ PInv => OnePlace
<1> SUFFICES ASSUME TInv, PInv, NEW t \in Tasks
             PROVE  Places(t) <= 1 /\ (future[t] = "Pending" => Places(t) = 1)
  BY DEF OnePlace
<1> DEFINE Q == {i \in 1..Len(queue) : queue[i] = t}
           H == {w \in Workers : wtask[w] = t}
<1>1. /\ Cardinality(Q) = IF Queued(t) THEN 1 ELSE 0
  <2>1. CASE Queued(t)
    <3>1. PICK i \in 1..Len(queue) : queue[i] = t
      BY <2>1 DEF Queued
    <3>2. Q = {i}
      BY <3>1 DEF TInv, QueueFresh
    <3>3. Cardinality({i}) = 1
      BY FS_Singleton
    <3> QED
      BY <2>1, <3>2, <3>3
  <2>2. CASE ~Queued(t)
    <3>1. Q = {}
      BY <2>2 DEF Queued
    <3> QED
      BY <2>2, <3>1, FS_EmptySet
  <2> QED
    BY <2>1, <2>2
<1>2. /\ Cardinality(H) = IF Held(t) THEN 1 ELSE 0
  <2>0. t # None
    BY PoolAssumption
  <2>1. CASE Held(t)
    <3>1. PICK w \in Workers : wtask[w] = t
      BY <2>1 DEF Held
    <3>2. H = {w}
      BY <2>0, <3>1 DEF TInv, HeldOnce
    <3>3. Cardinality({w}) = 1
      BY FS_Singleton
    <3> QED
      BY <2>1, <3>2, <3>3
  <2>2. CASE ~Held(t)
    <3>1. H = {}
      BY <2>2 DEF Held
    <3> QED
      BY <2>2, <3>1, FS_EmptySet
  <2> QED
    BY <2>1, <2>2
<1>3. Places(t) = Cardinality(Q) + Cardinality(H) + (IF CallerHolds(t) THEN 1 ELSE 0)
                    + (IF t \in returned THEN 1 ELSE 0)
  BY DEF Places
<1>4. /\ Queued(t) => ~Held(t) /\ ~CallerHolds(t)
      /\ Held(t) => ~CallerHolds(t)
  BY Apart DEF CallerHolds
<1>5. t \in returned => ~Queued(t) /\ ~Held(t) /\ ~CallerHolds(t)
  BY DEF PInv, ReturnedApart, CallerHolds
<1>6. future[t] = "Pending" => Queued(t) \/ Held(t) \/ CallerHolds(t) \/ t \in returned
  BY DEF PInv, PendingPlaced
<1> HIDE DEF Q, H
<1> QED
  BY <1>1, <1>2, <1>3, <1>4, <1>5, <1>6

\* A task item is never lost and never in two places, between Submit, the
\* workers, CallerRuns, the rejection policies, Shutdown and ShutdownNow.
THEOREM NeverLostNorDuplicated == Spec => []OnePlace
BY TaskInit, TaskStep, PlaceStep, PlacesCounted, PTL DEF Spec

\* A task that was discarded, failed by Shutdown or given back by ShutdownNow
\* is not run afterwards, by a worker or by a caller.
THEOREM RejectedStaysUnrun == Spec => RejectedNeverRuns
<1> DEFINE Unrun == \A t \in Tasks : t \in returned \/ (future[t] = "Failed" /\ runs[t] = 0)
                                       => runs'[t] = 0
<1>1. TInv /\ PInv /\ [Next]_vars => Unrun
  <2> SUFFICES ASSUME TInv, PInv, [Next]_vars, NEW t \in Tasks,
                      t \in returned \/ (future[t] = "Failed" /\ runs[t] = 0)
               PROVE  runs'[t] = 0
    OBVIOUS
  <2>1. runs[t] = 0 /\ ~Held(t) /\ ~CallerHolds(t)
    BY DEF PInv, ReturnedApart, FailedGone, CallerHolds
  <2>2. CASE UNCHANGED runs
    BY <2>1, <2>2
  <2>3. ASSUME NEW w \in Workers, ExecuteTask(w) PROVE runs'[t] = 0
    <3>1. wtask[w] # t
      BY <2>1 DEF Held
    <3>2. runs' = [runs EXCEPT ![wtask[w]] = @ + 1]
      BY <2>3 DEF ExecuteTask, Perform
    <3> QED
      BY <2>1, <3>1, <3>2 DEF TInv, TaskTyped
  <2>4. ASSUME NEW u \in Tasks, CallerRun(u) PROVE runs'[t] = 0
    <3>1. spc[u] = "callerRun" /\ runs' = [runs EXCEPT ![u] = @ + 1]
      BY <2>4 DEF CallerRun, Perform
    <3>2. u # t
      BY <2>1, <3>1 DEF CallerHolds
    <3> QED
      BY <2>1, <3>1, <3>2 DEF TInv, TaskTyped
  <2>5. ASSUME NEW w \in Workers, WorkerStep(w), ~ExecuteTask(w) PROVE UNCHANGED runs
    BY <2>5 DEF WorkerStep, Loop, GetNextTask, AddQueueObserved, ExecuteCancelled, ExecuteStart,
       ExecuteFinish, Idle, IdleActive, IdleQueue, Confirm, Reserve, Retire, WaitSignaled,
       WaitTimeout, Exit
  <2>6. ASSUME NEW u \in Tasks, SubmitStep(u), ~CallerRun(u) PROVE UNCHANGED runs
    BY <2>6 DEF SubmitStep, EnsureCore, TakeSnapshot, Enqueue, CallerStart, CallerFinish, ScaleUp
  <2>7. ASSUME NEW u \in Tasks, Submit(u) \/ CancelFuture(u) \/ CancelToken(u) PROVE UNCHANGED runs
    BY <2>7 DEF Submit, CancelFuture, CancelToken
  <2>8. ASSUME NEW c \in Closers, Close(c) \/ CloseStep(c) PROVE UNCHANGED runs
    BY <2>8 DEF Close, CloseStep, TakeQueue, SignalAll, AwaitTermination, Drain, Reap
  <2>9. UNCHANGED vars => UNCHANGED runs
    BY DEF vars
  <2> QED
    BY <2>2, <2>3, <2>4, <2>5, <2>6, <2>7, <2>8, <2>9 DEF Next
<1> QED
  BY <1>1, TaskInit, TaskStep, PlaceStep, PTL DEF Spec, RejectedNeverRuns

-----------------------------------------------------------------------------
(* The queue keeps to its bound *)

\* The variables the other invariants do not type.
RestTyped ==
  /\ policy \in Policies
  /\ taskEvent \in BOOLEAN /\ destroyed \in BOOLEAN
  /\ reserved \in Nat
  /\ flock \in Tasks \cup {None} /\ qlock \in Workers \cup {None}
  /\ wstop \in [Workers -> BOOLEAN]
  /\ wcount \in [Workers -> Nat]
  /\ late \in [Workers -> BOOLEAN]
  /\ snap \in [Tasks -> [active : Nat, workers : Nat, queue : Nat]]
  /\ token \in [Tasks -> BOOLEAN]
  /\ cop \in [Closers -> MayClose \cup {"none"}]

\* The Submit that decides on its snapshot owns FLock.  The snapshot is never too
\* small: meanwhile the queue only shrinks.
SnapshotSafe ==
  \A t \in Tasks : spc[t] = "enqueue" =>
    flock = t /\ snap[t].workers <= Max /\ Len(queue) <= snap[t].queue

WInv == RestTyped /\ SnapshotSafe

\* Every step keeps the remaining variables typed.
LEMMA RestStep ==
  ASSUME LInv, AInv, TInv, PInv, RestTyped, [Next]_vars
  PROVE  RestTyped'
<1>a. /\ active \in Nat /\ Cardinality(workers) \in Nat /\ Len(queue) \in Nat
      /\ shutdown \in BOOLEAN
  BY FiniteWorkers DEF LInv, ListTyped, AInv, ActiveTyped, TInv, TaskTyped
<1> USE DEF RestTyped
<1>1. ASSUME NEW w \in Workers, Loop(w) PROVE RestTyped'
  BY <1>1 DEF Loop
<1>2. ASSUME NEW w \in Workers, Idle(w) \/ WaitTimeout(w) PROVE RestTyped'
  BY <1>2, <1>a DEF Idle, WaitTimeout, ReadCount
<1>3. ASSUME NEW w \in Workers, GetNextTask(w) \/ AddQueueObserved(w) PROVE RestTyped'
  <2>1. /\ qlock' \in {qlock, w, None}
        /\ UNCHANGED <<policy, taskEvent, destroyed, reserved, flock, wstop, wcount, late, snap,
                       token, cop>>
    BY <1>3 DEF GetNextTask, AddQueueObserved, Pop
  <2> QED
    BY <2>1
<1>4. ASSUME NEW w \in Workers, Reserve(w) PROVE RestTyped'
  BY <1>4 DEF Reserve
<1>5. ASSUME NEW w \in Workers, Retire(w) \/ Exit(w) PROVE RestTyped'
  <2>1. reserved' \in Nat
    BY <1>5 DEF Retire, Exit, RemoveWorker
  <2>2. UNCHANGED <<policy, destroyed, flock, qlock, snap, token, cop>>
    BY <1>5 DEF Retire, Exit
  <2>3. taskEvent' \in BOOLEAN
    BY <1>5 DEF Retire, Exit
  <2>4. /\ wstop' \in [Workers -> BOOLEAN] /\ wcount' \in [Workers -> Nat]
        /\ late' \in [Workers -> BOOLEAN]
    <3>1. CASE Retire(w)
      BY <3>1 DEF Retire
    <3>2. CASE Exit(w)
      BY <3>2 DEF Exit
    <3> QED
      BY <1>5, <3>1, <3>2
  <2> QED
    BY <2>1, <2>2, <2>3, <2>4
<1>6. ASSUME NEW t \in Tasks, TakeSnapshot(t) PROVE RestTyped'
  <2>1. /\ flock' = t
        /\ snap' = [snap EXCEPT ![t] = [active |-> active, workers |-> Cardinality(workers),
                                        queue |-> Len(queue)]]
        /\ UNCHANGED <<policy, taskEvent, destroyed, reserved, qlock, wstop, wcount, late,
                       token, cop>>
    BY <1>6 DEF TakeSnapshot
  <2>2. [active |-> active, workers |-> Cardinality(workers), queue |-> Len(queue)]
          \in [active : Nat, workers : Nat, queue : Nat]
    BY <1>a
  <2>3. snap' \in [Tasks -> [active : Nat, workers : Nat, queue : Nat]]
    BY <2>1, <2>2
  <2> QED
    BY <2>1, <2>3
<1>7. ASSUME NEW t \in Tasks, Enqueue(t) PROVE RestTyped'
  <2>1. /\ flock' = None
        /\ UNCHANGED <<policy, destroyed, reserved, qlock, wstop, wcount, late, snap, token, cop>>
    BY <1>7 DEF Enqueue
  <2>2. taskEvent' \in BOOLEAN
    BY <1>7 DEF Enqueue, Reject, RunInCaller, Push
  <2> QED
    BY <2>1, <2>2
<1>8. ASSUME NEW t \in Tasks,
             \/ Submit(t) \/ EnsureCore(t) \/ CallerStart(t) \/ CallerRun(t) \/ CallerFinish(t)
             \/ ScaleUp(t) \/ CancelFuture(t)
      PROVE  RestTyped'
  BY <1>8 DEF Submit, EnsureCore, CallerStart, CallerRun, CallerFinish, ScaleUp, CancelFuture
<1>9. ASSUME NEW t \in Tasks, CancelToken(t) PROVE RestTyped'
  BY <1>9 DEF CancelToken
<1>10. ASSUME NEW c \in Closers, Close(c) PROVE RestTyped'
  <2>1. PICK o \in MayClose : cop' = [cop EXCEPT ![c] = o]
    BY <1>10 DEF Close
  <2>2. /\ wstop' = [w \in Workers |-> wstop[w] \/ (~shutdown /\ w \in workers)]
        /\ UNCHANGED <<policy, taskEvent, destroyed, reserved, flock, qlock, wcount, late, snap,
                       token>>
    BY <1>10 DEF Close
  <2>3. wstop' \in [Workers -> BOOLEAN]
    BY <2>2, Zenon
  <2>4. cop' \in [Closers -> MayClose \cup {"none"}]
    BY <2>1
  <2> QED
    BY <2>2, <2>3, <2>4
<1>11. ASSUME NEW c \in Closers, CloseStep(c) PROVE RestTyped'
  BY <1>11 DEF CloseStep, TakeQueue, SignalAll, AwaitTermination, Drain, Reap
<1>12. CASE UNCHANGED vars
  BY <1>12 DEF vars
<1>13. ASSUME NEW w \in Workers,
              \/ IdleActive(w) \/ IdleQueue(w) \/ Confirm(w) \/ WaitSignaled(w) \/ ExecuteStart(w)
              \/ ExecuteCancelled(w) \/ ExecuteTask(w) \/ ExecuteFinish(w)
       PROVE  RestTyped'
  <2>1. /\ taskEvent' \in {taskEvent, FALSE}
        /\ UNCHANGED <<policy, destroyed, reserved, flock, qlock, wstop, wcount, late, snap, token, cop>>
    BY <1>13 DEF IdleActive, IdleQueue, Confirm, WaitSignaled, ExecuteStart, ExecuteCancelled,
       ExecuteTask, ExecuteFinish
  <2> QED
    BY <2>1
<1> QED
  BY <1>1, <1>2, <1>3, <1>4, <1>5, <1>6, <1>7, <1>8, <1>9, <1>10, <1>11, <1>12, <1>13
  DEF Next, WorkerStep, SubmitStep

\* A step of anything but a Submit that decides: FLock and the snapshots stay, and
\* the queue does not grow.
QueueNotLonger ==
  /\ UNCHANGED <<flock, snap>>
  /\ \A t \in Tasks : spc'[t] = "enqueue" => spc[t] = "enqueue"
  /\ Len(queue') <= Len(queue)

\* Only TakeSnapshot and Enqueue take FLock, read the counters or add to the
\* queue.
LEMMA OtherSteps ==
  ASSUME TInv, [Next]_vars, \A t \in Tasks : ~TakeSnapshot(t) /\ ~Enqueue(t)
  PROVE  QueueNotLonger
<1>a. /\ queue \in Seq(Tasks) /\ Len(queue) \in Nat /\ spc \in [Tasks -> SubmitLocations]
  BY DEF TInv, TaskTyped
<1>1. ASSUME UNCHANGED <<flock, snap, spc, queue>> PROVE QueueNotLonger
  BY <1>1, <1>a DEF QueueNotLonger
<1>2. ASSUME UNCHANGED <<flock, snap, spc>>, queue # <<>>, queue' = Tail(queue) PROVE QueueNotLonger
  BY <1>2, <1>a DEF QueueNotLonger
<1>3. ASSUME UNCHANGED <<flock, snap, queue>>, NEW t \in Tasks, NEW l, l # "enqueue", SGoto(t, l)
      PROVE  QueueNotLonger
  BY <1>3, <1>a DEF QueueNotLonger, SGoto
<1>4. ASSUME UNCHANGED <<flock, snap, spc>>, queue' = <<>> PROVE QueueNotLonger
  BY <1>4, <1>a DEF QueueNotLonger
<1>5. ASSUME NEW w \in Workers, WorkerStep(w), ~GetNextTask(w), ~AddQueueObserved(w)
      PROVE  QueueNotLonger
  BY <1>5, <1>1 DEF WorkerStep, Loop, ExecuteCancelled, ExecuteStart, ExecuteTask, ExecuteFinish,
     Idle, IdleActive, IdleQueue, Confirm, Reserve, Retire, WaitSignaled, WaitTimeout, Exit
<1>6. ASSUME NEW w \in Workers, GetNextTask(w) PROVE QueueNotLonger
  <2>1. UNCHANGED <<flock, snap, spc>> /\ (UNCHANGED queue \/ (queue # <<>> /\ queue' = Tail(queue)))
    BY <1>6 DEF GetNextTask, Pop
  <2> QED
    BY <2>1, <1>1, <1>2
<1>7. ASSUME NEW w \in Workers, AddQueueObserved(w) PROVE QueueNotLonger
  <2>1. UNCHANGED <<flock, snap, spc>> /\ queue' = Tail(queue) /\ wpc[w] = "observe"
    BY <1>7 DEF AddQueueObserved, Pop
  <2>2. queue # <<>>
    BY <2>1 DEF TInv, ObserverOwns
  <2> QED
    BY <2>1, <2>2, <1>2
<1>8. ASSUME NEW t \in Tasks,
             \/ Submit(t) \/ EnsureCore(t) \/ CallerStart(t) \/ CallerRun(t) \/ CallerFinish(t)
             \/ ScaleUp(t)
      PROVE  QueueNotLonger
  <2>1. UNCHANGED <<flock, snap, queue>> /\ \E l : l # "enqueue" /\ SGoto(t, l)
    BY <1>8 DEF Submit, EnsureCore, CallerStart, CallerRun, CallerFinish, ScaleUp
  <2> QED
    BY <2>1, <1>3
<1>9. ASSUME NEW t \in Tasks, CancelFuture(t) \/ CancelToken(t) PROVE QueueNotLonger
  BY <1>9, <1>1 DEF CancelFuture, CancelToken
<1>10. ASSUME NEW c \in Closers, TakeQueue(c) \/ Drain(c) PROVE QueueNotLonger
  BY <1>10, <1>4 DEF TakeQueue, Drain
<1>11. ASSUME NEW c \in Closers, Close(c) \/ SignalAll(c) \/ AwaitTermination(c) \/ Reap(c)
       PROVE  QueueNotLonger
  BY <1>11, <1>1 DEF Close, SignalAll, AwaitTermination, Reap
<1>12. CASE UNCHANGED vars
  BY <1>12, <1>1 DEF vars
<1> QED
  BY <1>5, <1>6, <1>7, <1>8, <1>9, <1>10, <1>11, <1>12 DEF Next, SubmitStep, CloseStep

\* Every step keeps the snapshot of the deciding Submit an upper bound.
LEMMA SnapshotStep ==
  ASSUME LInv, AInv, TInv, WInv, [Next]_vars
  PROVE  SnapshotSafe'
<1>a. /\ spc \in [Tasks -> SubmitLocations] /\ queue \in Seq(Tasks)
      /\ snap \in [Tasks -> [active : Nat, workers : Nat, queue : Nat]]
  BY DEF TInv, TaskTyped, WInv, RestTyped
<1>1. ASSUME NEW u \in Tasks, TakeSnapshot(u) PROVE SnapshotSafe'
  <2>1. /\ flock = None /\ flock' = u /\ queue' = queue
        /\ snap' = [snap EXCEPT ![u] = [active |-> active, workers |-> Cardinality(workers),
                                        queue |-> Len(queue)]]
        /\ spc' = [spc EXCEPT ![u] = "enqueue"]
    BY <1>1 DEF TakeSnapshot, FLockFree, SGoto
  <2>2. \A t \in Tasks : spc'[t] = "enqueue" => t = u
    BY <2>1, <1>a, PoolAssumption DEF WInv, SnapshotSafe
  <2>3. Cardinality(workers) \in Nat /\ Cardinality(workers) <= Max
    BY FiniteWorkers DEF LInv, ListTyped, ListAgrees, PoolBounded
  <2>4. snap'[u].workers = Cardinality(workers) /\ snap'[u].queue = Len(queue)
    BY <2>1, <1>a
  <2>5. Len(queue) \in Nat
    BY <1>a
  <2> QED
    BY <2>1, <2>2, <2>3, <2>4, <2>5 DEF SnapshotSafe
<1>2. ASSUME NEW u \in Tasks, Enqueue(u) PROVE SnapshotSafe'
  <2>1. spc[u] = "enqueue"
    BY <1>2 DEF Enqueue
  <2>2. \E l \in {"raised", "callerStart", "done", "scale"} : spc' = [spc EXCEPT ![u] = l]
    BY <1>2 DEF Enqueue, Reject, RunInCaller, Push, SGoto
  <2>3. \A t \in Tasks : spc'[t] # "enqueue"
    BY <2>1, <2>2, <1>a DEF WInv, SnapshotSafe
  <2> QED
    BY <2>3 DEF SnapshotSafe
<1>3. CASE \A t \in Tasks : ~TakeSnapshot(t) /\ ~Enqueue(t)
  <2>1. QueueNotLonger
    BY <1>3, OtherSteps
  <2>2. Len(queue) \in Nat /\ Len(queue') \in Nat /\ \A t \in Tasks : snap[t].queue \in Nat
    <3>1. TInv'
      BY TaskStep
    <3> QED
      BY <3>1, <1>a DEF TInv, TaskTyped
  <2> QED
    BY <2>1, <2>2 DEF QueueNotLonger, WInv, SnapshotSafe
<1> QED
  BY <1>1, <1>2, <1>3

\* A Submit that queues its task keeps the queue within its bound: where the queue is
\* full, DiscardOldest has made room first.
LEMMA BoundStep ==
  ASSUME Capacity # 0 \/ Max # 0, LInv, TInv, WInv, QueueBounded, [Next]_vars
  PROVE  QueueBounded'
<1>a. queue \in Seq(Tasks) /\ Len(queue) \in Nat /\ Capacity \in Int /\ Max \in Nat
  BY PoolAssumption DEF TInv, TaskTyped
<1>1. ASSUME NEW t \in Tasks, Enqueue(t) PROVE QueueBounded'
  <2>1. /\ snap[t].workers <= Max /\ Len(queue) <= snap[t].queue
        /\ snap[t].workers \in Nat /\ snap[t].active \in Nat /\ snap[t].queue \in Nat
    BY <1>1 DEF Enqueue, WInv, SnapshotSafe, RestTyped
  <2>2. CASE UNCHANGED queue
    BY <2>2 DEF QueueBounded
  <2>3. CASE ~Full(t) /\ Push(t, queue)
    <3>1. Len(queue') = Len(queue) + 1
      BY <2>3, <1>a DEF Push
    <3>2. Capacity >= 0 => AtLeast0(snap[t].queue + 1 - AtLeast0(snap[t].workers - snap[t].active))
                             <= Capacity
      BY <2>1, <2>3, <1>a DEF Full, EffectiveAfterEnqueue, IdleWorkers
    <3>3. Capacity >= 0 => snap[t].queue + 1 <= Capacity + Max
      BY <2>1, <3>2, <1>a, SMTT(30)
    <3> QED
      BY <2>1, <3>1, <3>3, <1>a DEF QueueBounded
  <2>4. CASE queue = <<>> /\ Push(t, queue)
    <3>1. Len(queue') = 1
      BY <2>4, <1>a DEF Push
    <3> QED
      BY <3>1, <1>a DEF QueueBounded
  <2>5. CASE queue # <<>> /\ Push(t, Tail(queue))
    <3>1. Tail(queue) \in Seq(Tasks) /\ Len(Tail(queue)) = Len(queue) - 1
      BY <2>5, <1>a
    <3>2. queue' = Append(Tail(queue), t)
      BY <2>5 DEF Push
    <3>3. Len(queue') = Len(queue)
      BY <3>1, <3>2, <1>a
    <3> QED
      BY <3>3 DEF QueueBounded
  <2> QED
    BY <1>1, <2>2, <2>3, <2>4, <2>5 DEF Enqueue, Reject, RunInCaller
<1>2. ASSUME NEW t \in Tasks, TakeSnapshot(t) PROVE QueueBounded'
  BY <1>2 DEF TakeSnapshot, QueueBounded
<1>3. CASE \A t \in Tasks : ~TakeSnapshot(t) /\ ~Enqueue(t)
  <2>1. Len(queue') <= Len(queue)
    BY <1>3, OtherSteps DEF QueueNotLonger
  <2>2. Len(queue') \in Nat
    <3>1. TInv'
      BY TaskStep
    <3> QED
      BY <3>1 DEF TInv, TaskTyped
  <2> QED
    BY <2>1, <2>2, <1>a DEF QueueBounded
<1> QED
  BY <1>1, <1>2, <1>3

\* However stale the snapshot a Submit decides on, a bounded queue holds at most
\* its capacity and one task per thread, and every counter and location has its
\* type.  A pool that may have neither threads nor queued tasks is left out:
\* there DiscardOldest queues one task.
THEOREM PoolStaysWellFormed ==
  ASSUME Capacity # 0 \/ Max # 0
  PROVE  Spec => []WellFormed
<1> DEFINE All == LInv /\ AInv /\ TInv /\ PInv /\ WInv /\ QueueBounded
<1>1. Init => All
  <2> SUFFICES ASSUME Init PROVE All
    OBVIOUS
  <2>1. RestTyped
    BY PoolAssumption DEF Init, RestTyped
  <2>2. SnapshotSafe /\ QueueBounded
    BY PoolAssumption DEF Init, SnapshotSafe, QueueBounded
  <2> QED
    BY <2>1, <2>2, ListInit, ActiveInit, TaskInit DEF WInv
<1>2. All /\ [Next]_vars => All'
  BY ListStep, ActiveStep, TaskStep, PlaceStep, RestStep, SnapshotStep, BoundStep DEF WInv
<1>3. All => WellFormed
  BY DEF WellFormed, TypeOK, LInv, ListTyped, AInv, ActiveTyped, TInv, TaskTyped, PInv,
     PlaceTyped, WInv, RestTyped
<1> HIDE DEF All
<1> QED
  BY <1>1, <1>2, <1>3, PTL DEF Spec
=============================================================================
