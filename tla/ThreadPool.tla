----------------------------- MODULE ThreadPool -----------------------------
(***************************************************************************)
(* TThreadPool and its TWorkerThreads                                      *)
(* (fafafa.core.thread.threadpool.pas).                                    *)
(*                                                                         *)
(* Two mutexes protect the pool: FLock the thread list and the counters,   *)
(* FQueueLock the task queue.  A section under one lock is one step.  Two  *)
(* places hold a lock while they wait for the other one, and only for them *)
(* the owner is part of the state: SubmitTaskItem (FLock, then FQueueLock) *)
(* and GetNextTask with metrics switched on (FQueueLock, then FLock in     *)
(* AddQueueObserved).                                                      *)
(*                                                                         *)
(* Every task is submitted once, by a thread named after it.  A worker     *)
(* name is a thread slot: it is free again when its thread has ended.      *)
(* A task's future is reduced to what the pool and its user do with it     *)
(* (module Future has the details).                                        *)
(***************************************************************************)
EXTENDS Integers, Sequences, FiniteSets

CONSTANTS
  Tasks,         \* tasks, and the threads that submit them
  TokenTasks,    \* the tasks submitted with a cancellation token
  Workers,       \* worker thread slots
  Closers,       \* the threads that close the pool
  MayClose,      \* what they may call: Shutdown, ShutdownNow, Destroy
  Core, Max,     \* FCorePoolSize, FMaxPoolSize
  Capacity,      \* FQueueCapacity, -1 for an unlimited queue
  Policies,      \* the values FRejectPolicy may have
  KeepAlive,     \* whether FKeepAliveTimeMs > 0
  ObsMetrics,    \* GPoolObsMetricsEnabled
  AwaitExpires,  \* whether a task can outlast AwaitTermination(5000)
  None

ASSUME PoolAssumption ==
  /\ TokenTasks \subseteq Tasks
  /\ Core \in Nat /\ Max \in Nat /\ Core <= Max
  /\ Capacity \in Int /\ Capacity >= -1
  /\ Policies \subseteq {"Abort", "CallerRuns", "Discard", "DiscardOldest"}
  /\ MayClose \subseteq {"Shutdown", "ShutdownNow", "Destroy"}
  /\ KeepAlive \in BOOLEAN /\ ObsMetrics \in BOOLEAN /\ AwaitExpires \in BOOLEAN
  /\ None \notin Tasks \cup Workers
  /\ IsFiniteSet(Tasks) /\ IsFiniteSet(Workers) /\ Cardinality(Workers) >= Max

VARIABLES
  policy,        \* FRejectPolicy
  queue,         \* FTaskQueue
  taskEvent,     \* FTaskAvailableEvent (auto-reset)
  workers,       \* FWorkerThreads
  alive,         \* FAliveThreads
  reserved,      \* FShrinkReservations
  active,        \* FActiveCount
  shutdown,      \* FShutdown
  terminated,    \* FTerminated, and FTerminationEvent set with it
  destroyed,     \* TThreadPool.Destroy has freed the fields
  flock, qlock,  \* owner of FLock and of FQueueLock, where it matters
  wpc,           \* where each worker stands in Execute
  wtask,         \* LTask
  wstop,         \* TWorkerThread.FShutdown
  wcount,        \* LCount, the pool size the worker read
  late,          \* whether it shrinks on the path after a wait timeout
  spc,           \* where each Submit stands
  snap,          \* LActiveSnap, LWorkersSnap, LQueueLen
  future,        \* the task's future; "none" before Submit accepts the task
  runs,          \* how often the task ran
  token,         \* whether the task's token is cancelled
  cpc, cop,      \* where each closing call stands, and which call it is
  returned       \* the tasks ShutdownNow gave back

lists   == <<workers, alive, reserved>>
life    == <<shutdown, terminated, destroyed>>
locks   == <<flock, qlock>>
wlocals == <<wtask, wstop, wcount, late>>
svars   == <<spc, snap>>
cvars   == <<cpc, cop, returned>>
vars    == <<policy, queue, taskEvent, lists, active, life, locks, wpc, wlocals,
             svars, future, runs, token, cvars>>

WorkerLocations == {"none", "loop", "get", "observe", "take", "run", "finish",
                    "idle", "idleActive", "idleQueue", "confirm", "reserve",
                    "retire", "wait", "exit"}
SubmitLocations == {"none", "ensure", "lock", "enqueue", "callerStart",
                    "callerRun", "callerFinish", "scale", "done", "raised", "nil"}
CloseLocations  == {"none", "take", "signal", "await", "drain", "reap", "done"}

Elems(s) == {s[i] : i \in 1..Len(s)}
AtLeast0(n) == IF n < 0 THEN 0 ELSE n

TypeOK ==
  /\ policy \in Policies
  /\ queue \in Seq(Tasks)
  /\ taskEvent \in BOOLEAN
  /\ shutdown \in BOOLEAN /\ terminated \in BOOLEAN /\ destroyed \in BOOLEAN
  /\ workers \subseteq Workers
  /\ alive \in Nat /\ reserved \in Nat /\ active \in Nat
  /\ flock \in Tasks \cup {None} /\ qlock \in Workers \cup {None}
  /\ wpc \in [Workers -> WorkerLocations]
  /\ wtask \in [Workers -> Tasks \cup {None}]
  /\ wstop \in [Workers -> BOOLEAN]
  /\ wcount \in [Workers -> Nat]
  /\ late \in [Workers -> BOOLEAN]
  /\ spc \in [Tasks -> SubmitLocations]
  /\ snap \in [Tasks -> [active : Nat, workers : Nat, queue : Nat]]
  /\ future \in [Tasks -> {"none", "Pending", "Completed", "Failed", "Cancelled"}]
  /\ runs \in [Tasks -> Nat]
  /\ token \in [Tasks -> BOOLEAN]
  /\ cpc \in [Closers -> CloseLocations]
  /\ cop \in [Closers -> MayClose \cup {"none"}]
  /\ returned \subseteq Tasks

\* TThreadPool.Create: the constructor starts the core threads.
Init ==
  /\ policy \in Policies
  /\ queue = <<>>
  /\ taskEvent = FALSE
  /\ workers \in {S \in SUBSET Workers : Cardinality(S) = Core}
  /\ alive = Core
  /\ reserved = 0
  /\ active = 0
  /\ shutdown = FALSE /\ terminated = FALSE /\ destroyed = FALSE
  /\ flock = None /\ qlock = None
  /\ wpc = [w \in Workers |-> IF w \in workers THEN "loop" ELSE "none"]
  /\ wtask = [w \in Workers |-> None]
  /\ wstop = [w \in Workers |-> FALSE]
  /\ wcount = [w \in Workers |-> 0]
  /\ late = [w \in Workers |-> FALSE]
  /\ spc = [t \in Tasks |-> "none"]
  /\ snap = [t \in Tasks |-> [active |-> 0, workers |-> 0, queue |-> 0]]
  /\ future = [t \in Tasks |-> "none"]
  /\ runs = [t \in Tasks |-> 0]
  /\ token = [t \in Tasks |-> FALSE]
  /\ cpc = [c \in Closers |-> "none"]
  /\ cop = [c \in Closers |-> "none"]
  /\ returned = {}

-----------------------------------------------------------------------------
(* Futures and tokens *)

\* Complete, Fail and Cancel change a pending future only.  The exception
\* Complete raises on a cancelled one ends in Fail, which changes nothing.
Settle(S, s) ==
  future' = [t \in Tasks |-> IF t \in S /\ future[t] = "Pending" THEN s ELSE future[t]]

\* The task body returns True, returns False or raises.
Perform(t) ==
  /\ runs' = [runs EXCEPT ![t] = @ + 1]
  /\ \E s \in {"Completed", "Failed"} : Settle({t}, s)

\* The user cancels the future Submit returned.
CancelFuture(t) ==
  /\ spc[t] = "done" /\ future[t] = "Pending"
  /\ Settle({t}, "Cancelled")
  /\ UNCHANGED <<policy, queue, taskEvent, lists, active, life, locks, wpc,
                 wlocals, svars, runs, token, cvars>>

\* CancelInternal: the user cancels the token.
CancelToken(t) ==
  /\ t \in TokenTasks /\ ~token[t]
  /\ token' = [token EXCEPT ![t] = TRUE]
  /\ UNCHANGED <<policy, queue, taskEvent, lists, active, life, locks, wpc,
                 wlocals, svars, future, runs, cvars>>

-----------------------------------------------------------------------------
(* The thread list *)

FLockFree == flock = None
QLockFree == qlock = None

\* CreateWorkerThreadUnlocked, for n threads; callers hold FLock.
CreateWorkers(n) ==
  \E S \in SUBSET {w \in Workers : wpc[w] = "none"} :
    /\ Cardinality(S) = n
    /\ workers' = workers \cup S
    /\ alive' = alive + n
    /\ wpc' = [w \in Workers |-> IF w \in S THEN "loop" ELSE wpc[w]]

\* Mutant: the first thread that leaves reports termination.
RemoveWorkerEarly(w) ==
  /\ FLockFree
  /\ workers' = workers \ {w}
  /\ alive' = IF w \in workers THEN AtLeast0(alive - 1) ELSE alive
  /\ reserved' = IF w \in workers THEN AtLeast0(reserved - 1) ELSE reserved
  /\ terminated' = (terminated \/ shutdown)

\* RemoveWorkerThread, idempotent.  The section ends by looking whether the
\* pool is shut down and has no thread left.
RemoveWorker(w) ==
  /\ FLockFree
  /\ workers' = workers \ {w}
  /\ alive' = IF w \in workers THEN AtLeast0(alive - 1) ELSE alive
  /\ reserved' = IF w \in workers THEN AtLeast0(reserved - 1) ELSE reserved
  /\ terminated' = (terminated \/ (shutdown /\ alive' = 0))

\* UpdateActiveCount
UpdateActive(delta) ==
  /\ FLockFree
  /\ active' = AtLeast0(active + delta)

-----------------------------------------------------------------------------
(* TWorkerThread.Execute *)

WGoto(w, l) == wpc' = [wpc EXCEPT ![w] = l]

\* while not FShutdown.  LCount is dead here: it is read again before its use.
Loop(w) ==
  /\ wpc[w] = "loop"
  /\ WGoto(w, IF wstop[w] THEN "exit" ELSE "get")
  /\ wcount' = [wcount EXCEPT ![w] = 0]
  /\ late' = [late EXCEPT ![w] = FALSE]
  /\ UNCHANGED <<policy, queue, taskEvent, lists, active, life, locks, wtask,
                 wstop, svars, future, runs, token, cvars>>

\* Mutant: the front is read but not popped.
Peek(w) ==
  /\ wtask' = [wtask EXCEPT ![w] = Head(queue)]
  /\ queue' = queue
  /\ WGoto(w, "take")
  /\ UNCHANGED <<wstop, wcount, late>>

\* PopFront under FQueueLock.
Pop(w) ==
  /\ wtask' = [wtask EXCEPT ![w] = Head(queue)]
  /\ queue' = Tail(queue)
  /\ WGoto(w, "take")
  /\ UNCHANGED <<wstop, wcount, late>>

\* GetNextTask.  With metrics on, it keeps FQueueLock while it records how
\* long the task was queued.
GetNextTask(w) ==
  /\ wpc[w] = "get"
  /\ \/ /\ wstop[w] \/ (QLockFree /\ queue = <<>>)
        /\ WGoto(w, "idle")
        /\ UNCHANGED <<queue, wlocals, qlock>>
     \/ /\ ~wstop[w] /\ QLockFree /\ queue # <<>> /\ ~ObsMetrics
        /\ Pop(w)
        /\ UNCHANGED qlock
     \/ /\ ~wstop[w] /\ QLockFree /\ queue # <<>> /\ ObsMetrics
        /\ qlock' = w
        /\ WGoto(w, "observe")
        /\ UNCHANGED <<queue, wlocals>>
  /\ UNCHANGED <<policy, taskEvent, lists, active, life, flock, svars, future,
                 runs, token, cvars>>

\* AddQueueObserved takes FLock; then the task is popped and FQueueLock released.
AddQueueObserved(w) ==
  /\ wpc[w] = "observe"
  /\ FLockFree
  /\ Pop(w)
  /\ qlock' = None
  /\ UNCHANGED <<policy, taskEvent, lists, active, life, flock, svars, future,
                 runs, token, cvars>>

\* ExecuteTask: a task whose token is cancelled is not run, its future is
\* cancelled ...
ExecuteCancelled(w) ==
  /\ wpc[w] = "take"
  /\ token[wtask[w]]
  /\ Settle({wtask[w]}, "Cancelled")
  /\ wtask' = [wtask EXCEPT ![w] = None]
  /\ WGoto(w, "loop")
  /\ UNCHANGED <<policy, queue, taskEvent, lists, active, life, locks, wstop,
                 wcount, late, svars, runs, token, cvars>>

\* ... otherwise UpdateActiveCount(1),
ExecuteStart(w) ==
  /\ wpc[w] = "take"
  /\ ~token[wtask[w]]
  /\ UpdateActive(1)
  /\ WGoto(w, "run")
  /\ UNCHANGED <<policy, queue, taskEvent, lists, life, locks, wlocals, svars,
                 future, runs, token, cvars>>

\* the task and its future,
ExecuteTask(w) ==
  /\ wpc[w] = "run"
  /\ Perform(wtask[w])
  /\ WGoto(w, "finish")
  /\ UNCHANGED <<policy, queue, taskEvent, lists, active, life, locks, wlocals,
                 svars, token, cvars>>

\* Mutant: the count is not taken back.
ExecuteFinishSilently(w) ==
  /\ wpc[w] = "finish"
  /\ wtask' = [wtask EXCEPT ![w] = None]
  /\ WGoto(w, "loop")
  /\ UNCHANGED <<policy, queue, taskEvent, lists, active, life, locks, wstop, wcount,
                 late, svars, future, runs, token, cvars>>

\* UpdateActiveCount(-1) and ReleaseTaskItem.
ExecuteFinish(w) ==
  /\ wpc[w] = "finish"
  /\ UpdateActive(-1)
  /\ wtask' = [wtask EXCEPT ![w] = None]
  /\ WGoto(w, "loop")
  /\ UNCHANGED <<policy, queue, taskEvent, lists, life, locks, wstop, wcount,
                 late, svars, future, runs, token, cvars>>

\* Reads of the pool size; how long the worker has been idle is left open.
ReadCount(w, lt) ==
  /\ FLockFree
  /\ wcount' = [wcount EXCEPT ![w] = Cardinality(workers)]
  /\ late' = [late EXCEPT ![w] = lt]
  /\ UNCHANGED <<wtask, wstop>>

MayShrink == KeepAlive /\ Cardinality(workers) > Core

\* No task: the keep-alive check,
Idle(w) ==
  /\ wpc[w] = "idle"
  /\ ReadCount(w, FALSE)
  /\ \/ MayShrink /\ WGoto(w, "confirm")
     \/ WGoto(w, "idleActive")
  /\ UNCHANGED <<policy, queue, taskEvent, lists, active, life, locks, svars,
                 future, runs, token, cvars>>

\* the early way out of a pool with nothing active and nothing queued,
IdleActive(w) ==
  /\ wpc[w] = "idleActive"
  /\ FLockFree
  /\ WGoto(w, IF active = 0 THEN "idleQueue" ELSE "wait")
  /\ UNCHANGED <<policy, queue, taskEvent, lists, active, life, locks, wlocals,
                 svars, future, runs, token, cvars>>

IdleQueue(w) ==
  /\ wpc[w] = "idleQueue"
  /\ QLockFree
  /\ WGoto(w, IF queue = <<>> /\ wcount[w] > Core THEN "confirm" ELSE "wait")
  /\ UNCHANGED <<policy, queue, taskEvent, lists, active, life, locks, wlocals,
                 svars, future, runs, token, cvars>>

\* the second look at the queue,
Confirm(w) ==
  /\ wpc[w] = "confirm"
  /\ QLockFree
  /\ WGoto(w, IF queue # <<>> THEN "loop" ELSE "reserve")
  /\ UNCHANGED <<policy, queue, taskEvent, lists, active, life, locks, wlocals,
                 svars, future, runs, token, cvars>>

\* the reservation, computed from the pool size read before,
Reserve(w) ==
  /\ wpc[w] = "reserve"
  /\ FLockFree
  /\ IF wcount[w] - Core - reserved > 0
       THEN reserved' = reserved + 1 /\ WGoto(w, "retire")
       ELSE UNCHANGED reserved /\ WGoto(w, "loop")
  /\ UNCHANGED <<policy, queue, taskEvent, workers, alive, active, life, locks,
                 wlocals, svars, future, runs, token, cvars>>

\* and the removal, with a wake-up for the others on the immediate path.
Retire(w) ==
  /\ wpc[w] = "retire"
  /\ wstop' = [wstop EXCEPT ![w] = TRUE]
  /\ RemoveWorker(w)
  /\ taskEvent' = (taskEvent \/ ~late[w])
  /\ WGoto(w, "exit")
  /\ UNCHANGED <<policy, queue, active, shutdown, destroyed, locks, wtask, wcount,
                 late, svars, future, runs, token, cvars>>

\* The wait for a task ends with the auto-reset event or with its timeout.
WaitSignaled(w) ==
  /\ wpc[w] = "wait"
  /\ taskEvent
  /\ taskEvent' = FALSE
  /\ WGoto(w, "loop")
  /\ UNCHANGED <<policy, queue, lists, active, life, locks, wlocals, svars,
                 future, runs, token, cvars>>

WaitTimeout(w) ==
  /\ wpc[w] = "wait"
  /\ ReadCount(w, TRUE)
  /\ \/ MayShrink /\ WGoto(w, "confirm")
     \/ WGoto(w, "loop")
  /\ UNCHANGED <<policy, queue, taskEvent, lists, active, life, locks, svars,
                 future, runs, token, cvars>>

\* NotifyTaskCompletion; then the thread ends and its slot is free.
Exit(w) ==
  /\ wpc[w] = "exit"
  /\ RemoveWorker(w)
  /\ wpc' = [wpc EXCEPT ![w] = "none"]
  /\ wstop' = [wstop EXCEPT ![w] = FALSE]
  /\ wcount' = [wcount EXCEPT ![w] = 0]
  /\ late' = [late EXCEPT ![w] = FALSE]
  /\ UNCHANGED <<policy, queue, taskEvent, active, shutdown, destroyed, locks,
                 wtask, svars, future, runs, token, cvars>>

-----------------------------------------------------------------------------
(* Submit *)

SGoto(t, l) == spc' = [spc EXCEPT ![t] = l]

\* The token is looked at first, then FShutdown, without a lock.
Submit(t) ==
  /\ spc[t] = "none"
  /\ ~destroyed
  /\ SGoto(t, IF token[t] THEN "nil" ELSE IF shutdown THEN "raised" ELSE "ensure")
  /\ UNCHANGED <<policy, queue, taskEvent, lists, active, life, locks, wpc,
                 wlocals, snap, future, runs, token, cvars>>

\* EnsureCoreThreads
EnsureCore(t) ==
  /\ spc[t] = "ensure"
  /\ FLockFree
  /\ CreateWorkers(IF shutdown THEN 0 ELSE AtLeast0(Core - Cardinality(workers)))
  /\ SGoto(t, "lock")
  /\ UNCHANGED <<policy, queue, taskEvent, reserved, active, life, locks, wlocals,
                 snap, future, runs, token, cvars>>

\* SubmitTaskItem takes FLock and reads the counters ...
TakeSnapshot(t) ==
  /\ spc[t] = "lock"
  /\ FLockFree
  /\ flock' = t
  /\ snap' = [snap EXCEPT ![t] = [active |-> active, workers |-> Cardinality(workers),
                                  queue |-> Len(queue)]]
  /\ SGoto(t, "enqueue")
  /\ UNCHANGED <<policy, queue, taskEvent, lists, active, life, qlock, wpc,
                 wlocals, future, runs, token, cvars>>

\* ... and takes FQueueLock.  Idle workers count as room in the queue.
IdleWorkers(t) == AtLeast0(snap[t].workers - snap[t].active)
EffectiveAfterEnqueue(t) == AtLeast0(snap[t].queue + 1 - IdleWorkers(t))

\* Mutant: the queue is judged by its length before the task is added.
FullBefore(t) == Capacity >= 0 /\ AtLeast0(snap[t].queue - IdleWorkers(t)) > Capacity

\* The test for a full queue.
Full(t) == Capacity >= 0 /\ EffectiveAfterEnqueue(t) > Capacity

\* Mutant: the oldest task is dropped without failing its future.
AcceptSilently(t, others) == future' = [future EXCEPT ![t] = "Pending"]

\* The task is taken on; the futures of the tasks it displaces fail.
Accept(t, others) ==
  future' = [u \in Tasks |->
               IF u = t THEN "Pending"
               ELSE IF u \in others /\ future[u] = "Pending" THEN "Failed"
               ELSE future[u]]

\* PushBack, SetEvent, and the decision to start another thread.
Push(t, q) ==
  /\ queue' = Append(q, t)
  /\ taskEvent' = TRUE
  /\ SGoto(t, IF snap[t].workers < Max /\ snap[t].active + Len(q) + 1 > snap[t].workers
                THEN "scale" ELSE "done")

\* Mutant: the task stays in the queue although the caller runs it.
RunInCallerToo(t) ==
  /\ Accept(t, {})
  /\ SGoto(t, "callerStart")
  /\ queue' = Append(queue, t)
  /\ taskEvent' = TRUE

\* CallerRuns keeps the task out of the queue.
RunInCaller(t) ==
  /\ Accept(t, {})
  /\ SGoto(t, "callerStart")
  /\ UNCHANGED <<queue, taskEvent>>

\* Mutant: DiscardOldest fails the oldest task and leaves it in the queue.
RejectKeepsOldest(t) ==
  /\ policy = "DiscardOldest"
  /\ IF queue # <<>> THEN Accept(t, {Head(queue)}) /\ Push(t, queue)
                     ELSE Accept(t, {}) /\ Push(t, queue)

\* The rejection policies, when the queue is full.
Reject(t) ==
  \/ /\ policy = "Abort"
     /\ SGoto(t, "raised")
     /\ UNCHANGED <<queue, taskEvent, future>>
  \/ policy = "CallerRuns" /\ RunInCaller(t)
  \/ /\ policy = "Discard"
     /\ future' = [future EXCEPT ![t] = "Failed"]
     /\ SGoto(t, "done")
     /\ UNCHANGED <<queue, taskEvent>>
  \/ /\ policy = "DiscardOldest"
     /\ IF queue # <<>> THEN Accept(t, {Head(queue)}) /\ Push(t, Tail(queue))
                        ELSE Accept(t, {}) /\ Push(t, queue)

\* Where there is room, CallerRuns still runs the task in the caller once the
\* pool has Max threads.
Enqueue(t) ==
  /\ spc[t] = "enqueue"
  /\ QLockFree
  /\ \/ Full(t) /\ Reject(t)
     \/ ~Full(t) /\ policy = "CallerRuns" /\ snap[t].workers >= Max /\ RunInCaller(t)
     \/ ~Full(t) /\ ~(policy = "CallerRuns" /\ snap[t].workers >= Max)
        /\ Accept(t, {}) /\ Push(t, queue)
  /\ flock' = None
  /\ UNCHANGED <<policy, lists, active, life, qlock, wpc, wlocals, snap, runs,
                 token, cvars>>

CallerStart(t) ==
  /\ spc[t] = "callerStart"
  /\ UpdateActive(1)
  /\ SGoto(t, "callerRun")
  /\ UNCHANGED <<policy, queue, taskEvent, lists, life, locks, wpc, wlocals, snap,
                 future, runs, token, cvars>>

\* The caller runs the task; a token is not looked at again.
CallerRun(t) ==
  /\ spc[t] = "callerRun"
  /\ Perform(t)
  /\ SGoto(t, "callerFinish")
  /\ UNCHANGED <<policy, queue, taskEvent, lists, active, life, locks, wpc,
                 wlocals, snap, token, cvars>>

CallerFinish(t) ==
  /\ spc[t] = "callerFinish"
  /\ UpdateActive(-1)
  /\ SGoto(t, "done")
  /\ UNCHANGED <<policy, queue, taskEvent, lists, life, locks, wpc, wlocals, snap,
                 future, runs, token, cvars>>

\* Mutant: Max is not looked at again once FLock was released.
ScaleUpBlindly(t) ==
  /\ spc[t] = "scale"
  /\ FLockFree
  /\ CreateWorkers(IF shutdown THEN 0 ELSE 1)
  /\ SGoto(t, "done")
  /\ UNCHANGED <<policy, queue, taskEvent, reserved, active, life, locks, wlocals,
                 snap, future, runs, token, cvars>>

\* CreateWorkerThread, after both locks were released.
ScaleUp(t) ==
  /\ spc[t] = "scale"
  /\ FLockFree
  /\ CreateWorkers(IF shutdown \/ Cardinality(workers) >= Max THEN 0 ELSE 1)
  /\ SGoto(t, "done")
  /\ UNCHANGED <<policy, queue, taskEvent, reserved, active, life, locks, wlocals,
                 snap, future, runs, token, cvars>>

-----------------------------------------------------------------------------
(* Closing the pool *)

CGoto(c, l) == cpc' = [cpc EXCEPT ![c] = l]

\* Nobody else is inside a call on the pool, so the last reference may go.
NoCallInProgress ==
  /\ \A t \in Tasks : spc[t] \in {"none", "done", "raised", "nil"}
  /\ \A c \in Closers : cpc[c] \in {"none", "done"}

\* Mutant: the workers are not told.
CloseQuietly(c) ==
  /\ cpc[c] = "none"
  /\ FLockFree
  /\ ~destroyed
  /\ \E o \in MayClose :
       /\ o = "Destroy" => NoCallInProgress
       /\ cop' = [cop EXCEPT ![c] = o]
       /\ CGoto(c, IF shutdown THEN "done" ELSE "signal")
  /\ shutdown' = TRUE
  /\ UNCHANGED <<policy, queue, taskEvent, lists, active, terminated, destroyed,
                 locks, wpc, wlocals, svars, future, runs, token, returned>>

\* The first section of Shutdown and ShutdownNow, also reached from Destroy:
\* only one call gets past it; every listed thread is told to stop.
Close(c) ==
  /\ cpc[c] = "none"
  /\ FLockFree
  /\ ~destroyed
  /\ \E o \in MayClose :
       /\ o = "Destroy" => NoCallInProgress
       /\ cop' = [cop EXCEPT ![c] = o]
       /\ CGoto(c, IF shutdown THEN (IF o = "Destroy" THEN "reap" ELSE "done")
                   ELSE IF o = "ShutdownNow" THEN "take" ELSE "signal")
  /\ shutdown' = TRUE
  /\ wstop' = [w \in Workers |-> wstop[w] \/ (~shutdown /\ w \in workers)]
  /\ UNCHANGED <<policy, queue, taskEvent, lists, active, terminated, destroyed,
                 locks, wpc, wtask, wcount, late, svars, future, runs, token,
                 returned>>

\* ShutdownNow hands the queued tasks back; their futures stay as they are.
TakeQueue(c) ==
  /\ cpc[c] = "take"
  /\ QLockFree
  /\ returned' = Elems(queue)
  /\ queue' = <<>>
  /\ CGoto(c, "signal")
  /\ UNCHANGED <<policy, taskEvent, lists, active, life, locks, wpc, wlocals,
                 svars, future, runs, token, cop>>

SignalAll(c) ==
  /\ cpc[c] = "signal"
  /\ taskEvent' = TRUE
  /\ CGoto(c, "await")
  /\ UNCHANGED <<policy, queue, lists, active, life, locks, wpc, wlocals, svars,
                 future, runs, token, cop, returned>>

\* AwaitTermination(5000): the event, or the timeout.
AwaitTermination(c) ==
  /\ cpc[c] = "await"
  /\ terminated \/ AwaitExpires
  /\ CGoto(c, IF cop[c] = "ShutdownNow" THEN "done" ELSE "drain")
  /\ UNCHANGED <<policy, queue, taskEvent, lists, active, life, locks, wpc,
                 wlocals, svars, future, runs, token, cop, returned>>

\* Shutdown fails the tasks nobody took.
Drain(c) ==
  /\ cpc[c] = "drain"
  /\ QLockFree
  /\ Settle(Elems(queue), "Failed")
  /\ queue' = <<>>
  /\ CGoto(c, IF cop[c] = "Destroy" THEN "reap" ELSE "done")
  /\ UNCHANGED <<policy, taskEvent, lists, active, life, locks, wpc, wlocals,
                 svars, runs, token, cop, returned>>

\* Destroy waits for termination once more and frees everything.
Reap(c) ==
  /\ cpc[c] = "reap"
  /\ terminated \/ AwaitExpires
  /\ destroyed' = TRUE
  /\ CGoto(c, "done")
  /\ UNCHANGED <<policy, queue, taskEvent, lists, active, shutdown, terminated,
                 locks, wpc, wlocals, svars, future, runs, token, cop, returned>>

-----------------------------------------------------------------------------
WorkerStep(w) ==
  \/ Loop(w) \/ GetNextTask(w) \/ AddQueueObserved(w)
  \/ ExecuteCancelled(w) \/ ExecuteStart(w) \/ ExecuteTask(w) \/ ExecuteFinish(w)
  \/ Idle(w) \/ IdleActive(w) \/ IdleQueue(w) \/ Confirm(w) \/ Reserve(w) \/ Retire(w)
  \/ WaitSignaled(w) \/ WaitTimeout(w) \/ Exit(w)

SubmitStep(t) ==
  \/ EnsureCore(t) \/ TakeSnapshot(t) \/ Enqueue(t)
  \/ CallerStart(t) \/ CallerRun(t) \/ CallerFinish(t) \/ ScaleUp(t)

CloseStep(c) ==
  \/ TakeQueue(c) \/ SignalAll(c) \/ AwaitTermination(c) \/ Drain(c) \/ Reap(c)

Next ==
  \/ \E w \in Workers : WorkerStep(w)
  \/ \E t \in Tasks : Submit(t) \/ SubmitStep(t) \/ CancelFuture(t) \/ CancelToken(t)
  \/ \E c \in Closers : Close(c) \/ CloseStep(c)

Spec == Init /\ [][Next]_vars

\* Threads that can run do run: workers, and calls once they are made.
FairSpec ==
  /\ Spec
  /\ \A w \in Workers : WF_vars(WorkerStep(w))
  /\ \A t \in Tasks : WF_vars(SubmitStep(t))
  /\ \A c \in Closers : WF_vars(CloseStep(c))
-----------------------------------------------------------------------------
(* Safety *)

CallerHolds(t) == spc[t] \in {"callerStart", "callerRun", "callerFinish"}

\* In how many places the item of a task is: in the queue, with a worker,
\* with a caller that runs it, or in the list ShutdownNow returned.
Places(t) ==
  Cardinality({i \in 1..Len(queue) : queue[i] = t})
    + Cardinality({w \in Workers : wtask[w] = t})
    + (IF CallerHolds(t) THEN 1 ELSE 0)
    + (IF t \in returned THEN 1 ELSE 0)

\* A task item is never in two places, and an accepted task whose future is
\* still pending is in one: nothing is lost or duplicated between Submit, the
\* workers, CallerRuns, the rejection policies, Shutdown and ShutdownNow.
OnePlace ==
  \A t \in Tasks : Places(t) <= 1 /\ (future[t] = "Pending" => Places(t) = 1)

\* No task body is executed twice.
RunsAtMostOnce == \A t \in Tasks : runs[t] <= 1

\* A task whose future was failed without running (discarded, or left in the
\* queue by Shutdown), or that ShutdownNow returned, is never run afterwards.
RejectedNeverRuns ==
  [][\A t \in Tasks :
       t \in returned \/ (future[t] = "Failed" /\ runs[t] = 0) => runs'[t] = 0]_vars

\* FActiveCount is the number of tasks being run, by workers and by callers;
\* the clamp at zero in UpdateActiveCount never hides a lost update.
ActiveExact ==
  active = Cardinality({w \in Workers : wpc[w] \in {"run", "finish"}})
             + Cardinality({t \in Tasks : spc[t] \in {"callerRun", "callerFinish"}})

\* Threads started concurrently by several Submits never exceed FMaxPoolSize,
\* and FAliveThreads counts the list although a worker removes itself twice.
PoolBounded ==
  /\ Cardinality(workers) <= Max
  /\ alive = Cardinality(workers)

\* However stale the snapshot Submit decided on, a bounded queue never holds
\* more than its capacity plus one task per thread.
QueueBounded == Capacity >= 0 => Len(queue) <= Capacity + Max

\* The fields have their types, the counters never go below zero, and the queue
\* keeps to its bound.
WellFormed == TypeOK /\ QueueBounded

\* Once the pool says it is terminated, no worker runs or can take a task,
\* and no Submit that was under way can start a thread again.
TerminatedIsFinal ==
  terminated => /\ shutdown
                /\ workers = {}
                /\ \A w \in Workers : wpc[w] \in {"none", "exit"}

(* Liveness *)

\* The future of an accepted task is settled sooner or later.
TasksSettle == \A t \in Tasks : future[t] = "Pending" ~> future[t] # "Pending"

\* The same while the pool stays open: without a closing call a task is never
\* left behind.
TasksSettleWhileOpen ==
  \A t \in Tasks : future[t] = "Pending" ~> (future[t] # "Pending" \/ shutdown)

\* A pool that is shut down terminates.
ShutdownTerminates == shutdown ~> terminated

-----------------------------------------------------------------------------
(* What comments and documents of the repository say, and some runs refute *)

\* "Reserve a place for shrinking, so that concurrent shrinking does not go
\* below Core."
NeverBelowCore == shutdown \/ Cardinality(workers) >= Core

\* "Always follow the lock order FLock -> FQueueLock, to avoid deadlock."
NoLockCycle ==
  ~ \E w \in Workers, t \in Tasks :
      /\ qlock = w /\ wpc[w] = "observe"
      /\ flock = t /\ spc[t] = "enqueue"

\* "Notify the pool ... so that nothing freed is used after its destruction."
GoneBeforeFree == destroyed => \A w \in Workers : wpc[w] = "none"
=============================================================================
