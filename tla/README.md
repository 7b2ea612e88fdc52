# TLA+ models of the fafafa.core concurrency core

fafafa.core is a Free Pascal library; its own code is under `src/src`. The C sources in
the tree (`src/reference`: nginx, yyjson, libfyaml and others) are third-party programs
kept for reading; nothing here models them. Most units of the library are sequential
(collections, text formats, numeric kernels) or wrap system calls. What is hard to test
is the concurrency core in `fafafa.core.thread.*`, `fafafa.core.sync.*`,
`fafafa.core.time.timer*` and `fafafa.core.lockfree.*`: futures, the thread pool,
channels, timers, the task scheduler, the lock-free ring, and the event they stand on.
This project models that core.

## 1. Inventory

| component | state | operations | talks to |
|---|---|---|---|
| `TFuture` (thread.future) | `FState`, `FEvent` (manual reset), `FOnComplete`, `FCallbackInvoked` under `FLock` | Complete, Fail, Cancel, WaitFor, OnComplete, Map/AndThen, ContinueWith | everything asynchronous returns one |
| `TThreadPool`, `TWorkerThread` (thread.threadpool) | task queue under `FQueueLock`; thread list, `FAliveThreads`, `FActiveCount`, `FShrinkReservations`, `FShutdown`, `FTerminated` under `FLock`; auto-reset `FTaskAvailableEvent`; `FTerminationEvent` | Submit with four rejection policies, Shutdown, ShutdownNow, AwaitTermination, Destroy; worker: get, run, shrink, exit | futures, cancellation tokens |
| `TChannel` (thread.channel) | buffer, `FClosed`, two auto-reset events, two lists of waiter records under `FLock` | Send(Timeout), Recv(Timeout), TryRecv, Close | events |
| `TCancellationToken` (thread.cancel) | a flag and an event | Cancel, IsCancellationRequested | pool, facade |
| `TEvent` (sync.event.unix) | `FSignaled`, condition variable | SetEvent, ResetEvent, WaitFor | all of the above |
| task scheduler `TTaskScheduler` (thread.scheduler) | delay heap and metrics under `FLock`, `FShutdown`, timer thread with its captured variables, a pool of one thread | Schedule (four kinds, with or without token), Shutdown; timer thread: purge, take, dispatch | pool, futures, tokens |
| timer scheduler `TTimerSchedulerImpl`, `TTimerRef` (time.timer) | entries (deadline, flags, reference count), queue, `FShuttingDown`, manual-reset `FWakeup`, optional callback pool | ScheduleOnce/AtFixedRate/WithFixedDelay, Cancel, ResetAt/After, Pause, Resume, SetMaxExecutions, Shutdown, Destroy | pool, tokens, event |
| timer heap `TBinaryHeapBackend` (time.timer.backend.heap) | array of entries, each with its index | Enqueue, Dequeue, PopDue, Remove, UpdateDeadline, Clear | timer scheduler |
| bounded ring `TPreAllocMPMCQueue` (lockfree.mpmcQueue) | slots with a sequence number, two positions, all atomics | Enqueue, Dequeue | - |
| facade (thread) | default pools | Spawn, Join, Select, FutureWaitOrCancel | futures, pools |
| mutexes, rwlocks (sync.mutex, rwlock, spin, ...) | futex word or pthread object | Acquire, TryAcquire, Release | kernel |
| counting primitives (sync.sem, latch, barrier, waitgroup, once, ...) | counter and condition variable | wait, count | kernel |
| other lock-free containers (lockfree.*) | rings and lists of atomics | enqueue, dequeue | - |
| timer wheel (time.timer.backend.wheel, timerwheel) | buckets | schedule, advance | timer scheduler |

The other parts (memory, collections, files, formats, cryptography, terminal,
logging) are listed in `PROJECT.json` with the reason why they are not modelled.

What is hard, and what has to hold:

* **Future** - several threads settle it, register callbacks and wait at the same
  time, and a wait times out just as it is settled. It must be settled once, tell
  each caller the truth, run a callback at most once and not too early, release
  every waiter, and settle what was chained to it.
* **Pool** - two locks, decisions taken from values read under a lock that has
  been released since, threads that start and retire, four ways to reject a task,
  two ways to close and a destructor. No task may be lost, duplicated, or run
  after it was refused; counters must be exact; every accepted task must end; a
  pool that was closed must terminate, and only then.
* **Channel** - auto-reset events that collapse signals, waiter records that
  outlive the wait, timeouts racing with a pairing. No value may be lost or
  received twice, the answers to both sides must agree, nobody may sleep while
  there is something to do.

* **Timers** - entries are memory that the queue, a handle, the timer thread and a
  task in the pool share; the lock is released between taking a timer and running
  it; the wait is computed under the lock and slept outside. Memory must be freed
  once, by the last user, and in any case; no deadline may be slept through; rate,
  delay, limit and cancellation must be kept.
* **Task scheduler** - cancellation by future or token at any moment, closures that
  outlive the loop iteration that made them, a shutdown with tasks in flight. Each
  task must settle its own future, and each future must be settled; where the code
  fails in this, it must at least not settle futures that are not due, nor two with
  one closure, and the metrics must stay true.
* **Ring** - a producer or consumer may sleep between any two atomic operations
  while the ring goes round. No slot may be written while it is read, and the ring
  must be a FIFO queue.
* **Event** - signals collapse, waiters barge in, waits time out or wake for no
  reason. No signal may be lost, and an auto-reset signal is for one waiter.

`PROJECT.json` lists each hazard at its line.

## 2. Modules

| module | models |
|---|---|
| `Future` | `TFuture` with any set of threads, each making one call |
| `Promise` | what a future promises its waiters: a one-shot cell (abstract) |
| `FutureProofs` | TLAPS proofs of `Future`'s safety properties and of `Promise` |
| `ThreadPool` | `TThreadPool`, its workers, submitters and closing threads |
| `ThreadPoolProofs` | TLAPS proofs about the thread list, termination and `FActiveCount`, and about the tasks: where each is, how often it runs, how many are queued |
| `Channel` | `TChannel`, buffered and rendezvous |
| `ChannelProofs` | TLAPS proofs of `Channel`'s safety properties |
| `Timer` | `TTimerSchedulerImpl`, its thread, its callbacks, and `TTimerRef` |
| `TimerProofs` | TLAPS proofs about queue, memory, deadlines and sleep of the timers |
| `TimerHeap` | `TBinaryHeapBackend` on its array |
| `TimerQueue` | what the timers expect of their queue (abstract) |
| `TimerHeapProofs` | TLAPS proofs that the array stays a heap and is a `TimerQueue` |
| `TaskScheduler` | `TTaskScheduler`, its timer thread and its pool |
| `TaskSchedulerProofs` | TLAPS proofs about its metrics, futures and due times |
| `MpmcQueue` | `TPreAllocMPMCQueue`, one step per atomic operation |
| `BoundedQueue` | a bounded FIFO queue with reservation (abstract) |
| `MpmcQueueProofs` | TLAPS proofs that the ring has no data race and is a `BoundedQueue` |
| `Event` | `TEvent` on a mutex and a condition variable |
| `EventSpec` | what an event promises (abstract) |
| `EventProofs` | TLAPS proofs about `Event` |
| `MC...` | instances for TLC (`Event` and `MpmcQueue` are instantiated by their cfg alone) |

Conventions:

* a section under a lock is one step, and so is each wait, each section, and each
  piece of user code between two sections; `pc` names are the places between them;
* locals that live from one section to the next are variables (`cb`, `wcount`,
  `snap`), because their staleness is what matters;
* the number of calls is the size of a constant set, and clocks stop at a horizon.
  No counter grows without a bound, so no state constraint is needed;
* a definition commented "Mutant" is a plausible wrong version of the one after it.
  No specification uses it; it shows that a property is able to fail.

### Future

`state`, `signaled`, `onComplete`, `invoked` are the fields. `Complete`, `Fail`,
`Cancel`, `OnComplete`, `Map`, `ContinueWith`, `WaitFor` are the calls; `Notify`
and `Invoke` are the locked and the unlocked half of `NotifyCompletion`;
`ContinueRegister` is the second section of `ContinueWith`; `WaitSignaled`,
`WaitTimeout`, `WaitRecheck` are the outcomes of `WaitFor`. Callbacks return True,
False or raise, and `child` is the future that Map, AndThen or ContinueWith
returned. `AndThen` has the body of `Map`. `TEvent.WaitFor` reports a timeout
without looking at its flag again, hence `WaitTimeout` has no guard on `signaled`.

### ThreadPool

The owner of a lock is part of the state only where a lock is held while the other
one is awaited: `flock` in SubmitTaskItem (`TakeSnapshot` .. `Enqueue`) and `qlock`
in GetNextTask when metrics are enabled (`GetNextTask` .. `AddQueueObserved`). All
other sections are one step that needs the lock to be free.

A worker's loop is `Loop`, `GetNextTask`, then `ExecuteCancelled` or `ExecuteStart`,
`ExecuteTask`, `ExecuteFinish`; without a task `Idle`, `IdleActive`, `IdleQueue`
(the two reasons to shrink), `Confirm` (second look at the queue), `Reserve`,
`Retire`, or the wait. How long a thread has been idle is left open: where the code
compares idle time with KeepAlive both outcomes are possible. Submit is `Submit`,
`EnsureCore`, `TakeSnapshot`, `Enqueue`, then `ScaleUp` or the three `Caller` steps.
Shutdown, ShutdownNow and Destroy share their first section, `Close`. Destroy is
called when no other call is in progress (it runs when the last reference goes).
A worker's reading of `FShutdown` without a lock and the locked pop after it
are one step, `GetNextTask`; no property depends on what lies between them.
The task's future is reduced to its state; the task body completes or fails it, and
the user may cancel it or the task's token at any time. In `AwaitTermination` and
`Reap` the timeout of 5 s may expire (`AwaitExpires`) or is longer than any task.
Recycling of task records and the read-only counters are not modelled.

### Channel

A call is an element of `Senders`, `Receivers` or `Closers`; a setup of `Setups`
gives the capacity and says which calls one thread makes in order (`before`).
Waiter records are `signal` (their event), `success` and `value`, listed in
`recvWaiters` and `sendWaiters`. Time is one flag per timed call, `expired`: a wait
for a slice of 10 ms may end at any time, a wait for the full timeout only after
`Expire`. `TrueMeansDelivered`, `FalseMeansKept` and `FalseMeansLate` are what a
user may expect of any channel; the passing run checks what the code keeps of them
(`AnswersTrue`: all three for buffered channels; for rendezvous, that only timed
calls can disagree).

### Timer, TimerHeap, TimerQueue

`entry[t]` holds the fields of `TTimerEntry`, `mem[t]` whether its memory is there,
`heap[t]` how often it is in the queue (more than once is possible, and a bug). `Top`,
`ScanEmpty`, `ScanEarly`, `ScanDue`, `Woken` are `ThreadProc`; `Direct`, `Hold`,
`Submit`, `SubmitRaises`, `SubmitDiscarded` the hand-over of a callback
(SetCallbackExecutor(nil) may take the pool away before it is called, which raises like
a refusal); `Check` .. `Free` are `ExecuteCallbackSync` and `AsyncCallbackTask`, which
differ in who holds a reference and what happens outside the lock (`OnThread`). A *plan*
is one use of the scheduler: with or without pool, how the pool refuses, how much room
the queue has, and which calls are made on each timer. The passing run's plans leave out
the uses in which the code is wrong (a Shutdown's return, handles of timers that run on
the timer thread released, Pause during a callback followed by Resume, Cancel and
release of a timer between queue and pool); each of those has a plan and a configuration
of its own below. `Timer` keeps the queue as a bag with a least element; `TimerHeap`
models the array, sift-up, sift-down and the stored indexes, and implements
`TimerQueue`, which says just that. A tick stands for a millisecond: that ThreadProc
rounds the remaining time to milliseconds, and 0 up to 1 (`ScanEarly`), is below the
clock of the model. That an entry is not in the heap when it is inserted is a duty of
the scheduler, which `TimerHeap` assumes (the heap does not test it) and `MCTimerPause`
shows to be broken in one use.

A call of the heap is a step that changes the array (`Enqueue`, `Dequeue`, `Remove`,
`UpdateDeadline`, `PopNext` inside `PopDue`) and then one step per turn of its loop:
`Rise` and `RiseEnd` are HeapifyUp, `Sink` and `SinkEnd` HeapifyDown. `call` and `loop`
say which call and loop are under way, `at` is the loop's `I`, `home` the `Idx` to which
Remove and UpdateDeadline return for their HeapifyUp. The scheduler calls under its
lock, so a call begins only when no other is under way. `due` holds what PopDue has
taken; it leaves the abstract queue when PopDue returns, every other call acts on the
queue in its first step.

### TaskScheduler

`heap` and `item` are the waiting tasks and the one in the timer thread's hands.
`code` and `owner` say from which item the captured variables were loaded: `LoadCode`
assigns LFunc .. LData, `LoadFuture` LUserFuture, whether or not closures of earlier
items are alive. Nothing in the code waits for the pool (the loop sleeps for 10 ms
after a dispatch), so a closure may be overtaken at any point. A closure is named
after the task it was made for; `Begin` calls what `code` has for its kind, `End`
settles the future of `owner`, and if Complete raised, `EndExcept` reads `owner`
again. The history variables record which bodies were started, which tasks were
cancelled while they waited, and which closures lost their variables (`overwritten`).

LFunc .. LData are loaded in one step, so a closure never sees the new function with
the old data. FTimerThread is created with CreateAnonymousThread, which frees itself
when it ends; the WaitFor in Shutdown is taken to return once the thread has left its
loop. Destroy, which releases the pool with closures still queued, is not modelled.

### MpmcQueue, BoundedQueue

Each load, compare-and-swap, data access and store of `Enqueue` and `Dequeue` is a
step; atomics are sequentially consistent in the model. `BoundedQueue` separates
reserving a place from publishing it, because a queue with an unpublished head
answers "empty": Dequeue that returns False is not linearizable as a test for
emptiness, and the abstract queue says so.

### Event, EventSpec

`pc` tells whether a waiter is outside, on the queue of the condition variable,
woken, or timed out and on the way to the mutex. `EventSpec` has no queue: a waiter
takes a standing signal, or its time is up. `Future`, `ThreadPool` and `Channel` use
events as `EventSpec` describes them.

## 3. Runs

Passing runs:

| run | instance | shows |
|---|---|---|
| `future_races` | three threads, each any operation | settled once and for good; callbacks at most once and not early; the outcome each caller is told is true; mapped futures settle (liveness); `Promise` is implemented, its fairness included, so waiters are released and a reported timeout is true |
| `pool_tasks` | 3 tasks, 3 thread slots, Core 1, Max 2, capacity 0, all policies | no task lost, in two places or run twice (`OnePlace`, `RunsAtMostOnce`), threads and queue bounded (`PoolBounded`, `WellFormed`) while the pool grows and shrinks |
| `pool_close` | 2 tasks, one with a token, Core 1, Max 2, DiscardOldest, metrics on, two closing threads | no task lost or run after it was refused, `FActiveCount` exact, termination final |
| `pool_fixed` | Core = Max = 1, 2 tasks, one Shutdown or ShutdownNow | in a fixed pool every accepted task ends while the pool is open, and a closed pool terminates (liveness) |
| `channel_races` | 3 senders, 2 receivers, Close, capacity 0, 1 and 2, all timeouts | FIFO, nothing duplicated, True and False tell the truth (buffered), only timed calls can disagree (rendezvous), waiter lists consistent, no pair waits for each other |
| `channel_quiet` | a pipe of three values over a buffer of one; rendezvous of three concurrent calls and Close | nobody sleeps through data, room, a partner or Close (liveness) |
| `timer` | one timer of each kind in ten plans, clock up to 6, queue of 1 or 2 | entries freed once and in time, `InHeap` true, one-shot, rate, delay and limit kept, cancelled timers quiet, no deadline slept through, every timer fires (liveness) |
| `timer_heap` | 6 entries (three levels), 3 deadlines | indexes and order true after any sequence of operations; `TimerQueue` is implemented |
| `task_scheduler` | 3 tasks of two kinds, one with a token, due at once or later, Shutdown, a pool of any speed | no closure settles two futures or one that is not due, nothing runs before it is due or is dispatched after it was cancelled in the heap, metrics balance, every future is settled, once, unless its closure lost its variables (liveness) |
| `mpmc_queue` | 2 producers, 2 consumers, 2 calls each, 2 slots | no data race, `BoundedQueue` is implemented, calls return (liveness) |
| `event` | 3 waiters, manual and auto-reset, timed and untimed | nobody sleeps through a signal, `EventSpec` is implemented with its fairness, so waits end that can end and timed waits return (liveness) |

The run that refutes a statement of the repository (quote in `PROJECT.json`, findings):

| run | what the code does |
|---|---|
| `scheduler_shared_frame` | a closure that is queued or running when the next item is dispatched completes the future of that item, because the closures share the variables of `TimerLoop` |

### Further configurations

These are not among the runs of `PROJECT.json`. Each makes TLC print a behaviour of
the code that a user of the unit may not expect; the property is the expectation.

| configuration | property | the behaviour |
|---|---|---|
| `MCFutureContinue` | `ChainedSettles` | ContinueWith tests IsDone and registers in two sections; a Complete in between is missed |
| `MCFutureCancel` | `ChainedSettles` | Cancel does not notify; mapped futures stay pending |
| `MCPoolCached` | `TasksSettle` | a task enqueued between a worker's second look and its retirement has no thread |
| `MCPoolMetrics` | `NoLockCycle` | with metrics, FQueueLock -> FLock against FLock -> FQueueLock |
| `MCPoolLateSubmit` | `TasksSettle` | a Submit past the FShutdown test enqueues after Shutdown's drain |
| `MCPoolBelowCore` | `NeverBelowCore` | two workers shrink on the same old pool size |
| `MCPoolDestroy` | `GoneBeforeFree` | a retired worker still uses the pool when Destroy frees it |
| `MCChannelTwoReceivers` | `NoLostWakeup` | two sends set the auto-reset event once; a receiver sleeps on |
| `MCChannelCloseAll` | `CloseReleases` | Close wakes one of several blocked receivers of a buffered channel |
| `MCChannelTimed` | `TrueMeansDelivered` | a receiver that timed out drops a value whose sender was told True |
| `MCChannelTimed` | `FalseMeansKept` | a sender that timed out is told False although its value was taken |
| `MCChannelTimed` | `FalseMeansLate` | rendezvous SendTimeout gives up after one 10 ms slice |
| `MCTimerShutdown` | `ShutdownReturns` | the thread passes its test of FShuttingDown, Shutdown sets flag and event, the thread resets the event and sleeps for ever |
| `MCTimerDropSync` | `NeverFreedInUse` | the handle of a one-shot timer is released while the timer thread, without the lock, decides whether to free it: both do |
| `MCTimerDropAsync` | `NeverFreedInUse` | Cancel and release between the taking of an entry and the reference for the pool's task |
| `MCTimerPause` | `InHeapOnce` | Pause and Resume during the callback put the entry into the queue twice |
| `MCTimerPauseDrop` | `NoLeak` | the handle of a paused timer is released; nobody frees the entry |
| `MCTimerPauseDestroy` | `NoDanglingOwner` | Destroy does not reach a paused timer, whose Owner dangles |
| `MCTaskSchedulerCancelled` | `CancelledNeverRuns` | the token of a waiting task is cancelled; its item is dropped when it is taken, but only after its code was loaded, and a closure that is still queued runs it |
| `MCTaskSchedulerPending` | `EveryFutureSettles` | a closure settles the future of the next item, and nobody settles its own |
| `MCMpmcOne` | `NoDataRace` | a ring of one slot accepts a second Enqueue before the first value was taken |
| `MCEventEaten` | `NoSleepThroughSignal` | if the thread library lets a timed-out wait consume a signal, other waiters sleep beside a set event |

`tlc -continue` shows the three counterexamples of `MCChannelTimed` in one go.

Bounds. The races are between two or three parties: two calls that settle a future
and a registration or wait (three threads); two workers, two or three submitters and
two closing calls; two or three senders against two receivers and a Close; one timer
or two against the timer thread, the pool and the handles; two producers and two
consumers. Capacity 0 or 1
puts the queue at its limit with two calls, and a buffer of two values is the
smallest that can get their order wrong; Core 1, Max 2 is the smallest pool that
grows and shrinks, and Core 0 or Core = Max are the boundary pools. A third thread
slot lets a thread be started while a retired one still leaves. A timer clock that
runs to three periods lets a rate timer be late by more than the catch-up limit and
a delay timer run twice. Two calls per thread on two slots take the ring into its
second round. Six heap entries give the last level an only child and let an entry
moved into a hole go up. Symmetry is used in
safety runs only: task and worker names occur symmetrically in every definition, and
the token task is kept apart; heap entries and concurrent channel calls of one kind
are interchangeable.

Fairness. `FairSpec` is weak fairness of each thread that has a call under way or
is a worker: the operating system runs threads that can run. Nothing is assumed
about whether anybody makes a call, cancels, or closes. Weak fairness is enough for
the locks because a lock is only ever held across steps of finitely many Submits,
each of which lets it go. A wait with a timeout ends. Channel adds weak fairness of
`Expire`, Timer and TaskScheduler of `Tick`, Event of `Deadline`: time passes. Timer
also assumes that a callback returns, TaskScheduler that a task does. Nobody has to
set an event, schedule a timer or call Shutdown; but a Shutdown that was called goes
on. An auto-reset event reaches *some* waiter, not each one.

Deadlock checking is off where a run ends in states in which every call has
returned: the sets of calls are finite, and then the program simply stops.

## 4. Proofs

The theorems hold for every set of threads, tasks, calls and timers, and for every
period, delay, capacity and number of slots. They rest on the named assumptions of
the modules, which TLC evaluates in the runs:

| assumption | says |
|---|---|
| `FutureAssumption` | `None` is not a thread, `MayCall` gives sets of operations |
| `PoolAssumption` | what the constructor enforces (Core <= Max, Capacity >= -1); finitely many tasks and threads, at least Max thread slots |
| `EventAssumption` | the type of its constant |
| `ChannelAssumption` | capacities are natural numbers, a call is of one kind, `None` is none |
| `TimerAssumption` | periods and limits are positive, delays are natural numbers, plans are plans |
| `SchedulerAssumption` | kinds, delays and token tasks have their types |
| `MpmcAssumption` | at least one slot; a thread is a producer or a consumer |
| `HeapAssumption` | finitely many entries; deadlines are natural numbers (what `TInstant` compares) |

Where the code keeps a property only in some uses, the theorem names them as its
hypothesis, and a configuration of section 3 shows that it fails in the others:

| hypothesis | theorems | without it |
|---|---|---|
| a timed-out wait consumes no signal | `NoLostWakeUp` | `MCEventEaten` |
| `Capacity > 1` slots | `NoRace`, `RingIsQueue` | `MCMpmcOne` |
| `Capacity # 0` or `Max # 0` | `PoolStaysWellFormed` | with both 0, which the constructor accepts, DiscardOldest queues a task in a pool that may hold none |
| `ResumesOnlyQueued`: a periodic timer that is resumed was paused in the queue | five of `TimerProofs` | `MCTimerPause` |
| `KeptOrPooled`: handles let go of early have their callbacks in a pool, and no timer is paused whose handle or scheduler goes | `MemoryStaysSafe` | `MCTimerDropSync`, `MCTimerDropAsync`, `MCTimerPauseDrop`, `MCTimerPauseDestroy` |

The last two are `PausesInQueue` and `KeepsOrPools` of module `Timer`, for each plan;
`MCTimer` assumes them of its own plans (`MCPlansAreRight`), so the run `timer` and the
theorems are about the same uses.

`FutureProofs`:

* `TypeCorrect` - `TypeOK`;
* `SettledStays` - the action property `SettledForever`, which `Promise` contains;
* `AtMostOnce` - `CallbackAtMostOnce`. It is not inductive. A callback named after
  thread t is in one of a few places: not yet registered, in `FOnComplete`, held by
  a call that will run it, dropped, or run. `CallbackPlace` says that these exclude
  one another and that a callback in one of the first three has run zero times;
* `NotBeforeDone` - `CallbackAfterDone`, from `QuietWhilePending`: while the future
  is pending no call is between its settling and its notification;
* `OutcomeIsTold` - `OutcomeAgrees`, with `CallShape`, which relates where a call
  stands and what it returned to the operation it is.

* `FutureIsPromise` - `Spec => P!Spec`: the detailed future implements `Promise`.
  A step of a future is a step of the cell (it settles, a call passes, blocks, is
  released or gives up) or leaves it alone. The mapping reads the wait of a thread
  from where it stands, so it needs that only WaitFor calls stand in a wait
  (`WaitShapeStep`) and that the event agrees with the
  state (lemma `EventAgrees`).

`EventProofs`:

* `TypeCorrect` - `TypeOK`;
* `NoLostWakeUp` - `NoSleepThroughSignal`, under the hypothesis that a timed-out wait
  consumes no signal. It is inductive with the types: SetEvent wakes somebody if
  anybody is queued, nobody joins the queue while the flag stands, and who is woken
  looks at the flag before it does anything else;
* `EventIsEventSpec` - `Spec => Abstract!Spec`, without that hypothesis.

`ThreadPoolProofs`:

* `PoolStaysBounded`, `TerminationIsFinal` - `PoolBounded` and `TerminatedIsFinal`,
  from one inductive invariant, `LInv`. Neither is inductive alone: that
  `FAliveThreads` counts the list survives a worker that is removed twice only
  because a thread that is still in its loop is listed and a free slot is not
  (`ListAgrees`), and the list can be empty while a thread still leaves;
* `ActiveIsExact` - `ActiveExact`, inductive together with the types of the program
  counters. The argument counts two sets, the workers and the callers inside a task:
  every step that adds or removes one element changes the counter by one, so the
  clamp at zero in UpdateActiveCount is never needed.
* `EachTaskRunsOnce` - `RunsAtMostOnce`. The invariant `TInv` says where a task can
  be: `QueueFresh` (queued once, accepted, not run), `HeldOnce` (held by at most one
  worker, and then not queued), `NotYetRun` (a task not accepted yet has not run) and
  `ObserverOwns` (a worker that left the queue's head to record its age owns
  FQueueLock, so nobody else takes that head);
* `NeverLostNorDuplicated`, `RejectedStaysUnrun` - `OnePlace` and the action property
  `RejectedNeverRuns`, from `TInv` and `PInv`. `OnePlace` counts places; `PInv` says
  it without counting: a pending task is in the queue, with a worker, with its caller
  or given back (`PendingPlaced`), these exclude one another (`ReturnedApart`), a
  worker settles a future before it lets go of the task (`SettledBeforeRelease`), and
  a task that failed without running is nowhere (`FailedGone`);
* `PoolStaysWellFormed` - `WellFormed`. The bound on the queue is not inductive: Submit
  decides on a snapshot. `SnapshotSafe` says that the snapshot errs on the safe side:
  its owner holds FLock, so nobody else enqueues and the queue only shrinks until
  the task is in it.

`ChannelProofs`, all from the inductive invariant `CInv`:

* `WaitersAlwaysTrue` - `WaitersTrue`: `Lists` says that who is listed waits, once, and
  was not woken, and that one of the two lists is empty;
* `NeverDuplicated` - `NoDuplicate`: `OneOwner`, a value is with its sender, in the
  buffer or with one receiver, and `Handed`, a receiver's record is filled only when it
  is woken;
* `BufferedAlwaysFIFO` - `BufferedFIFO`: `Order`, the buffer is the end of what was
  accepted and everything before it has a receiver;
* `AnswersAlwaysTrue` - `AnswersTrue`: `Told`, which also covers the call that was
  paired and has not returned yet, and `Stages`, how far a call has come.

`TimerProofs`. A step touches one timer, or those the scan discards. The proof first
reduces each action to what it does to one timer (`DoesCount`, `DoesHold`, ...;
`EveryStep`); the invariants are then shown timer by timer:

* `QueueStaysWellFormed` - `WellFormed`, from `Placed`: a timer is in the queue, in
  the hand of the thread or has a callback, never two of these; `InHeap` tells which;
  the reference count counts the handle and the task in the pool; and from `OneBest`:
  the thread holds at most one timer;
* `OnceNeverEarly` - `OnceNotEarly`, with no hypothesis: `FiredOnce`, the thread marks
  a one-shot timer when it takes it, and nothing moves its deadline afterwards;
* `CancelledStaysQuiet` - the action property `QuietAfterCancel`, from `QuietGone`;
* `NeverOversleeps` - `NoOversleep`: `InTime`, a thread that sleeps and was not woken
  sleeps at most up to the deadline of every queued timer; each action that brings a
  deadline forward sets `FWakeup`;
* `PeriodsAreKept` - the action property `PeriodsKept`: `NextOnGrid` (the arithmetic of
  the next fixed-rate deadline: the first grid point after now, whatever the limit on
  catching up), `DelayWaits` and `LimitHolds`;
* `MemoryStaysSafe` - `MemorySafe`: `Owned` (memory is live exactly as long as the
  queue, the thread, a callback or a handle holds it), `DeadAtEnd` (an entry that is
  nowhere is dead) and `ClosesForGood` and `Closed` for Shutdown and Destroy.

`TimerHeapProofs`, from the inductive invariant `HInv`:

* `HeapStaysWellFormed` - `WellFormed`. That the array is ordered between calls is not
  inductive: inside a loop it is not ordered. `Order` says what holds there. While
  HeapifyUp stands at a place, all are in order but that place and its parent
  (`OrderedBelow`); while HeapifyDown does, all but that place and its children
  (`OrderedAbove`), and at the place where Remove or UpdateDeadline began also its
  parent (`OrderedAround`). In both, the children of the place are not earlier than its
  parent (`Across`), without which a swap would break the order elsewhere. So HeapifyDown
  that moved the entry leaves a heap, and if it did not move it, HeapifyUp finds what it
  needs: this is why the two loops of Remove, one after the other, are enough.
  `RiseOrder`, `SinkOrder` and `ChangedPlace` are the three arguments, about deadlines
  by place (`Times`); `Places` says that indexes and marks are true, `LoopOfCall` where
  a loop may stand;
* `HeapIsQueue` - `ImplementsQueue`: `Spec => Abstract!Spec`. `Places` makes the marked
  entries the elements of the array (`MarkedSets`), so a swap leaves the queue alone.
  Dequeue and PopDue need that the first place of an ordered array is least
  (`RootLeast`): the least place that would be earlier has a parent that is not, so it
  is out of order. `PoppedSoFar` says that what PopDue has taken is due, in order,
  without repetition, and not later than what is left.

`TaskSchedulerProofs`:

* `MetricsAlwaysBalance` - `MetricsBalance`: `Counted` ties the active tasks to the heap
  and the item in hand, so the guarded decrement never hides one;
* `FirstSettlementWins` - `SettledOnce`, a part of `SettlesUnlessOverwritten`;
* `SettlementsAlwaysBacked` - `SettlementsBacked`. The count is inductive with the types
  (`Backed`): a closure leaves the worker when it settles a future, and a step settles
  at most one (`SettledBy`). That settled futures are due needs `OutAndDue`: whatever
  the captured variables can lead a closure to has left the heap, and only `RoundTake`
  adds to that;
* `NothingRunsEarly` - `OnlyDueTasksRun`, from `OutAndDue` and `StillWanted`: a task
  cancelled in the heap is still there, was dropped, or is the item in hand, whose future
  or token stops it before Submit. A task whose future was cancelled there is never taken,
  so its code is never loaded; one whose token was cancelled may be, which is why the
  theorem says nothing of its body (`MCTaskSchedulerCancelled`).

None of the four has a hypothesis about the pool: they hold while closures overtake one
another.

`MpmcQueueProofs`:

* `NoRace` - `NoDataRace`. `PlaceInv` ties the sequence number of every slot to the two
  positions: within the round after the head a slot is filled (n + 1), free or being
  filled (n), or still being emptied by the consumer of the round before
  (`SlotState`); who passed its compare-and-swap holds a position of its own
  (`HeldOnce`, `HeldPlace`), and positions less than a round apart have different slots
  (`SlotsApart`);
* `RingIsQueue` - `ImplementsQueue`: `Spec => Abstract!Spec`. `Reservations` and
  `DataKept` add that position n holds the n-th reserved value from its publication
  until it is read. Each step is a step of `BoundedQueue` or leaves it alone; a call
  that answers "full" or "empty" does so for the reason the abstract queue allows.

Each inductive invariant was first checked by TLC. Each step lemma has one step per
action; steps of one kind (a worker that moves, a task pushed, a thread started)
share a lemma.

Only model-checked: liveness, and with it the fairness that `Promise` and `EventSpec`
demand, because fairness is outside what the prover handles (`MapSettles`,
`TasksSettleWhileOpen`, `ShutdownTerminates`, `NoLostWakeup`, `CloseReleases`, `Fires`,
the liveness part of `SettlesUnlessOverwritten`, `CallsReturn`). Every invariant and
every action property of the passing runs has a theorem.

## 5. Plan

1. The facade's Join, Select and FutureWaitOrCancel over `Promise`.
2. The futex mutex, latch, barrier, wait group and once; the SPSC ring.
3. The timer wheel against `TimerQueue`.
4. Callbacks that use the pool while its locks are held (DiscardOldest, Discard).

A new module's runs come before runs that only refute a statement; the
configurations of the latter stay in section 3.

## 6. Not modelled

Object lifetime and reference counting, except for the entries of the timers and
that `destroyed` marks the freed pool; the Windows variants of events and mutexes;
weak memory (fields read without a lock, such as `FShutdown`, are read atomically,
and the ring's acquire and release orders are taken as sequentially consistent);
memory exhaustion and failing thread creation; the debug log, the statistics and the
metrics counters other than the task scheduler's; the one-time initialisation of the
default timer scheduler; the readers of the ring (GetSize, IsEmpty, IsFull), which
combine two loads and promise nothing under concurrency, and its batch operations,
which repeat Enqueue and Dequeue. Two behaviours of the ring need no model to be
seen: TryPeek calls itself without end (mpmcQueue.pas:304), and Count converts a
difference that may be negative to an unsigned number (:316).
