------------------------------- MODULE Timer -------------------------------
(***************************************************************************)
(* TTimerSchedulerImpl and TTimerRef (fafafa.core.time.timer.pas): timers  *)
(* kept in a queue ordered by deadline, one thread that waits for the      *)
(* earliest, callbacks run on that thread or on a pool, and handles        *)
(* through which a timer is cancelled, moved, paused and let go.           *)
(*                                                                         *)
(* Every section under FLock is one step; what the code does outside the   *)
(* lock is a step of its own.  The queue is a bag of entries of which one  *)
(* with the least deadline is at the head (TimerHeap shows that the binary *)
(* heap behaves like that).  An entry is memory: it is freed by whoever    *)
(* finds it dead, unreferenced and out of the queue.                       *)
(***************************************************************************)
EXTENDS Integers, FiniteSets, Functions

CONSTANTS
  Timers,        \* the entries, each scheduled at most once
  Kind,          \* tkOnce, tkFixedRate or tkFixedDelay, per timer
  Period,        \* Period or Delay of a periodic timer
  Tokens,        \* the timers scheduled with a cancellation token
  Delays,        \* the initial delays
  Limits,        \* the arguments of SetMaxExecutions
  CatchUp,       \* GFixedRateMaxCatchupSteps
  Plans          \* what the program around the scheduler does, see PlanType

Operations == {"Schedule", "Cancel", "CancelQueued", "ResetAt", "Pause", "PauseQueued",
               "Resume", "SetMaxExecutions", "CancelToken", "Destroy"}

\* One use of the scheduler: a callback executor or none and what the pool does
\* with a callback it does not take, the room in the queue, the handle calls
\* made on each timer ("CancelQueued" and "PauseQueued" are Cancel and Pause
\* called only while the timer waits in the queue), and the calls made on the
\* scheduler.  Bound: the clock stops at the horizon, and no call sets a
\* deadline beyond it.
PlanType ==
  [async : BOOLEAN, refusal : {"none", "Abort", "Discard"}, capacity : Nat, horizon : Nat,
   calls : [Timers -> SUBSET Operations],
   control : SUBSET {"Shutdown", "Destroy", "SetCallbackExecutor"}]

ASSUME TimerAssumption ==
  /\ Kind \in [Timers -> {"once", "fixedRate", "fixedDelay"}]
  /\ Period \in [Timers -> Nat \ {0}]
  /\ Tokens \subseteq Timers
  /\ Delays \subseteq Nat /\ Limits \subseteq Nat \ {0}
  /\ CatchUp \in Nat
  /\ Plans \subseteq PlanType

\* The uses of Pause and Resume for which the queue stays right: who resumes a
\* periodic timer pauses it only while it waits in the queue.  Pause and Resume
\* during the callback put the entry into the queue a second time when the
\* callback ends (MCTimerPause).
PausesInQueue(p) ==
  \A t \in Timers : Kind[t] = "once" \/ ~({"Pause", "Resume"} \subseteq p.calls[t])

\* The uses for which memory stays right.  Who lets go of a handle early has the
\* callbacks in a pool that takes or discards them, because the timer thread holds
\* no reference of its own (MCTimerDropSync), does not cancel the timer once it has
\* left the queue (MCTimerDropAsync) and does not pause it (MCTimerPauseDrop); who
\* destroys the scheduler pauses no timer (MCTimerPauseDestroy).
KeepsOrPools(p) ==
  \A t \in Timers :
    /\ "Destroy" \in p.calls[t] =>
         /\ p.async /\ p.refusal # "Abort" /\ "SetCallbackExecutor" \notin p.control
         /\ p.calls[t] \cap {"Cancel", "Pause", "PauseQueued"} = {}
    /\ "Destroy" \in p.control => p.calls[t] \cap {"Pause", "PauseQueued"} = {}

VARIABLES
  plan,          \* the use of the scheduler under consideration
  clock,         \* FClock.NowInstant, in milliseconds
  heap,          \* FBackend: how often each entry is in it
  entry,         \* the fields of TTimerEntry
  mem,           \* "none", "live" or "freed"
  handle,        \* whether the program still holds the ITimer
  token,         \* whether the timer's cancellation token is cancelled
  shuttingDown,  \* FShuttingDown
  wakeup,        \* FWakeup (manual-reset)
  async,         \* FUseAsyncCallbacks
  thread,        \* where the timer thread stands
  best,          \* its local: the timers (none or one) taken from the queue
  until,         \* when its timed wait ends
  job,           \* where the callback of each timer stands
  closer,        \* where Shutdown and Destroy stand
  runs,          \* history: how often the callback was started
  ended,         \* history: when a fixed-delay callback last ended
  quiet,         \* history: the timers cancelled while in the queue
  late           \* history: the count when SetMaxExecutions was last called

history == <<runs, ended, quiet, late>>
sched   == <<thread, best, until>>
ctl     == <<shuttingDown, closer, async>>
vars    == <<plan, clock, heap, entry, mem, handle, token, wakeup, sched, ctl, job, history>>

Blank == [deadline |-> 0, cancelled |-> FALSE, fired |-> FALSE, dead |-> FALSE,
          paused |-> FALSE, inHeap |-> FALSE, refs |-> 0, count |-> 0, max |-> 0]

TypeOK ==
  /\ plan \in Plans /\ clock \in 0 .. plan.horizon
  /\ heap \in [Timers -> Nat]
  /\ entry \in [Timers ->
       [deadline : Nat, cancelled : BOOLEAN, fired : BOOLEAN, dead : BOOLEAN,
        paused : BOOLEAN, inHeap : BOOLEAN, refs : 0 .. 2, count : Nat, max : Nat]]
  /\ mem \in [Timers -> {"none", "live", "freed"}]
  /\ handle \in [Timers -> BOOLEAN] /\ token \in [Timers -> BOOLEAN]
  /\ shuttingDown \in BOOLEAN /\ wakeup \in BOOLEAN /\ async \in BOOLEAN
  /\ thread \in {"top", "scan", "sleep", "nap", "due", "submit", "callback", "exit"}
  /\ best \subseteq Timers /\ Cardinality(best) <= 1 /\ until \in Nat
  /\ job \in [Timers -> {"idle", "check", "call", "count", "finish", "skip",
                         "test", "free", "lost"}]
  /\ closer \in {"open", "flagged", "joining", "down", "destroyed"}

\* TTimerSchedulerImpl.Create
Init ==
  /\ plan \in Plans /\ clock = 0 /\ heap = [t \in Timers |-> 0]
  /\ entry = [t \in Timers |-> Blank] /\ mem = [t \in Timers |-> "none"]
  /\ handle = [t \in Timers |-> FALSE] /\ token = [t \in Timers |-> FALSE]
  /\ shuttingDown = FALSE /\ wakeup = FALSE /\ async = plan.async
  /\ thread = "top" /\ best = {} /\ until = 0
  /\ job = [t \in Timers |-> "idle"] /\ closer = "open"
  /\ runs = [t \in Timers |-> 0] /\ ended = [t \in Timers |-> 0]
  /\ quiet = {} /\ late = [t \in Timers |-> 0]

-----------------------------------------------------------------------------
(* The queue and the entries *)

Queued == {t \in Timers : heap[t] > 0}

\* BackendInsert: refused at TIMER_HEAP_MAX_CAPACITY.
HasRoom == FoldFunction(+, 0, heap) < plan.capacity

Enqueue(t) == heap' = [heap EXCEPT ![t] = @ + 1]

\* Mutant: the entry stays in the array.
RemoveKeeps(t) == UNCHANGED heap

Remove(t) == heap' = [heap EXCEPT ![t] = @ - 1]

\* Mutant: a signal is only sent when the queue was empty.
WakeIfEmpty == wakeup' = (wakeup \/ Queued = {})

\* Mutant: no signal.
WakeNever == UNCHANGED wakeup

\* FWakeup.SetEvent
Wake == wakeup' = TRUE

\* Mutant: memory of a queued entry is freed too.
DisposableAnywhere(e) == e.refs <= 0 /\ e.dead

\* The test before every Dispose of an entry that has left the queue.
Disposable(e) == e.refs <= 0 /\ e.dead /\ ~e.inHeap

Dispose(S) == mem' = [t \in Timers |-> IF t \in S THEN "freed" ELSE mem[t]]

\* Mutant: the cancelled flag is not looked at.
InvalidUnlessCancelled(t) ==
  entry[t].paused \/ (Kind[t] = "once" /\ entry[t].fired)

\* The entries that ThreadProc discards when it finds them at the head.
Invalid(t) ==
  entry[t].cancelled \/ entry[t].paused \/ (Kind[t] = "once" /\ entry[t].fired)

\* Mutant: at most CatchUp periods are made up, aligned or not.
NextRateBehind(deadline, now, period) ==
  LET missed == (now - deadline) \div period + 1
  IN  deadline + period * (IF CatchUp > 0 /\ missed > CatchUp THEN CatchUp ELSE missed)

\* Mutant: the next deadline counts from now.
NextRateDrifts(deadline, now, period) == now + period

\* The next deadline of a fixed-rate timer that is due.
NextRate(deadline, now, period) ==
  LET missed  == (now - deadline) \div period + 1
      limited == IF CatchUp > 0 /\ missed > CatchUp THEN CatchUp ELSE missed
      next    == deadline + period * limited
  IN  IF next > now THEN next ELSE deadline + period * missed

-----------------------------------------------------------------------------
(* Scheduling *)

Tick ==
  /\ clock < plan.horizon
  /\ clock' = clock + 1
  /\ UNCHANGED <<plan, heap, entry, mem, handle, token, wakeup, sched, ctl, job, history>>

\* DoScheduleAt.  A cancelled token, a scheduler that shuts down or a full queue
\* refuse the timer and leave nothing behind.
Schedule(t) ==
  /\ mem[t] = "none" /\ "Schedule" \in plan.calls[t]
  /\ ~token[t] /\ ~shuttingDown /\ HasRoom
  /\ \E d \in Delays :
       /\ clock + d <= plan.horizon
       /\ entry' = [entry EXCEPT ![t] = [Blank EXCEPT !.deadline = clock + d,
                                                      !.refs = 1, !.inHeap = TRUE]]
  /\ mem' = [mem EXCEPT ![t] = "live"]
  /\ handle' = [handle EXCEPT ![t] = TRUE]
  /\ Enqueue(t) /\ Wake
  /\ UNCHANGED <<plan, clock, token, sched, ctl, job, history>>

-----------------------------------------------------------------------------
(* TTimerRef *)

May(t, op) == handle[t] /\ op \in plan.calls[t]

Cancel(t) ==
  /\ May(t, "Cancel") \/ (May(t, "CancelQueued") /\ entry[t].inHeap)
  /\ ~entry[t].cancelled
  /\ entry' = [entry EXCEPT ![t].cancelled = TRUE, ![t].dead = TRUE]
  /\ quiet' = IF entry[t].inHeap THEN quiet \cup {t} ELSE quiet
  /\ UNCHANGED <<plan, clock, heap, mem, handle, token, wakeup, sched, ctl, job,
                 runs, ended, late>>

\* TTimerRef.Destroy
Drop(t) ==
  /\ May(t, "Destroy")
  /\ entry' = [entry EXCEPT ![t].refs = @ - 1]
  /\ handle' = [handle EXCEPT ![t] = FALSE]
  /\ Dispose({u \in {t} : Disposable(entry'[u])})
  /\ UNCHANGED <<plan, clock, heap, token, wakeup, sched, ctl, job, history>>

\* Mutant: a timer that has left the queue is moved as well.
Movable(t) == ~entry[t].cancelled /\ Kind[t] = "once"

\* The early exits of ResetAt.
CanReset(t) ==
  ~entry[t].cancelled /\ Kind[t] = "once" /\ ~entry[t].fired /\ entry[t].inHeap

\* ResetAt and ResetAfter
ResetAt(t) ==
  /\ May(t, "ResetAt") /\ CanReset(t)
  /\ \E d \in 0 .. plan.horizon : entry' = [entry EXCEPT ![t].deadline = d]
  /\ Wake
  /\ UNCHANGED <<plan, clock, heap, mem, handle, token, sched, ctl, job, history>>

Pause(t) ==
  /\ May(t, "Pause") \/ (May(t, "PauseQueued") /\ entry[t].inHeap)
  /\ Kind[t] # "once"
  /\ ~entry[t].cancelled /\ ~entry[t].dead /\ ~entry[t].paused
  /\ entry' = [entry EXCEPT ![t].paused = TRUE, ![t].inHeap = FALSE]
  /\ IF entry[t].inHeap THEN Remove(t) ELSE UNCHANGED heap
  /\ UNCHANGED <<plan, clock, mem, handle, token, wakeup, sched, ctl, job, history>>

\* A full queue leaves the timer neither paused nor queued.
Resume(t) ==
  /\ May(t, "Resume") /\ Kind[t] # "once" /\ closer # "destroyed"
  /\ ~entry[t].cancelled /\ ~entry[t].dead /\ entry[t].paused
  /\ clock + Period[t] <= plan.horizon
  /\ entry' = [entry EXCEPT ![t].paused = FALSE, ![t].deadline = clock + Period[t],
                            ![t].inHeap = @ \/ HasRoom]
  /\ IF ~entry[t].inHeap /\ HasRoom THEN Enqueue(t) /\ Wake ELSE UNCHANGED <<heap, wakeup>>
  /\ UNCHANGED <<plan, clock, mem, handle, token, sched, ctl, job, history>>

SetMaxExecutions(t) ==
  /\ May(t, "SetMaxExecutions") /\ Kind[t] # "once" /\ ~entry[t].cancelled
  /\ \E n \in Limits : n # entry[t].max /\ entry' = [entry EXCEPT ![t].max = n]
  /\ late' = [late EXCEPT ![t] = entry[t].count]
  /\ UNCHANGED <<plan, clock, heap, mem, handle, token, wakeup, sched, ctl, job,
                 runs, ended, quiet>>

\* The owner of the token cancels it.
CancelToken(t) ==
  /\ t \in Tokens /\ "CancelToken" \in plan.calls[t] /\ ~token[t]
  /\ token' = [token EXCEPT ![t] = TRUE]
  /\ UNCHANGED <<plan, clock, heap, entry, mem, handle, wakeup, sched, ctl, job, history>>

-----------------------------------------------------------------------------
(* ThreadProc *)

\* while not FShuttingDown, read without the lock
Top ==
  /\ thread = "top"
  /\ thread' = IF shuttingDown THEN "exit" ELSE "scan"
  /\ UNCHANGED <<plan, clock, heap, entry, mem, handle, token, wakeup, best, until, ctl, job, history>>

Valid == {t \in Queued : ~Invalid(t)}

\* The entries at the head up to the first valid one: all invalid entries with
\* an earlier deadline, and any of those with the same.
Discarded(D) ==
  LET bad == Queued \ Valid
  IN  /\ D \subseteq bad
      /\ \A t \in bad \ D : \E v \in Valid : entry[v].deadline <= entry[t].deadline
      /\ \A t \in D : \A v \in Valid : entry[t].deadline <= entry[v].deadline

\* Mutant: what is discarded is left to the handle, which may be gone.
DiscardUnfreed(D) ==
  /\ mem' = mem
  /\ heap' = [t \in Timers |-> IF t \in D THEN 0 ELSE heap[t]]

Discard(D) ==
  /\ Dispose({t \in D : Disposable(entry'[t])})
  /\ heap' = [t \in Timers |-> IF t \in D THEN 0 ELSE heap[t]]

\* Out of the queue, and dead unless only paused.
AfterDiscard(D) ==
  [t \in Timers |-> IF t \in D
                    THEN [entry[t] EXCEPT !.inHeap = FALSE, !.dead = @ \/ ~entry[t].paused]
                    ELSE entry[t]]

\* Nothing to wait for: sleep until woken.
ScanEmpty ==
  /\ thread = "scan" /\ Valid = {}
  /\ entry' = AfterDiscard(Queued) /\ Discard(Queued)
  /\ wakeup' = FALSE /\ thread' = "sleep"
  /\ UNCHANGED <<plan, clock, handle, token, best, until, ctl, job, history>>

Earliest(t) == t \in Valid /\ \A v \in Valid : entry[t].deadline <= entry[v].deadline

\* The earliest timer is not due: sleep until then or until woken.  The wait is
\* the remaining time in whole milliseconds and at least one, the model's tick.
ScanEarly(t) ==
  /\ thread = "scan" /\ Earliest(t) /\ entry[t].deadline > clock
  /\ \E D \in SUBSET Queued :
       Discarded(D) /\ entry' = AfterDiscard(D) /\ Discard(D)
  /\ wakeup' = FALSE /\ thread' = "nap" /\ until' = entry[t].deadline
  /\ UNCHANGED <<plan, clock, handle, token, best, ctl, job, history>>

\* The fields of an entry that is due, when it is taken from the queue.
Taken(t) ==
  [entry[t] EXCEPT !.inHeap = FALSE, !.fired = (Kind[t] = "once"),
     !.deadline = IF Kind[t] = "fixedRate" THEN NextRate(@, clock, Period[t]) ELSE @]

ScanDue(t) ==
  /\ thread = "scan" /\ Earliest(t) /\ entry[t].deadline <= clock
  /\ \E D \in SUBSET Queued :
       /\ Discarded(D)
       /\ entry' = [AfterDiscard(D) EXCEPT ![t] = Taken(t)]
       /\ Dispose({u \in D : Disposable(entry'[u])})
       /\ heap' = [u \in Timers |-> IF u \in D THEN 0 ELSE IF u = t THEN heap[u] - 1 ELSE heap[u]]
  /\ thread' = "due" /\ best' = {t}
  /\ UNCHANGED <<plan, clock, handle, token, wakeup, until, ctl, job, history>>

\* FWakeup.Wait and FWakeup.WaitFor(waitMs); the event stays set.
Woken ==
  /\ (thread \in {"sleep", "nap"} /\ wakeup) \/ (thread = "nap" /\ clock >= until)
  /\ thread' = "top" /\ until' = 0
  /\ UNCHANGED <<plan, clock, heap, entry, mem, handle, token, wakeup, best, ctl, job, history>>

\* No executor: the callback runs on this thread, which holds no reference.
Direct(t) ==
  /\ thread = "due" /\ t \in best /\ ~async
  /\ thread' = "callback" /\ job' = [job EXCEPT ![t] = "check"]
  /\ UNCHANGED <<plan, clock, heap, entry, mem, handle, token, wakeup, best, until, ctl, history>>

\* Mutant: the pool's task holds no reference of its own.
HoldNot(t) ==
  /\ thread = "due" /\ t \in best /\ async
  /\ thread' = "submit"
  /\ UNCHANGED <<plan, clock, heap, entry, mem, handle, token, wakeup, best, until, ctl, job, history>>

\* ExecuteCallbackAsync: a reference for the task, then Submit.
Hold(t) ==
  /\ thread = "due" /\ t \in best /\ async
  /\ entry' = [entry EXCEPT ![t].refs = @ + 1]
  /\ thread' = "submit"
  /\ UNCHANGED <<plan, clock, heap, mem, handle, token, wakeup, best, until, ctl, job, history>>

Submit(t) ==
  /\ thread = "submit" /\ t \in best /\ async
  /\ thread' = "top" /\ best' = {} /\ job' = [job EXCEPT ![t] = "check"]
  /\ UNCHANGED <<plan, clock, heap, entry, mem, handle, token, wakeup, until, ctl, history>>

\* Submit raises, because the pool refuses or SetCallbackExecutor took it away
\* meanwhile: the reference is given back and the callback runs here.
SubmitRaises(t) ==
  /\ thread = "submit" /\ t \in best /\ (plan.refusal = "Abort" \/ ~async)
  /\ entry' = [entry EXCEPT ![t].refs = @ - 1]
  /\ thread' = "callback" /\ job' = [job EXCEPT ![t] = "check"]
  /\ UNCHANGED <<plan, clock, heap, mem, handle, token, wakeup, best, until, ctl, history>>

\* A pool that discards the task tells nobody; the reference stays.
SubmitDiscarded(t) ==
  /\ thread = "submit" /\ t \in best /\ plan.refusal = "Discard" /\ async
  /\ thread' = "top" /\ best' = {} /\ job' = [job EXCEPT ![t] = "lost"]
  /\ UNCHANGED <<plan, clock, heap, entry, mem, handle, token, wakeup, until, ctl, history>>

-----------------------------------------------------------------------------
(* The callback: ExecuteCallbackSync on the timer thread, AsyncCallbackTask  *)
(* in the pool                                                               *)

OnThread(t) == thread = "callback" /\ t \in best

\* The callback's code goes on at stage s, or returns.
Stage(t, s) ==
  /\ job' = [job EXCEPT ![t] = s]
  /\ IF s = "idle" /\ OnThread(t)
     THEN thread' = "top" /\ best' = {} /\ UNCHANGED until
     ELSE UNCHANGED sched

\* The references left once a task in the pool has given its own back.
RefsAfter(t) == entry[t].refs - (IF OnThread(t) THEN 0 ELSE 1)

\* A cancelled token skips the callback.
Check(t) ==
  /\ job[t] = "check"
  /\ Stage(t, IF token[t] THEN "skip" ELSE "call")
  /\ runs' = IF token[t] THEN runs ELSE [runs EXCEPT ![t] = @ + 1]
  /\ UNCHANGED <<plan, clock, heap, entry, mem, handle, token, wakeup, ctl,
                 ended, quiet, late>>

\* The lock is released before the thread looks whether it must free the entry;
\* a task in the pool decides under the lock.
Skip(t) ==
  /\ job[t] = "skip"
  /\ entry' = [entry EXCEPT ![t].cancelled = TRUE, ![t].dead = TRUE, ![t].refs = RefsAfter(t)]
  /\ Stage(t, IF OnThread(t) THEN "test" ELSE IF Disposable(entry'[t]) THEN "free" ELSE "idle")
  /\ UNCHANGED <<plan, clock, heap, mem, handle, token, wakeup, ctl, history>>

\* The callback returns, or raises and is not counted.
Return(t) ==
  /\ job[t] = "call"
  /\ \E s \in {"count", "finish"} : Stage(t, s)
  /\ ended' = IF Kind[t] = "fixedDelay" THEN [ended EXCEPT ![t] = clock] ELSE ended
  /\ UNCHANGED <<plan, clock, heap, entry, mem, handle, token, wakeup, ctl,
                 runs, quiet, late>>

\* Mutant: the limit is compared with > .
LimitPassed(t) == Kind[t] # "once" /\ entry[t].max > 0 /\ entry[t].count > entry[t].max

\* The test of MaxExecutions, with the count before the increment.
LimitReached(t) == Kind[t] # "once" /\ entry[t].max > 0 /\ entry[t].count + 1 >= entry[t].max

Count(t) ==
  /\ job[t] = "count"
  /\ entry' = [entry EXCEPT ![t].count = @ + 1, ![t].cancelled = @ \/ LimitReached(t),
                            ![t].dead = @ \/ LimitReached(t)]
  /\ Stage(t, "finish")
  /\ UNCHANGED <<plan, clock, heap, mem, handle, token, wakeup, ctl, history>>

\* Mutant: the delay counts from the deadline that was due.
RearmedFromDeadline(t) ==
  IF Kind[t] = "fixedDelay" THEN entry[t].deadline + Period[t] ELSE entry[t].deadline

\* The next deadline: a fixed delay counts from the end of the callback.
Rearmed(t) ==
  IF Kind[t] = "fixedDelay" THEN clock + Period[t] ELSE entry[t].deadline

\* A periodic timer goes back into the queue ...
FinishAgain(t) ==
  /\ job[t] = "finish" /\ Kind[t] # "once"
  /\ ~entry[t].cancelled /\ ~shuttingDown /\ HasRoom
  /\ entry' = [entry EXCEPT ![t].refs = RefsAfter(t), ![t].inHeap = TRUE, ![t].deadline = Rearmed(t)]
  /\ Enqueue(t) /\ Wake
  /\ Stage(t, "idle")
  /\ UNCHANGED <<plan, clock, mem, handle, token, ctl, history>>

\* ... unless it was cancelled, the scheduler shuts down or the queue is full.
\* The thread frees the entry under the lock, the pool's task after it.
FinishLast(t) ==
  /\ job[t] = "finish" /\ Kind[t] # "once"
  /\ entry[t].cancelled \/ shuttingDown \/ ~HasRoom
  /\ entry' = [entry EXCEPT ![t].refs = RefsAfter(t), ![t].dead = TRUE,
                 ![t].deadline = IF entry[t].cancelled \/ shuttingDown THEN @ ELSE Rearmed(t)]
  /\ IF OnThread(t)
     THEN Stage(t, "idle") /\ Dispose({u \in {t} : Disposable(entry'[u])})
     ELSE Stage(t, IF Disposable(entry'[t]) THEN "free" ELSE "idle") /\ UNCHANGED mem
  /\ UNCHANGED <<plan, clock, heap, handle, token, wakeup, ctl, history>>

\* A one-shot timer is dead; the thread sets the flag and looks at the count
\* without the lock.
FinishOnce(t) ==
  /\ job[t] = "finish" /\ Kind[t] = "once"
  /\ entry' = [entry EXCEPT ![t].refs = RefsAfter(t), ![t].dead = TRUE]
  /\ Stage(t, IF OnThread(t) THEN "test" ELSE IF Disposable(entry'[t]) THEN "free" ELSE "idle")
  /\ UNCHANGED <<plan, clock, heap, mem, handle, token, wakeup, ctl, history>>

Test(t) ==
  /\ job[t] = "test"
  /\ Stage(t, IF Disposable(entry[t]) THEN "free" ELSE "idle")
  /\ UNCHANGED <<plan, clock, heap, entry, mem, handle, token, wakeup, ctl, history>>

Free(t) ==
  /\ job[t] = "free"
  /\ Dispose({t}) /\ Stage(t, "idle")
  /\ UNCHANGED <<plan, clock, heap, entry, handle, token, wakeup, ctl, history>>

-----------------------------------------------------------------------------
(* Shutdown, Destroy, SetCallbackExecutor *)

Shutdown ==
  /\ plan.control \cap {"Shutdown", "Destroy"} # {} /\ closer = "open"
  /\ shuttingDown' = TRUE /\ closer' = "flagged"
  /\ UNCHANGED <<plan, clock, heap, entry, mem, handle, token, wakeup, sched, async, job, history>>

ShutdownSignal ==
  /\ closer = "flagged"
  /\ Wake /\ closer' = "joining"
  /\ UNCHANGED <<plan, clock, heap, entry, mem, handle, token, sched, shuttingDown, async, job, history>>

ShutdownJoin ==
  /\ closer = "joining" /\ thread = "exit"
  /\ closer' = "down"
  /\ UNCHANGED <<plan, clock, heap, entry, mem, handle, token, wakeup, sched, shuttingDown, async, job, history>>

\* Mutant: the entries are taken from the queue and not marked.
ClearedUnmarked ==
  [t \in Timers |-> IF t \in Queued THEN [entry[t] EXCEPT !.inHeap = FALSE] ELSE entry[t]]

Cleared ==
  [t \in Timers |-> IF t \in Queued
                    THEN [entry[t] EXCEPT !.inHeap = FALSE, !.dead = TRUE, !.cancelled = TRUE]
                    ELSE entry[t]]

\* A task in the pool holds a reference to the scheduler, so Destroy comes after.
Destroy ==
  /\ "Destroy" \in plan.control /\ closer = "down"
  /\ \A t \in Timers : job[t] = "idle"
  /\ entry' = Cleared
  /\ Dispose({t \in Queued : Disposable(entry'[t])})
  /\ heap' = [t \in Timers |-> 0] /\ closer' = "destroyed"
  /\ UNCHANGED <<plan, clock, handle, token, wakeup, sched, shuttingDown, async, job, history>>

SetCallbackExecutor ==
  /\ "SetCallbackExecutor" \in plan.control /\ closer # "destroyed"
  /\ async' = ~async
  /\ UNCHANGED <<plan, clock, heap, entry, mem, handle, token, wakeup, sched, shuttingDown, closer, job, history>>

-----------------------------------------------------------------------------
Scan == ScanEmpty \/ \E t \in Timers : ScanEarly(t) \/ ScanDue(t)

Dispatch == \E t \in Timers : Direct(t) \/ Hold(t) \/ Submit(t) \/ SubmitRaises(t) \/ SubmitDiscarded(t)

ThreadStep == Top \/ Scan \/ Woken \/ Dispatch

JobStep(t) ==
  Check(t) \/ Skip(t) \/ Return(t) \/ Count(t) \/ FinishAgain(t) \/ FinishLast(t)
    \/ FinishOnce(t) \/ Test(t) \/ Free(t)

HandleCall(t) ==
  Schedule(t) \/ Cancel(t) \/ Drop(t) \/ ResetAt(t) \/ Pause(t) \/ Resume(t)
    \/ SetMaxExecutions(t) \/ CancelToken(t)

Closing == ShutdownSignal \/ ShutdownJoin

Next ==
  \/ Tick \/ ThreadStep
  \/ \E t \in Timers : JobStep(t) \/ HandleCall(t)
  \/ Shutdown \/ Closing \/ Destroy \/ SetCallbackExecutor

Spec == Init /\ [][Next]_vars

\* The timer thread, the pool and a thread inside Shutdown keep running, a
\* callback returns, and time passes.
Fairness ==
  /\ WF_vars(ThreadStep) /\ WF_vars(Tick) /\ WF_vars(Closing)
  /\ \A t \in Timers : WF_vars(JobStep(t))

FairSpec == Spec /\ Fairness

-----------------------------------------------------------------------------
(* Properties *)

\* Who may still touch the memory of an entry.
Held(t) ==
  handle[t] \/ t \in Queued \/ job[t] \notin {"idle", "lost"}
    \/ (t \in best /\ thread \in {"due", "submit"})

\* No entry is freed while the queue, a handle, the timer thread between taking
\* it and running it, or a callback in progress can still reach it (so none is
\* freed twice either): the reference counts, the Dead flag and InHeap agree.
NeverFreedInUse == \A t \in Timers : Held(t) => mem[t] = "live"

\* An entry that nobody reaches any more has been freed: the last one to let go
\* of it, whoever that is, disposes of it.
NoLeak == \A t \in Timers : mem[t] = "live" => Held(t) \/ job[t] = "lost"

\* After Destroy every entry a handle still reaches is dead, so that no handle
\* call goes to the scheduler that is gone.
NoDanglingOwner ==
  closer = "destroyed" => \A t \in Timers : handle[t] => entry[t].dead

\* Memory is handled rightly by all who share it: an entry is freed when, and only
\* when, nobody can reach it, and none refers to a scheduler that is gone.
MemorySafe == NeverFreedInUse /\ NoLeak /\ NoDanglingOwner

\* InHeap tells whether the entry is in the queue, where it is at most once;
\* Pause, Resume and the end of a callback all insert and remove by that flag.
InHeapOnce == \A t \in Timers : heap[t] = (IF entry[t].inHeap THEN 1 ELSE 0)

\* The entries have their types, and the queue is what they say it is.
WellFormed == TypeOK /\ InHeapOnce

\* A one-shot callback starts once and not before the deadline that the last
\* successful ResetAt gave it: a timer that was taken from the queue cannot be
\* moved any more.
OnceNotEarly ==
  \A t \in Timers : Kind[t] = "once" =>
    /\ runs[t] <= 1
    /\ runs[t] = 1 => clock >= entry[t].deadline

\* A fixed-rate timer that is taken, however late, skips the points it missed and
\* keeps to its grid: its next deadline is the first grid point after now, for
\* every catch-up limit.
RateKept ==
  \A t \in best' \ best : Kind[t] = "fixedRate" =>
    /\ (entry'[t].deadline - entry[t].deadline) % Period[t] = 0
    /\ clock < entry'[t].deadline /\ entry'[t].deadline <= clock + Period[t]

\* Two starts of a fixed-delay callback are separated by its delay, counted from
\* the end of the first.
DelayKept ==
  \A t \in Timers :
    Kind[t] = "fixedDelay" /\ runs'[t] > runs[t] /\ runs[t] > 0
      => clock >= ended[t] + Period[t]

\* The count passes MaxExecutions only when the limit was set below a count
\* already reached, and then by one run.
LimitKept ==
  \A t \in Timers : entry[t].max > 0 /\ entry[t].count > entry[t].max
    => entry[t].count <= late[t] + 1

\* A periodic timer starts its callback neither too early nor too often, on the
\* timer thread or in a pool: rate, delay and limit are kept.
PeriodsKept == [][RateKept /\ DelayKept /\ LimitKept']_vars

\* A timer cancelled while it waits in the queue never runs again, however soon
\* it was due.
QuietAfterCancel == [][\A t \in quiet : runs'[t] = runs[t]]_vars

\* The thread never sleeps past a deadline: if it waits and was not woken, no
\* timer in the queue is due before its wait ends, whatever was inserted, moved
\* or resumed since it computed the wait.
NoOversleep ==
  /\ thread = "nap" /\ ~wakeup => \A t \in Valid : until <= entry[t].deadline
  /\ thread = "sleep" /\ ~wakeup => Valid = {}

\* Every timer runs, unless it is cancelled or paused, its queue was full, the
\* pool threw its callback away or the scheduler shuts down.
Fires ==
  \A t \in Timers :
    mem[t] = "live" ~>
      (runs[t] > 0 \/ entry[t].cancelled \/ entry[t].paused \/ token[t]
         \/ entry[t].dead \/ job[t] = "lost" \/ shuttingDown)

\* Shutdown returns: the thread always looks at FShuttingDown again and leaves.
ShutdownReturns == closer = "joining" ~> closer \in {"down", "destroyed"}
=============================================================================
