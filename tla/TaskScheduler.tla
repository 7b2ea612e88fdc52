--------------------------- MODULE TaskScheduler ---------------------------
(***************************************************************************)
(* TTaskScheduler (fafafa.core.thread.scheduler.pas): tasks with a delay   *)
(* wait in a heap; a timer thread takes the ones that are due and hands    *)
(* them to a pool with one worker, which settles the future the caller got.*)
(*                                                                         *)
(* The closures submitted to the pool are anonymous functions inside       *)
(* TimerLoop.  They capture its variables, not their values: all of them   *)
(* share LFunc, LMethod, LRef, LRef1, LData and LUserFuture of the one     *)
(* call of TimerLoop, which loads the next item into them whether or not   *)
(* the pool is done with the last one.  code is the item LFunc .. LData    *)
(* come from, owner the one LUserFuture comes from; a closure runs what    *)
(* code has for its kind and settles the future of owner, each as it is    *)
(* when the closure comes to it.                                           *)
(*                                                                         *)
(* The heap is a set of which the earliest is taken; the pool is a queue   *)
(* of closures, each named after the task it was submitted for, and one    *)
(* worker (ThreadPool has the details).                                    *)
(***************************************************************************)
EXTENDS Integers, Sequences, FiniteSets, Functions

CONSTANTS
  Tasks,       \* the tasks, each scheduled at most once
  Kind,        \* Func, Method, Ref or Ref1, per task
  TokenTasks,  \* the tasks scheduled with a cancellation token
  Delays,      \* the values of ADelayMs, in ticks of the clock, per task
  Horizon,     \* bound: the clock stops here
  None         \* no task

ASSUME SchedulerAssumption ==
  /\ Kind \in [Tasks -> {"Func", "Method", "Ref", "Ref1"}]
  /\ TokenTasks \subseteq Tasks
  /\ Delays \in [Tasks -> SUBSET Nat] /\ Horizon \in Nat
  /\ None \notin Tasks

VARIABLES
  clock,      \* NowInstant
  heap,       \* FHeap
  due,        \* DueAt of each task
  future,     \* the state of the future of each task; "none" before Schedule
  token,      \* whether the token of a task is cancelled
  shutdown,   \* FShutdown
  loop,       \* where TimerLoop stands
  item,       \* LItem
  code,       \* the item LFunc, LMethod, LRef, LRef1 and LData come from
  owner,      \* the item LUserFuture comes from
  pool,       \* the closures waiting in the pool
  worker,     \* the closure being run, the body it called and where it stands
  closer,     \* where Shutdown stands
  scheduled, executed, cancelled, active,   \* the metrics
  ran,        \* history: how often the body of a task was started
  withdrawn,  \* history: the tasks whose future was cancelled in the heap
  stopped,    \* history: the tasks whose token was cancelled in the heap
  overwritten \* history: the tasks whose closure lost its variables to the next item

metrics == <<scheduled, executed, cancelled, active>>
exec    == <<pool, worker>>
control == <<loop, item, code, owner>>
ending  == <<shutdown, closer>>
history == <<ran, withdrawn, stopped, overwritten>>
calls   == <<withdrawn, stopped>>
vars    == <<clock, heap, due, future, token, control, exec, ending, metrics, history>>

\* The closure in the worker: the task it was made for, the task whose body it
\* called (None if it found none), and whether it is past an exception.
Running == [of : Tasks \cup {None}, body : Tasks \cup {None}, at : {"none", "task", "except"}]
Idle    == [of |-> None, body |-> None, at |-> "none"]

TypeOK ==
  /\ clock \in 0 .. Horizon /\ heap \subseteq Tasks /\ due \in [Tasks -> Nat]
  /\ future \in [Tasks -> {"none", "pending", "completed", "failed", "cancelled"}]
  /\ token \in [Tasks -> BOOLEAN] /\ shutdown \in BOOLEAN
  /\ loop \in {"round", "load", "future", "token", "submit", "exit", "dead"}
  /\ item \in Tasks \cup {None} /\ code \in Tasks \cup {None} /\ owner \in Tasks \cup {None}
  /\ pool \in Seq(Tasks)
  /\ worker \in Running
  /\ closer \in {"open", "waiting", "down"}
  /\ scheduled \in Nat /\ executed \in Nat /\ cancelled \in Nat /\ active \in Nat
  /\ ran \in [Tasks -> Nat]
  /\ withdrawn \subseteq Tasks /\ stopped \subseteq Tasks /\ overwritten \subseteq Tasks

Init ==
  /\ clock = 0 /\ heap = {} /\ due = [t \in Tasks |-> 0]
  /\ future = [t \in Tasks |-> "none"] /\ token = [t \in Tasks |-> FALSE]
  /\ shutdown = FALSE /\ loop = "round" /\ item = None /\ code = None /\ owner = None
  /\ pool = <<>> /\ worker = Idle /\ closer = "open"
  /\ scheduled = 0 /\ executed = 0 /\ cancelled = 0 /\ active = 0
  /\ ran = [t \in Tasks |-> 0]
  /\ withdrawn = {} /\ stopped = {} /\ overwritten = {}

-----------------------------------------------------------------------------
(* The caller *)

Tick ==
  /\ clock < Horizon /\ clock' = clock + 1
  /\ UNCHANGED <<heap, due, future, token, control, exec, ending, metrics, history>>

\* A cancelled token gives no future, a closed scheduler an exception.
Schedule(t) ==
  /\ future[t] = "none" /\ ~token[t] /\ ~shutdown
  /\ \E d \in Delays[t] : clock + d <= Horizon /\ due' = [due EXCEPT ![t] = clock + d]
  /\ future' = [future EXCEPT ![t] = "pending"]
  /\ heap' = heap \cup {t}
  /\ scheduled' = scheduled + 1 /\ active' = active + 1
  /\ UNCHANGED <<clock, token, control, exec, ending, executed, cancelled, history>>

\* IFuture.Cancel by the caller
CancelFuture(t) ==
  /\ future[t] = "pending"
  /\ future' = [future EXCEPT ![t] = "cancelled"]
  /\ withdrawn' = IF t \in heap THEN withdrawn \cup {t} ELSE withdrawn
  /\ UNCHANGED <<clock, heap, due, token, control, exec, ending, metrics, ran, stopped, overwritten>>

CancelToken(t) ==
  /\ t \in TokenTasks /\ ~token[t]
  /\ token' = [token EXCEPT ![t] = TRUE]
  /\ stopped' = IF t \in heap THEN stopped \cup {t} ELSE stopped
  /\ UNCHANGED <<clock, heap, due, future, control, exec, ending, metrics, ran, withdrawn, overwritten>>

-----------------------------------------------------------------------------
(* TimerLoop *)

Exit ==
  /\ loop = "round" /\ shutdown
  /\ loop' = "exit"
  /\ UNCHANGED <<clock, heap, due, future, token, item, code, owner, exec, ending, metrics, history>>

\* Mutant: RemoveCancelledHeads finds nothing.
CancelledUnseen == {}

Cancelled == {t \in heap : future[t] = "cancelled"}

\* if FActiveTasks > 0 then Dec(FActiveTasks), n times
LessActive(n) == IF active > n THEN active - n ELSE 0

\* Mutant: removed entries stay active.
PurgeUncounted(P) ==
  /\ cancelled' = cancelled + Cardinality(P)
  /\ UNCHANGED active

\* RemoveCancelledHeads counts what it removes.
Purge(P) ==
  /\ cancelled' = cancelled + Cardinality(P)
  /\ active' = LessActive(Cardinality(P))

\* RemoveCancelledHeads scans the array while it removes from it: the head it
\* leaves is not cancelled, but an entry that moves up behind the scan is missed.
Purgeable(P) ==
  /\ P \subseteq Cancelled
  /\ \A t \in Cancelled \ P : \E u \in heap \ Cancelled : due[u] <= due[t]

Earliest(S, t) == t \in S /\ \A u \in S : due[t] <= due[u]

\* Nothing is due: sleep and come again.
RoundIdle ==
  /\ loop = "round" /\ ~shutdown
  /\ \E P \in SUBSET Cancelled :
       /\ Purgeable(P) /\ Purge(P)
       /\ heap' = heap \ P
  /\ \A t \in heap' : due[t] > clock
  /\ UNCHANGED <<clock, due, future, token, control, exec, ending, scheduled, executed, history>>

\* PopDueItem: Top^.DueAt <= ANow
IsDue(t) == due[t] <= clock

\* The tasks whose closures wait in the pool or run.
Alive == Range(pool) \cup ({worker.of} \ {None})

RoundTake(t) ==
  /\ loop = "round" /\ ~shutdown
  /\ \E P \in SUBSET Cancelled :
       /\ Purgeable(P) /\ Purge(P)
       /\ Earliest(heap \ P, t) /\ t \notin Cancelled /\ IsDue(t)
       /\ heap' = (heap \ P) \ {t}
  /\ item' = t /\ loop' = "load"
  /\ UNCHANGED <<clock, due, future, token, code, owner, exec, ending, scheduled, executed, history>>

\* LFunc .. LData are loaded, under the closures that are still alive.
LoadCode ==
  /\ loop = "load" /\ loop' = "future"
  /\ code' = item
  /\ overwritten' = overwritten \cup Alive
  /\ UNCHANGED <<clock, heap, due, future, token, item, owner, exec, ending, metrics, ran, calls>>

\* The item leaves the timer thread's hands and was not dispatched.
DropItem ==
  /\ cancelled' = cancelled + 1 /\ active' = LessActive(1)
  /\ item' = None
  /\ UNCHANGED <<scheduled, executed>>

\* LUserFuture is loaded; a future cancelled meanwhile ends it here (Fail leaves
\* a cancelled future as it is).
LoadFuture ==
  /\ loop = "future"
  /\ owner' = item
  /\ IF future[item] = "cancelled"
     THEN DropItem /\ loop' = "round"
     ELSE loop' = "token" /\ UNCHANGED <<item, metrics>>
  /\ UNCHANGED <<clock, heap, due, future, token, code, exec, ending, history>>

\* Mutant: the token is only looked at by Schedule.
TokenIgnored(t) == FALSE

TokenRequested(t) == token[t]

\* A cancelled token cancels the future; Cancel raises if the future is already
\* completed, and nothing in TimerLoop catches that.
TokenCheck ==
  /\ loop = "token"
  /\ IF TokenRequested(item)
     THEN /\ DropItem
          /\ loop' = IF future[item] = "completed" THEN "dead" ELSE "round"
          /\ future' = IF future[item] = "pending" THEN [future EXCEPT ![item] = "cancelled"] ELSE future
     ELSE loop' = "submit" /\ UNCHANGED <<item, metrics, future>>
  /\ UNCHANGED <<clock, heap, due, token, code, owner, exec, ending, history>>

\* Mutant: the pool gets the closure twice.
SubmitTwice ==
  /\ loop = "submit"
  /\ executed' = executed + 1 /\ active' = LessActive(1)
  /\ pool' = pool \o <<item, item>>
  /\ item' = None /\ loop' = "round"
  /\ UNCHANGED <<clock, heap, due, future, token, code, owner, worker, ending, scheduled, cancelled, history>>

Submit ==
  /\ loop = "submit"
  /\ executed' = executed + 1 /\ active' = LessActive(1)
  /\ pool' = Append(pool, item)
  /\ item' = None /\ loop' = "round"
  /\ UNCHANGED <<clock, heap, due, future, token, code, owner, worker, ending, scheduled, cancelled, history>>

-----------------------------------------------------------------------------
(* The closures, in the pool's one worker *)

\* The closure calls what the captured variables hold for its kind; a nil
\* variable counts as success.
Begin ==
  /\ worker = Idle /\ pool # <<>>
  /\ LET body == IF Kind[code] = Kind[Head(pool)] THEN code ELSE None
     IN  /\ worker' = [of |-> Head(pool), body |-> body, at |-> "task"]
         /\ ran' = IF body = None THEN ran ELSE [ran EXCEPT ![body] = @ + 1]
  /\ pool' = Tail(pool)
  /\ UNCHANGED <<clock, heap, due, future, token, control, ending, metrics, calls, overwritten>>

\* Mutant: the future is completed whether the task failed or not, and failed
\* when it was cancelled.
SettleAny(t, ok) == [future EXCEPT ![t] = IF ok THEN "completed" ELSE "failed"]

\* Complete or Fail on the future the captured variable holds now.
Settle(t, ok) ==
  IF future[t] = "pending"
  THEN [future EXCEPT ![t] = IF ok THEN "completed" ELSE "failed"]
  ELSE future

\* The task returns True, or returns False or raises.  Complete raises on a
\* settled future, which leads to the except part.
End ==
  /\ worker.at = "task"
  /\ \E ok \in BOOLEAN :
       /\ worker.body = None => ok
       /\ future' = Settle(owner, ok)
       /\ worker' = IF ok /\ future[owner] # "pending" THEN [worker EXCEPT !.at = "except"] ELSE Idle
  /\ UNCHANGED <<clock, heap, due, token, control, pool, ending, metrics, history>>

\* The except part reads LUserFuture again.
EndExcept ==
  /\ worker.at = "except"
  /\ future' = Settle(owner, FALSE) /\ worker' = Idle
  /\ UNCHANGED <<clock, heap, due, token, control, pool, ending, metrics, history>>

-----------------------------------------------------------------------------
(* Shutdown *)

Shutdown ==
  /\ closer = "open"
  /\ shutdown' = TRUE /\ closer' = "waiting"
  /\ UNCHANGED <<clock, heap, due, future, token, control, exec, metrics, history>>

\* Mutant: what is left in the heap is thrown away.
AbandonRest == future

\* The futures of the tasks left in the heap fail.
FailRest ==
  [t \in Tasks |-> IF t \in heap /\ future[t] = "pending" THEN "failed" ELSE future[t]]

\* Once the timer thread is gone.
ShutdownRest ==
  /\ closer = "waiting" /\ loop \in {"exit", "dead"}
  /\ future' = FailRest
  /\ Purge(heap) /\ heap' = {}
  /\ closer' = "down"
  /\ UNCHANGED <<clock, due, token, control, exec, shutdown, scheduled, executed, history>>

-----------------------------------------------------------------------------
TimerStep ==
  Exit \/ RoundIdle \/ (\E t \in Tasks : RoundTake(t))
  \/ LoadCode \/ LoadFuture \/ TokenCheck \/ Submit

WorkerStep == Begin \/ End \/ EndExcept

Next ==
  \/ Tick \/ TimerStep \/ WorkerStep
  \/ \E t \in Tasks : Schedule(t) \/ CancelFuture(t) \/ CancelToken(t)
  \/ Shutdown \/ ShutdownRest

Spec == Init /\ [][Next]_vars

\* The timer thread polls, the worker works, a task returns, a thread inside
\* Shutdown goes on, and time passes.
Fairness ==
  /\ WF_vars(TimerStep) /\ WF_vars(WorkerStep) /\ WF_vars(ShutdownRest) /\ WF_vars(Tick)

FairSpec == Spec /\ Fairness

-----------------------------------------------------------------------------
(* Properties *)

\* A future is completed by its own task only: it is completed after the body
\* of its task was started, and no body is started twice.
OwnFuture ==
  \A t \in Tasks : ran[t] <= 1 /\ (future[t] = "completed" => ran[t] = 1)

\* The futures that closures settled; Shutdown fails futures in its last step.
ByClosure ==
  {t \in Tasks : future[t] = "completed" \/ (future[t] = "failed" /\ closer # "down")}

\* The shared variables may lead a closure to another task's future, but no
\* further: no closure settles two futures (there are never more settled, and
\* closures that may still settle one, than tasks dispatched), although its
\* except part looks for the future again, and a future is settled only once its
\* task is due and has left the heap.
SettlementsBacked ==
  /\ Cardinality(ByClosure) + Len(pool) + (IF worker = Idle THEN 0 ELSE 1) <= executed
  /\ \A t \in ByClosure : t \notin heap /\ IsDue(t)

\* A body starts only once its task is due, and never if its future was cancelled
\* while it waited in the heap; and no closure is made for a task whose future
\* or token was cancelled there: both are looked at again outside the heap.
OnlyDueTasksRun ==
  /\ \A t \in Tasks : ran[t] > 0 => IsDue(t) /\ t \notin withdrawn
  /\ Alive \cap (withdrawn \cup stopped) = {}

\* No body starts whose future or token was cancelled while the task waited.
CancelledNeverRuns == \A t \in withdrawn \cup stopped : ran[t] = 0

\* What was scheduled was executed, was cancelled or is active, and the active
\* ones are in the heap or in the timer thread's hands: every path out of the
\* heap counts once, and no counter goes below zero.
MetricsBalance ==
  /\ TypeOK
  /\ scheduled = executed + cancelled + active
  /\ active = Cardinality(heap) + (IF item = None THEN 0 ELSE 1)

Settled == {"completed", "failed", "cancelled"}

\* Whoever settles a future first has the last word.
SettledOnce == [][\A t \in Tasks : future[t] \in Settled => future'[t] = future[t]]_vars

\* Every future is settled: its task runs, or Shutdown fails it.
EveryFutureSettles == \A t \in Tasks : future[t] = "pending" ~> future[t] \in Settled

\* Every future is settled, and once, but for two ways out: the next item was
\* loaded over the variables of the task's closure, or the exception of Cancel
\* on a future that such a closure had completed ended the timer thread.
SettlesUnlessOverwritten ==
  /\ SettledOnce
  /\ \A t \in Tasks :
       future[t] = "pending" ~> future[t] \in Settled \/ t \in overwritten \/ loop = "dead"
=============================================================================
