------------------------------- MODULE Future -------------------------------
(***************************************************************************)
(* TFuture, the one-shot result cell every asynchronous operation of the   *)
(* library hands out (fafafa.core.thread.future.pas).                      *)
(*                                                                         *)
(* FState, FOnComplete and FCallbackInvoked are only touched under FLock,  *)
(* so one critical section is one step; what a method does between two     *)
(* sections, and the callbacks it runs outside the lock, are steps of      *)
(* their own.  FEvent is the manual-reset TEvent of                        *)
(* fafafa.core.sync.event.unix.pas.                                        *)
(*                                                                         *)
(* A thread makes one call.  TFuture keeps no per-thread state, so a       *)
(* thread that makes several calls is several elements of Threads.  The    *)
(* callback a thread registers is named after the thread.                  *)
(***************************************************************************)
EXTENDS Naturals, FiniteSets

CONSTANTS
  Threads,   \* the threads that hold a reference to the future
  MayCall,   \* the operations each of them may call
  None       \* no callback

Operations == {"Complete", "Fail", "Cancel", "OnComplete", "Map",
               "ContinueWith", "WaitFor", "WaitForMs"}

ASSUME FutureAssumption ==
  /\ MayCall \in [Threads -> SUBSET Operations]
  /\ None \notin Threads

VARIABLES
  state,       \* FState
  signaled,    \* FEvent: TEvent.FSignaled of a manual-reset event
  onComplete,  \* FOnComplete: the registered callback, or None
  invoked,     \* FCallbackInvoked
  op,          \* the operation each thread called
  pc,          \* where each call stands
  cb,          \* LCallback: the callback a call is about to run
  runs,        \* how often each callback ran
  child,       \* state of the future ContinueWith/Map/AndThen returned
  res          \* what each call returned

core == <<state, signaled>>
vars == <<state, signaled, onComplete, invoked, op, pc, cb, runs, child, res>>

\* TFutureState
FutureStates == {"Pending", "Completed", "Cancelled", "Failed"}

\* IsDone's test
Done == state \in {"Completed", "Cancelled", "Failed"}

Locations == {"idle", "notify", "invoke", "register", "wait", "recheck", "done"}
Results   == {"none", "true", "false", "raise"}

\* The calls that take a callback, and those that return a new future.
Registering == {"OnComplete", "Map", "ContinueWith"}
Chaining    == {"Map", "ContinueWith"}

TypeOK ==
  /\ state \in FutureStates
  /\ signaled \in BOOLEAN
  /\ onComplete \in Threads \cup {None}
  /\ invoked \in BOOLEAN
  /\ op \in [Threads -> Operations \cup {"none"}]
  /\ pc \in [Threads -> Locations]
  /\ cb \in [Threads -> Threads \cup {None}]
  /\ runs \in [Threads -> Nat]
  /\ child \in [Threads -> {"none", "Pending", "Completed", "Failed"}]
  /\ res \in [Threads -> Results]

\* TFuture.Create
Init ==
  /\ state = "Pending"
  /\ signaled = FALSE
  /\ onComplete = None
  /\ invoked = FALSE
  /\ op = [t \in Threads |-> "none"]
  /\ pc = [t \in Threads |-> "idle"]
  /\ cb = [t \in Threads |-> None]
  /\ runs = [t \in Threads |-> 0]
  /\ child = [t \in Threads |-> "none"]
  /\ res = [t \in Threads |-> "none"]

-----------------------------------------------------------------------------
(* Control *)

Begin(t, o) ==
  /\ pc[t] = "idle"
  /\ o \in MayCall[t]
  /\ op' = [op EXCEPT ![t] = o]

Goto(t, l) ==
  /\ pc' = [pc EXCEPT ![t] = l]
  /\ UNCHANGED res

Return(t, r) ==
  /\ pc' = [pc EXCEPT ![t] = "done"]
  /\ res' = [res EXCEPT ![t] = r]

\* Mutant: the event is forgotten.
SettleSilently(s) ==
  /\ state' = s
  /\ UNCHANGED signaled

\* SetCompleted, SetCancelled, SetFailed: the state, then FEvent.SetEvent.
Settle(s) ==
  /\ state' = s
  /\ signaled' = TRUE

-----------------------------------------------------------------------------
(* Settling the future *)

\* Mutant: Complete overwrites a cancelled or failed future.
CompleteUnlessCompleted(t) ==
  /\ Begin(t, "Complete")
  /\ \/ state # "Completed" /\ Settle("Completed") /\ Goto(t, "notify")
     \/ state = "Completed" /\ Return(t, "raise") /\ UNCHANGED core
  /\ UNCHANGED <<onComplete, invoked, cb, runs, child>>

\* Complete raises EInvalidOperation, without notifying, on a settled future.
Complete(t) ==
  /\ Begin(t, "Complete")
  /\ \/ state = "Pending" /\ Settle("Completed") /\ Goto(t, "notify")
     \/ Done /\ Return(t, "raise") /\ UNCHANGED core
  /\ UNCHANGED <<onComplete, invoked, cb, runs, child>>

\* Mutant: Fail settles the future and returns without NotifyCompletion.
FailWithoutNotify(t) ==
  /\ Begin(t, "Fail")
  /\ \/ state = "Pending" /\ Settle("Failed")
     \/ Done /\ UNCHANGED core
  /\ Return(t, "true")
  /\ UNCHANGED <<onComplete, invoked, cb, runs, child>>

\* Fail leaves a settled future alone, and notifies in either case.
Fail(t) ==
  /\ Begin(t, "Fail")
  /\ \/ state = "Pending" /\ Settle("Failed")
     \/ Done /\ UNCHANGED core
  /\ Goto(t, "notify")
  /\ UNCHANGED <<onComplete, invoked, cb, runs, child>>

\* Cancel settles and sets the event; it never calls NotifyCompletion.
Cancel(t) ==
  /\ Begin(t, "Cancel")
  /\ \/ state = "Pending" /\ Settle("Cancelled") /\ Return(t, "true")
     \/ state = "Completed" /\ Return(t, "raise") /\ UNCHANGED core
     \/ state \in {"Cancelled", "Failed"} /\ Return(t, "false") /\ UNCHANGED core
  /\ UNCHANGED <<onComplete, invoked, cb, runs, child>>

\* Mutant: the callback is neither cleared nor marked as invoked.
NotifyKeepsCallback(t) ==
  /\ pc[t] = "notify"
  /\ \/ /\ ~invoked /\ onComplete # None
        /\ cb' = [cb EXCEPT ![t] = onComplete]
        /\ Goto(t, "invoke")
     \/ /\ invoked \/ onComplete = None
        /\ Return(t, "true")
        /\ UNCHANGED cb
  /\ UNCHANGED <<core, onComplete, invoked, op, runs, child>>

\* NotifyCompletion, the locked part: take the callback unless one was invoked.
Notify(t) ==
  /\ pc[t] = "notify"
  /\ \/ /\ ~invoked /\ onComplete # None
        /\ invoked' = TRUE
        /\ cb' = [cb EXCEPT ![t] = onComplete]
        /\ onComplete' = None
        /\ Goto(t, "invoke")
     \/ /\ invoked \/ onComplete = None
        /\ Return(t, "true")
        /\ UNCHANGED <<invoked, cb, onComplete>>
  /\ UNCHANGED <<core, op, runs, child>>

\* How the new future of a chaining call ends, by what the callback does:
\* ContinueWith fails it when the callback returns False, Map and AndThen
\* look only for an exception.
ChildAfter(c, outcome) ==
  CASE op[c] \notin Chaining -> child[c]
    [] outcome = "raise" -> "Failed"
    [] outcome = "false" /\ op[c] = "ContinueWith" -> "Failed"
    [] OTHER -> "Completed"

\* The callback runs outside the lock; its exceptions are swallowed.
Invoke(t) ==
  /\ pc[t] = "invoke"
  /\ runs' = [runs EXCEPT ![cb[t]] = @ + 1]
  /\ \E outcome \in {"true", "false", "raise"} :
       child' = [child EXCEPT ![cb[t]] = ChildAfter(cb[t], outcome)]
  /\ cb' = [cb EXCEPT ![t] = None]
  /\ Return(t, "true")
  /\ UNCHANGED <<core, onComplete, invoked, op>>

-----------------------------------------------------------------------------
(* Registering a callback *)

\* Mutant: the callback runs directly whatever the state is.
RunDirectly(t) ==
  /\ invoked' = TRUE
  /\ cb' = [cb EXCEPT ![t] = t]
  /\ Goto(t, "invoke")
  /\ UNCHANGED onComplete

\* OnComplete: record the callback while pending (the latest wins); on a
\* settled future run it directly, unless a callback was invoked already.
RegisterOrRun(t) ==
  \/ /\ state = "Pending"
     /\ onComplete' = t
     /\ Return(t, "true")
     /\ UNCHANGED <<invoked, cb>>
  \/ /\ Done /\ ~invoked
     /\ invoked' = TRUE
     /\ cb' = [cb EXCEPT ![t] = t]
     /\ Goto(t, "invoke")
     /\ UNCHANGED onComplete
  \/ /\ Done /\ invoked
     /\ Return(t, "true")
     /\ UNCHANGED <<invoked, cb, onComplete>>

OnComplete(t) ==
  /\ Begin(t, "OnComplete")
  /\ RegisterOrRun(t)
  /\ UNCHANGED <<core, runs, child>>

\* Map, and AndThen, which has the same body.
Map(t) ==
  /\ Begin(t, "Map")
  /\ child' = [child EXCEPT ![t] = "Pending"]
  /\ RegisterOrRun(t)
  /\ UNCHANGED <<core, runs>>

\* ContinueWith: IsDone in one section; a settled future runs the callback at
\* once, without looking at FCallbackInvoked.
ContinueWith(t) ==
  /\ Begin(t, "ContinueWith")
  /\ child' = [child EXCEPT ![t] = "Pending"]
  /\ \/ Done /\ cb' = [cb EXCEPT ![t] = t] /\ Goto(t, "invoke")
     \/ ~Done /\ Goto(t, "register") /\ UNCHANGED cb
  /\ UNCHANGED <<core, onComplete, invoked, runs>>

\* ContinueWith's second section stores the callback whatever the state is now.
ContinueRegister(t) ==
  /\ pc[t] = "register"
  /\ onComplete' = t
  /\ Return(t, "true")
  /\ UNCHANGED <<core, invoked, op, cb, runs, child>>

-----------------------------------------------------------------------------
(* Waiting *)

WaitFor(t) ==
  /\ \E o \in {"WaitFor", "WaitForMs"} : Begin(t, o)
  /\ \/ Done /\ Return(t, "true")
     \/ ~Done /\ Goto(t, "wait")
  /\ UNCHANGED <<core, onComplete, invoked, cb, runs, child>>

\* FEvent.WaitFor returns wrSignaled; the event is manual-reset.
WaitSignaled(t) ==
  /\ pc[t] = "wait"
  /\ signaled
  /\ Return(t, "true")
  /\ UNCHANGED <<core, onComplete, invoked, op, cb, runs, child>>

\* ... or wrTimeout, which TEvent reports without looking at FSignaled again.
WaitTimeout(t) ==
  /\ pc[t] = "wait"
  /\ op[t] = "WaitForMs"
  /\ Goto(t, "recheck")
  /\ UNCHANGED <<core, onComplete, invoked, op, cb, runs, child>>

\* After a timeout WaitFor asks IsDone once more.
WaitRecheck(t) ==
  /\ pc[t] = "recheck"
  /\ \/ Done /\ Return(t, "true")
     \/ ~Done /\ Return(t, "false")
  /\ UNCHANGED <<core, onComplete, invoked, op, cb, runs, child>>

-----------------------------------------------------------------------------
\* The steps of a call once it is under way.
Step(t) ==
  \/ Notify(t) \/ Invoke(t) \/ ContinueRegister(t)
  \/ WaitSignaled(t) \/ WaitTimeout(t) \/ WaitRecheck(t)

Call(t) ==
  \/ Complete(t) \/ Fail(t) \/ Cancel(t)
  \/ OnComplete(t) \/ Map(t) \/ ContinueWith(t) \/ WaitFor(t)

Next == \E t \in Threads : Call(t) \/ Step(t)

Spec == Init /\ [][Next]_vars

\* The operating system keeps running threads that are able to run; whether
\* anybody calls an operation at all is up to the program.
FairSpec == Spec /\ \A t \in Threads : WF_vars(Step(t))

-----------------------------------------------------------------------------
(* Safety *)

\* No callback runs twice, whichever of Complete, Fail, OnComplete and
\* ContinueWith race for it ("at most once", FCallbackInvoked).
CallbackAtMostOnce == \A c \in Threads : runs[c] <= 1

\* A callback never runs, and a call never holds one to run, while the future
\* is still pending: NotifyCompletion comes after the state change.
CallbackAfterDone ==
  \A c \in Threads : runs[c] > 0 \/ cb[c] # None => state # "Pending"

\* The calls that were told, or know, that they settled the future.
Settled(t) ==
  \/ op[t] = "Complete" /\ pc[t] # "idle" /\ res[t] # "raise"
  \/ op[t] = "Cancel" /\ res[t] = "true"

\* What the callers were told agrees with how the future ended, and only one
\* of the racing Complete/Cancel calls was told that it settled the future.
OutcomeAgrees ==
  /\ \A t \in Threads : Settled(t) =>
       state = IF op[t] = "Complete" THEN "Completed" ELSE "Cancelled"
  /\ \A t, u \in Threads : Settled(t) /\ Settled(u) => t = u

\* A settled future never changes again and its event is never reset.
SettledForever == [][Done => UNCHANGED core]_vars

(* Liveness *)

\* A future returned by Map, AndThen or ContinueWith is settled once its
\* parent is done ("runs the callback after the current Future is done").
ChainedSettles ==
  \A t \in Threads :
    (op[t] \in Chaining /\ pc[t] = "done" /\ Done) ~> child[t] # "Pending"

\* The thread whose callback cannot be replaced: nobody else registered one.
OnlyRegistrant(t) == \A u \in Threads \ {t} : op[u] \notin Registering

\* Where a future ends by Complete or Fail and no other call registers a
\* callback, the future Map or AndThen returned is settled too, whether it
\* registered before, during or after the settling.
MapSettles ==
  \A t \in Threads :
    (op[t] = "Map" /\ pc[t] = "done" /\ state \in {"Completed", "Failed"} /\ OnlyRegistrant(t))
      ~> (child[t] # "Pending" \/ ~OnlyRegistrant(t))

(* Refinement *)

Waits  == {"WaitFor", "WaitForMs"}
InWait == {t \in Threads : pc[t] \in {"wait", "recheck"}}
Answer == [t \in Threads |-> IF op[t] \in Waits THEN res[t] ELSE "none"]

P == INSTANCE Promise WITH outcome <- state, waiting <- InWait, answer <- Answer

\* A future is a promise: racing Complete, Fail and Cancel calls settle it once,
\* a wait ends by the settling or by a time-out that found it still pending, and
\* the two sources a wait looks at, the event and the state, never disagree.
ImplementsPromise == P!FairSpec
=============================================================================
