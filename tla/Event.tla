------------------------------- MODULE Event -------------------------------
(***************************************************************************)
(* TEvent of fafafa.core.sync.event.unix.pas: a flag under a mutex and a   *)
(* condition variable.  Between two actions the mutex is free; an action   *)
(* is what a thread does from taking the mutex to giving it back, which    *)
(* pthread_cond_wait also does.  IsSignaled only reads.  The condition     *)
(* variable is modelled from POSIX: a signal wakes at least one waiter, a  *)
(* waiter may wake without one, and a wait whose deadline has passed       *)
(* returns ETIMEDOUT.                                                      *)
(***************************************************************************)
CONSTANTS Waiters,
          SignalMayBeEaten  \* POSIX: a wait that times out may consume a signal

ASSUME EventAssumption == SignalMayBeEaten \in BOOLEAN

VARIABLES
  signaled,  \* FSignaled
  manual,    \* FManualReset
  pc,        \* of each waiter: "out"; on FCond's queue; woken, or expired, and
             \* about to take the mutex again
  mode,      \* "forever" (High(Cardinal)) or "timed": the wait it is in
  due,       \* the deadline ts of its timed wait has passed
  result     \* the result of its last WaitFor

vars == <<signaled, manual, pc, mode, due, result>>

TypeOK ==
  /\ signaled \in BOOLEAN /\ manual \in BOOLEAN
  /\ pc \in [Waiters -> {"out", "queued", "woken", "expired"}]
  /\ mode \in [Waiters -> {"forever", "timed"}]
  /\ due \in [Waiters -> BOOLEAN]
  /\ result \in [Waiters -> {"none", "signaled", "timeout"}]

\* TEvent.Create
Init ==
  /\ signaled \in BOOLEAN /\ manual \in BOOLEAN
  /\ pc = [w \in Waiters |-> "out"] /\ mode = [w \in Waiters |-> "forever"]
  /\ due = [w \in Waiters |-> FALSE] /\ result = [w \in Waiters |-> "none"]

Queued == {w \in Waiters : pc[w] = "queued"}

\* pthread_cond_signal and pthread_cond_broadcast
Wake(S) == pc' = [w \in Waiters |-> IF w \in S THEN "woken" ELSE pc[w]]

\* Mutant: a manual-reset event wakes one waiter as well.
NotifyOne ==
  \/ Queued = {} /\ UNCHANGED pc
  \/ \E w \in Queued : Wake({w})

\* Whom SetEvent wakes.
Notify ==
  \/ manual /\ Wake(Queued)
  \/ ~manual /\ Queued = {} /\ UNCHANGED pc
  \/ ~manual /\ \E w \in Queued : Wake({w})

\* SetEvent does nothing to an event that is set already.
SetEvent ==
  /\ ~signaled /\ signaled' = TRUE /\ Notify
  /\ UNCHANGED <<manual, mode, due, result>>

ResetEvent ==
  /\ signaled' = FALSE
  /\ UNCHANGED <<manual, pc, mode, due, result>>

Return(w, r) ==
  /\ pc' = [pc EXCEPT ![w] = "out"]
  /\ mode' = [mode EXCEPT ![w] = "forever"]
  /\ due' = [due EXCEPT ![w] = FALSE]
  /\ result' = [result EXCEPT ![w] = r]

\* Mutant: the signal of an auto-reset event is left for the next waiter too.
AcceptKeeps(w) ==
  /\ signaled /\ UNCHANGED <<signaled, manual>>
  /\ Return(w, "signaled")

\* The way out of WaitFor when FSignaled is found set.
Accept(w) ==
  /\ signaled /\ signaled' = manual
  /\ Return(w, "signaled") /\ UNCHANGED manual

\* WaitFor(0), WaitFor(ms) and WaitFor, up to the return or the first sleep.
WaitFor(w) ==
  /\ pc[w] = "out"
  /\ \/ Accept(w)
     \/ ~signaled /\ Return(w, "timeout") /\ UNCHANGED <<signaled, manual>>
     \/ /\ ~signaled
        /\ \E m \in {"forever", "timed"} : mode' = [mode EXCEPT ![w] = m]
        /\ pc' = [pc EXCEPT ![w] = "queued"]
        /\ UNCHANGED <<signaled, manual, due, result>>

\* Back to sleep; after the deadline pthread_cond_timedwait returns at once.
SleepAgain(w) ==
  /\ pc' = [pc EXCEPT ![w] = IF due[w] THEN "expired" ELSE "queued"]
  /\ UNCHANGED due

\* pthread_cond_wait or _timedwait returned 0: the loop looks at FSignaled.
Recheck(w) ==
  /\ pc[w] = "woken"
  /\ \/ Accept(w)
     \/ ~signaled /\ SleepAgain(w) /\ UNCHANGED <<signaled, manual, mode, result>>

\* Wake-ups no SetEvent asked for.
Spurious(w) ==
  /\ pc[w] = "queued" /\ Wake({w})
  /\ UNCHANGED <<signaled, manual, mode, due, result>>

Deadline(w) ==
  /\ pc[w] # "out" /\ mode[w] = "timed" /\ ~due[w]
  /\ due' = [due EXCEPT ![w] = TRUE]
  /\ UNCHANGED <<signaled, manual, pc, mode, result>>

\* The sleep ends with ETIMEDOUT: off the queue, not yet at the mutex.
Expire(w) ==
  /\ due[w] /\ pc[w] \in {"queued"} \cup (IF SignalMayBeEaten THEN {"woken"} ELSE {})
  /\ pc' = [pc EXCEPT ![w] = "expired"]
  /\ UNCHANGED <<signaled, manual, mode, due, result>>

\* ETIMEDOUT returns wrTimeout whatever FSignaled is by now.
TimeOut(w) ==
  /\ pc[w] = "expired" /\ Return(w, "timeout")
  /\ UNCHANGED <<signaled, manual>>

Next ==
  \/ SetEvent \/ ResetEvent
  \/ \E w \in Waiters :
       WaitFor(w) \/ Recheck(w) \/ Spurious(w) \/ Deadline(w) \/ Expire(w) \/ TimeOut(w)

Spec == Init /\ [][Next]_vars

\* A thread that is not asleep runs, and time passes.  Nobody has to set the
\* event, and no wake-up has to be spurious.
FairSpec ==
  /\ Spec
  /\ \A w \in Waiters :
       WF_vars(Recheck(w)) /\ WF_vars(Deadline(w)) /\ WF_vars(Expire(w)) /\ WF_vars(TimeOut(w))

-----------------------------------------------------------------------------
(* Properties *)

\* While the event is set nobody sleeps through it: of a manual-reset event no
\* waiter is left on the queue, of an auto-reset event a waiter is left there
\* only if another one is awake and will look at the flag.  SetEvent signals once
\* and never again while the flag stands, so a signal that is lost stays lost.
NoSleepThroughSignal ==
  signaled /\ Queued # {} => ~manual /\ \E w \in Waiters : pc[w] = "woken"

InCall == [w \in Waiters |-> IF pc[w] = "out" THEN "none" ELSE mode[w]]

Abstract == INSTANCE EventSpec WITH call <- InCall

\* The flag, the mutex and the condition variable are the promised event: a
\* signal is taken by one waiter, a waiter returns only by a signal or its own
\* time-out, a standing signal ends the waits, and a timed wait ends however often
\* it is woken in between.
ImplementsEvent == Abstract!FairSpec
=============================================================================
