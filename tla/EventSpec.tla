----------------------------- MODULE EventSpec -----------------------------
(***************************************************************************)
(* What an event promises to its callers (IEvent): a flag that is set and  *)
(* reset, and waiters that return when they find it set.  Of an auto-reset *)
(* event every signal is taken by one waiter; a manual-reset event stays   *)
(* set for all.  A signal that stands does not leave a waiter waiting.     *)
(* Future, ThreadPool, Timer and TaskScheduler use their events in this    *)
(* form.                                                                   *)
(***************************************************************************)
CONSTANT Waiters

VARIABLES signaled,  \* the event is set
          manual,    \* it is a manual-reset event
          call,      \* of each waiter: "none", or the wait it is in
          result     \* of each waiter: the result of its last wait

vars == <<signaled, manual, call, result>>

Init ==
  /\ signaled \in BOOLEAN /\ manual \in BOOLEAN
  /\ call = [w \in Waiters |-> "none"]
  /\ result = [w \in Waiters |-> "none"]

Return(w, r) ==
  /\ call' = [call EXCEPT ![w] = "none"]
  /\ result' = [result EXCEPT ![w] = r]

Set   == signaled' = TRUE /\ UNCHANGED <<manual, call, result>>
Reset == signaled' = FALSE /\ UNCHANGED <<manual, call, result>>

Call(w) ==
  /\ call[w] = "none"
  /\ \E c \in {"forever", "timed"} : call' = [call EXCEPT ![w] = c]
  /\ UNCHANGED <<signaled, manual, result>>

\* A call that finds the event set returns at once.
Pass(w) ==
  /\ call[w] = "none" /\ signaled
  /\ signaled' = manual
  /\ Return(w, "signaled") /\ UNCHANGED manual

\* WaitFor(0) of an event that is not set.
Fail(w) ==
  /\ call[w] = "none" /\ ~signaled
  /\ Return(w, "timeout") /\ UNCHANGED <<signaled, manual>>

Take(w) ==
  /\ call[w] # "none" /\ signaled
  /\ signaled' = manual
  /\ Return(w, "signaled") /\ UNCHANGED manual

TimeOut(w) ==
  /\ call[w] = "timed"
  /\ Return(w, "timeout") /\ UNCHANGED <<signaled, manual>>

Next ==
  \/ Set \/ Reset
  \/ \E w \in Waiters : Call(w) \/ Pass(w) \/ Fail(w) \/ Take(w) \/ TimeOut(w)

Spec == Init /\ [][Next]_vars

\* Nobody has to set the event; a waiter that can return does.
FairSpec == Spec /\ \A w \in Waiters : WF_vars(Take(w)) /\ WF_vars(TimeOut(w))
=============================================================================
