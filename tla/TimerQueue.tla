---------------------------- MODULE TimerQueue -----------------------------
(***************************************************************************)
(* What ITimerQueueBackend promises the timer scheduler: a set of entries, *)
(* each with a deadline, from which an entry with the least deadline can   *)
(* be taken, any entry removed and any deadline changed.                   *)
(***************************************************************************)
EXTENDS Integers, Sequences, FiniteSets

CONSTANTS Entries, Deadlines

VARIABLES queue,     \* the entries in the queue
          deadline,  \* Deadline of each entry
          taken      \* what the last call returned

vars == <<queue, deadline, taken>>

Init == queue = {} /\ deadline \in [Entries -> Deadlines] /\ taken = <<>>

Enqueue(e) ==
  /\ e \notin queue
  /\ \E d \in Deadlines : deadline' = [deadline EXCEPT ![e] = d]
  /\ queue' = queue \cup {e} /\ taken' = <<>>

Least(e) == e \in queue /\ \A f \in queue : deadline[e] <= deadline[f]

Dequeue ==
  /\ \E e \in queue : Least(e) /\ queue' = queue \ {e} /\ taken' = <<e>>
  /\ UNCHANGED deadline

\* The due entries, at most max of them (0: no limit), in the order of their
\* deadlines; those that stay are not earlier.
PopDue(now, max) ==
  /\ LET out == {taken'[i] : i \in DOMAIN taken'}
         due == {e \in queue : deadline[e] <= now}
     IN  /\ out \subseteq due /\ Cardinality(out) = Len(taken')
         /\ \A i, j \in DOMAIN taken' : i < j => deadline[taken'[i]] <= deadline[taken'[j]]
         /\ \A e \in out, f \in queue \ out : deadline[e] <= deadline[f]
         /\ out = due \/ (max > 0 /\ Len(taken') = max)
         /\ queue' = queue \ out
  /\ UNCHANGED deadline

Remove(e) ==
  /\ queue' = queue \ {e} /\ taken' = <<>>
  /\ UNCHANGED deadline

UpdateDeadline(e) ==
  /\ e \in queue
  /\ \E d \in Deadlines : deadline' = [deadline EXCEPT ![e] = d]
  /\ taken' = <<>> /\ UNCHANGED queue

Clear == queue' = {} /\ taken' = <<>> /\ UNCHANGED deadline

Next ==
  \/ \E e \in Entries : Enqueue(e) \/ Remove(e) \/ UpdateDeadline(e)
  \/ Dequeue \/ Clear
  \/ \E now \in Deadlines, max \in 0 .. Cardinality(Entries) : PopDue(now, max)

Spec == Init /\ [][Next]_vars
=============================================================================
