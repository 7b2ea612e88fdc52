----------------------------- MODULE TimerHeap -----------------------------
(***************************************************************************)
(* TBinaryHeapBackend (fafafa.core.time.timer.backend.heap.pas): the array *)
(* heap behind ITimerQueueBackend.  Every entry knows its place in the     *)
(* array (HeapIndex), which is how Remove and UpdateDeadline find it.      *)
(* Places count from 1 here, so the parent of i is i \div 2; -1 is the     *)
(* place of an entry that is not in the array.                             *)
(*                                                                         *)
(* A call is a step that changes the array, followed by one step for each  *)
(* turn of its loops.  The scheduler calls under its lock: one call ends   *)
(* before the next begins.                                                 *)
(***************************************************************************)
EXTENDS Integers, Sequences, FiniteSets

SX == INSTANCE SequencesExt

CONSTANTS Entries, Deadlines

ASSUME HeapAssumption == IsFiniteSet(Entries) /\ Deadlines \subseteq Nat

VARIABLES heap,       \* FHeap[0 .. FCount - 1]
          heapIndex,  \* HeapIndex of each entry
          inHeap,     \* InHeap of each entry
          deadline,   \* Deadline of each entry
          taken,      \* what the last call returned
          call,       \* the call under way, "none" between calls
          loop,       \* its loop: "up" HeapifyUp, "down" HeapifyDown, "none"
          at,         \* I of that loop
          home,       \* Idx of Remove and UpdateDeadline
          due         \* Now and MaxCount of PopDue, and DueEntries so far

marks   == <<heapIndex, inHeap>>
control == <<call, loop, at, home>>
vars    == <<heap, marks, deadline, taken, control, due>>

NotDue == [now |-> 0, max |-> 0, out |-> <<>>]

Init ==
  /\ heap = <<>> /\ heapIndex = [e \in Entries |-> -1]
  /\ inHeap = [e \in Entries |-> FALSE]
  /\ deadline \in [Entries -> Deadlines] /\ taken = <<>>
  /\ call = "none" /\ loop = "none" /\ at = 0 /\ home = 0 /\ due = NotDue

-----------------------------------------------------------------------------
(* The array *)

\* Mutant: the entry that goes down keeps its old place.
SwapOneIndex(i, j) ==
  /\ heap' = [heap EXCEPT ![i] = heap[j], ![j] = heap[i]]
  /\ heapIndex' = [heapIndex EXCEPT ![heap[j]] = i]

\* HeapSwap of two different places.
Swap(i, j) ==
  /\ heap' = [heap EXCEPT ![i] = heap[j], ![j] = heap[i]]
  /\ heapIndex' = [heapIndex EXCEPT ![heap[j]] = i, ![heap[i]] = j]

\* The last entry takes place i, and the entry that was there leaves the heap.
\* Dequeue marks the one that leaves after the loop, which does not look at it.
Vacate(i) ==
  /\ heap' = SX!Front([heap EXCEPT ![i] = SX!Last(heap)])
  /\ heapIndex' = [heapIndex EXCEPT ![SX!Last(heap)] = i, ![heap[i]] = -1]
  /\ inHeap' = [inHeap EXCEPT ![heap[i]] = FALSE]

Parent(i) == i \div 2

\* Mutant: the right child is not compared.
SmallestLeft(i) ==
  IF 2 * i <= Len(heap) /\ deadline[heap[2 * i]] < deadline[heap[i]] THEN 2 * i ELSE i

\* The least of a place and its children, the left before the right.
Smallest(i) ==
  LET left == IF 2 * i <= Len(heap) /\ deadline[heap[2 * i]] < deadline[heap[i]] THEN 2 * i ELSE i
  IN  IF 2 * i + 1 <= Len(heap) /\ deadline[heap[2 * i + 1]] < deadline[heap[left]]
      THEN 2 * i + 1 ELSE left

-----------------------------------------------------------------------------
(* The loops *)

\* A call starts one of its loops at place i.
Enter(c, l, i) == call' = c /\ loop' = l /\ at' = i

Return == call' = "none" /\ loop' = "none" /\ at' = 0 /\ home' = 0

EarlierThanParent == at > 1 /\ deadline[heap[at]] < deadline[heap[Parent(at)]]

\* A turn of HeapifyUp.
Rise ==
  /\ loop = "up" /\ EarlierThanParent
  /\ Swap(at, Parent(at)) /\ at' = Parent(at)
  /\ UNCHANGED <<inHeap, deadline, taken, call, loop, home, due>>

\* HeapifyUp is the last thing a call does.
RiseEnd ==
  /\ loop = "up" /\ ~EarlierThanParent
  /\ Return
  /\ UNCHANGED <<heap, marks, deadline, taken, due>>

\* A turn of HeapifyDown.
Sink ==
  /\ loop = "down" /\ Smallest(at) # at
  /\ Swap(at, Smallest(at)) /\ at' = Smallest(at)
  /\ UNCHANGED <<inHeap, deadline, taken, call, loop, home, due>>

\* Mutant: what takes the place of a removed entry can only sink.
NoRise == Return

\* Remove and UpdateDeadline go on with HeapifyUp at the place where HeapifyDown
\* began.
ThenRise == Enter(call, "up", home) /\ UNCHANGED home

SinkEnd ==
  /\ loop = "down" /\ Smallest(at) = at
  /\ \/ call \in {"Remove", "UpdateDeadline"} /\ ThenRise
     \/ call = "Dequeue" /\ Return
     \/ call = "PopDue" /\ Enter("PopDue", "none", 0) /\ UNCHANGED home
  /\ UNCHANGED <<heap, marks, deadline, taken, due>>

-----------------------------------------------------------------------------
(* The operations *)

\* The scheduler sets the deadline and inserts an entry that is not in a heap:
\* that is the caller's duty, which the code does not test.
Enqueue(e) ==
  /\ call = "none" /\ ~inHeap[e]
  /\ \E d \in Deadlines : deadline' = [deadline EXCEPT ![e] = d]
  /\ heap' = Append(heap, e)
  /\ heapIndex' = [heapIndex EXCEPT ![e] = Len(heap) + 1]
  /\ inHeap' = [inHeap EXCEPT ![e] = TRUE]
  /\ taken' = <<>>
  /\ Enter("Enqueue", "up", Len(heap) + 1)
  /\ UNCHANGED <<home, due>>

\* What is left of Dequeue in call c: the entry that was last sinks from the
\* first place, if there is one.
SinkFirst(c) ==
  IF Len(heap) > 1 THEN Enter(c, "down", 1) ELSE UNCHANGED <<call, loop, at>>

Dequeue ==
  /\ call = "none" /\ heap # <<>>
  /\ Vacate(1) /\ SinkFirst("Dequeue")
  /\ taken' = <<heap[1]>>
  /\ UNCHANGED <<deadline, home, due>>

\* The array of the caller has room for max entries, or for all if max is 0.
PopDue(now, max) ==
  /\ call = "none"
  /\ call' = "PopDue" /\ due' = [now |-> now, max |-> max, out |-> <<>>]
  /\ UNCHANGED <<heap, marks, deadline, taken, loop, at, home>>

MoreDue ==
  /\ heap # <<>> /\ (due.max = 0 \/ Len(due.out) < due.max)
  /\ deadline[heap[1]] <= due.now

\* A turn of the loop of PopDue.
PopNext ==
  /\ call = "PopDue" /\ loop = "none" /\ MoreDue
  /\ Vacate(1) /\ SinkFirst("PopDue")
  /\ due' = [due EXCEPT !.out = Append(due.out, heap[1])]
  /\ UNCHANGED <<deadline, taken, home>>

PopEnd ==
  /\ call = "PopDue" /\ loop = "none" /\ ~MoreDue
  /\ Return /\ taken' = due.out /\ due' = NotDue
  /\ UNCHANGED <<heap, marks, deadline>>

\* The entry changes places with the last, which then settles.
Remove(e) ==
  /\ call = "none" /\ inHeap[e] /\ heapIndex[e] \in 1 .. Len(heap)
  /\ Vacate(heapIndex[e])
  /\ IF heapIndex[e] < Len(heap)
     THEN Enter("Remove", "down", heapIndex[e]) /\ home' = heapIndex[e]
     ELSE UNCHANGED control
  /\ taken' = <<>>
  /\ UNCHANGED <<deadline, due>>

\* The caller has changed the deadline.
UpdateDeadline(e) ==
  /\ call = "none" /\ inHeap[e] /\ heapIndex[e] \in 1 .. Len(heap)
  /\ \E d \in Deadlines : deadline' = [deadline EXCEPT ![e] = d]
  /\ Enter("UpdateDeadline", "down", heapIndex[e]) /\ home' = heapIndex[e]
  /\ taken' = <<>>
  /\ UNCHANGED <<heap, marks, due>>

Clear ==
  /\ call = "none"
  /\ heap' = <<>>
  /\ heapIndex' = [e \in Entries |-> IF e \in SX!ToSet(heap) THEN -1 ELSE heapIndex[e]]
  /\ inHeap' = [e \in Entries |-> inHeap[e] /\ e \notin SX!ToSet(heap)]
  /\ taken' = <<>>
  /\ UNCHANGED <<deadline, control, due>>

Next ==
  \/ \E e \in Entries : Enqueue(e) \/ Remove(e) \/ UpdateDeadline(e)
  \/ Dequeue \/ Clear
  \/ \E now \in Deadlines, max \in 0 .. Cardinality(Entries) : PopDue(now, max)
  \/ PopNext \/ PopEnd
  \/ Rise \/ RiseEnd \/ Sink \/ SinkEnd

Spec == Init /\ [][Next]_vars

-----------------------------------------------------------------------------
(* Properties *)

\* The place an entry has noted is where it is, inside the loops too: Remove and
\* UpdateDeadline would otherwise act on another timer.
IndexTrue ==
  /\ \A i \in DOMAIN heap : heapIndex[heap[i]] = i /\ inHeap[heap[i]]
  /\ \A e \in Entries : inHeap[e] = (heapIndex[e] # -1)
  /\ \A e \in Entries : inHeap[e] => SX!Contains(heap, e)

\* No entry is earlier than its parent.
HeapOrdered == \A i \in 2 .. Len(heap) : deadline[heap[Parent(i)]] <= deadline[heap[i]]

\* The entries know their places, and outside the loops the array is a heap, after
\* removals and changes of deadlines in the middle of the array too.
WellFormed == IndexTrue /\ (loop = "none" => HeapOrdered)

\* What PopDue has taken so far leaves the queue when it returns.
Abstract == INSTANCE TimerQueue WITH queue <- SX!ToSet(heap) \cup SX!ToSet(due.out)

\* The array heap is a priority queue: what it returns is earliest, what it
\* drops was asked for, and nothing else changes.
ImplementsQueue == Abstract!Spec
=============================================================================
