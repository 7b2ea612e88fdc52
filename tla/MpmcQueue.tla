----------------------------- MODULE MpmcQueue -----------------------------
(***************************************************************************)
(* TPreAllocMPMCQueue (fafafa.core.lockfree.mpmcQueue.pas): a ring of      *)
(* slots, each with a sequence number that says whose turn it is, and two  *)
(* positions moved by compare-and-swap.  Every atomic access, and every    *)
(* access to a slot's data, is a step.                                     *)
(*                                                                         *)
(* A thread makes Calls calls of Enqueue or Dequeue one after the other    *)
(* (EnqueueMany, DequeueMany, Push, Pop and Clear are such loops).  The    *)
(* value of a call is the thread and the calls it had left.                *)
(***************************************************************************)
EXTENDS Naturals, Sequences, FiniteSets

CONSTANTS Producers, Consumers,
          Calls,     \* bound: the calls of each thread
          Capacity,  \* FCapacity, a power of two
          None       \* no value

ASSUME MpmcAssumption ==
  /\ Capacity \in Nat \ {0} /\ Calls \in Nat
  /\ Producers \cap Consumers = {}

Threads == Producers \cup Consumers
Slots   == 0 .. Capacity - 1

VARIABLES
  sequence,    \* Sequence of each slot
  data,        \* Data of each slot
  enqueuePos,  \* FEnqueuePos
  dequeuePos,  \* FDequeuePos
  pc,          \* where each thread stands in its call
  pos,         \* LPos of each thread
  item,        \* AItem of each consumer
  left,        \* the calls each thread has still to make
  reserved     \* history: the value each position was reserved for

ring == <<sequence, data>>
vars == <<ring, enqueuePos, dequeuePos, pc, pos, item, left, reserved>>

Value(p) == <<p, left[p]>>

\* TPreAllocMPMCQueue.Create
Init ==
  /\ sequence = [s \in Slots |-> s] /\ data = [s \in Slots |-> None]
  /\ enqueuePos = 0 /\ dequeuePos = 0
  /\ pc = [t \in Threads |-> "load"] /\ pos = [t \in Threads |-> 0]
  /\ item = [c \in Consumers |-> None]
  /\ left = [t \in Threads |-> Calls]
  /\ reserved = <<>>

\* LPos and FMask
Slot(n) == n % Capacity

\* "load" is the top of the loop, where a thread between two calls stands too.
Goto(t, l) == pc' = [pc EXCEPT ![t] = l] /\ UNCHANGED left

\* LPos is loaded afresh: the model forgets it.
Retry(t) == Goto(t, "load") /\ pos' = [pos EXCEPT ![t] = 0]

Return(t) ==
  /\ pc' = [pc EXCEPT ![t] = "load"] /\ pos' = [pos EXCEPT ![t] = 0]
  /\ left' = [left EXCEPT ![t] = @ - 1]

-----------------------------------------------------------------------------
(* Enqueue *)

EnqueueLoad(p) ==
  /\ pc[p] = "load" /\ left[p] > 0
  /\ pos' = [pos EXCEPT ![p] = enqueuePos]
  /\ Goto(p, "look")
  /\ UNCHANGED <<ring, enqueuePos, dequeuePos, item, reserved>>

\* Mutant: any slot that is not of this round is full.
FullIfNotMine(p) == sequence[Slot(pos[p])] # pos[p]

\* Mutant: a producer waits for room instead of giving up.
FullNever(p) == FALSE

\* LSequence < LPos
Full(p) == sequence[Slot(pos[p])] < pos[p]

\* LSequence = LPos
MyTurn(p) == sequence[Slot(pos[p])] = pos[p]

\* The slot's sequence decides: reserve, give up, or start over because another
\* producer was faster.
EnqueueLook(p) ==
  /\ pc[p] = "look"
  /\ \/ MyTurn(p) /\ Goto(p, "cas") /\ UNCHANGED pos
     \/ ~MyTurn(p) /\ Full(p) /\ Return(p)
     \/ ~MyTurn(p) /\ ~Full(p) /\ Retry(p)
  /\ UNCHANGED <<ring, enqueuePos, dequeuePos, item, reserved>>

\* Mutant: the position is stored without comparing.
EnqueueMove(p) ==
  /\ pc[p] = "cas"
  /\ enqueuePos' = pos[p] + 1
  /\ reserved' = Append(reserved, Value(p))
  /\ Goto(p, "data")
  /\ UNCHANGED <<ring, dequeuePos, pos, item>>

\* The compare-and-swap reserves the position; if it fails the loop starts over.
EnqueueCas(p) ==
  /\ pc[p] = "cas"
  /\ IF enqueuePos = pos[p]
     THEN /\ enqueuePos' = pos[p] + 1
          /\ reserved' = Append(reserved, Value(p))
          /\ Goto(p, "data") /\ UNCHANGED pos
     ELSE Retry(p) /\ UNCHANGED <<enqueuePos, reserved>>
  /\ UNCHANGED <<ring, dequeuePos, item>>

EnqueueData(p) ==
  /\ pc[p] = "data"
  /\ data' = [data EXCEPT ![Slot(pos[p])] = Value(p)]
  /\ Goto(p, "store")
  /\ UNCHANGED <<sequence, enqueuePos, dequeuePos, pos, item, reserved>>

EnqueueStore(p) ==
  /\ pc[p] = "store"
  /\ sequence' = [sequence EXCEPT ![Slot(pos[p])] = pos[p] + 1]
  /\ Return(p)
  /\ UNCHANGED <<data, enqueuePos, dequeuePos, item, reserved>>

-----------------------------------------------------------------------------
(* Dequeue *)

DequeueLoad(c) ==
  /\ pc[c] = "load" /\ left[c] > 0
  /\ pos' = [pos EXCEPT ![c] = dequeuePos]
  /\ Goto(c, "look")
  /\ UNCHANGED <<ring, enqueuePos, dequeuePos, item, reserved>>

\* LSequence = LPos + 1, and LSequence < LPos + 1
Ready(c) == sequence[Slot(pos[c])] = pos[c] + 1
Empty(c) == sequence[Slot(pos[c])] < pos[c] + 1

DequeueLook(c) ==
  /\ pc[c] = "look"
  /\ \/ Ready(c) /\ Goto(c, "cas") /\ UNCHANGED pos
     \/ Empty(c) /\ Return(c)
     \/ ~Ready(c) /\ ~Empty(c) /\ Retry(c)
  /\ UNCHANGED <<ring, enqueuePos, dequeuePos, item, reserved>>

DequeueCas(c) ==
  /\ pc[c] = "cas"
  /\ IF dequeuePos = pos[c]
     THEN /\ dequeuePos' = pos[c] + 1
          /\ Goto(c, "data") /\ UNCHANGED pos
     ELSE Retry(c) /\ UNCHANGED dequeuePos
  /\ UNCHANGED <<ring, enqueuePos, item, reserved>>

DequeueData(c) ==
  /\ pc[c] = "data"
  /\ item' = [item EXCEPT ![c] = data[Slot(pos[c])]]
  /\ Goto(c, "store")
  /\ UNCHANGED <<ring, enqueuePos, dequeuePos, pos, reserved>>

\* The slot is given to the producer that comes one round later.
DequeueStore(c) ==
  /\ pc[c] = "store"
  /\ sequence' = [sequence EXCEPT ![Slot(pos[c])] = pos[c] + Capacity]
  /\ Return(c)
  /\ item' = [item EXCEPT ![c] = None]
  /\ UNCHANGED <<data, enqueuePos, dequeuePos, reserved>>

-----------------------------------------------------------------------------
Enqueue(p) ==
  EnqueueLoad(p) \/ EnqueueLook(p) \/ EnqueueCas(p) \/ EnqueueData(p) \/ EnqueueStore(p)

Dequeue(c) ==
  DequeueLoad(c) \/ DequeueLook(c) \/ DequeueCas(c) \/ DequeueData(c) \/ DequeueStore(c)

Next == (\E p \in Producers : Enqueue(p)) \/ (\E c \in Consumers : Dequeue(c))

Spec == Init /\ [][Next]_vars

\* No thread is stopped for ever.
FairSpec ==
  /\ Spec
  /\ \A p \in Producers : WF_vars(Enqueue(p))
  /\ \A c \in Consumers : WF_vars(Dequeue(c))

-----------------------------------------------------------------------------
(* Properties *)

\* No two threads are at the data of one slot at the same time: the sequence
\* numbers and the two positions keep writers and readers of a slot apart.
NoDataRace ==
  \A t, u \in Threads :
    t # u /\ pc[t] \in {"data", "store"} /\ pc[u] \in {"data", "store"}
      => Slot(pos[t]) # Slot(pos[u])

\* A call returns as long as every thread keeps running: the others can make it
\* start over only by finishing calls of their own.
CallsReturn == \A t \in Threads : <>(left[t] = 0)

\* The places from dequeuePos to enqueuePos.
Waiting == [i \in 1 .. enqueuePos - dequeuePos |-> reserved[dequeuePos + i]]

Published ==
  {reserved[i] : i \in {j \in 1 .. Len(reserved) :
                          j <= dequeuePos \/ sequence[Slot(j - 1)] = j}}

Status == [t \in Threads |-> IF pc[t] \in {"data", "store"} THEN "busy" ELSE "idle"]

\* What a consumer has claimed: in its slot until it is copied.
Taken ==
  [c \in Consumers |-> IF pc[c] = "data" THEN data[Slot(pos[c])]
                       ELSE IF pc[c] = "store" THEN item[c] ELSE None]

Abstract == INSTANCE BoundedQueue WITH
  queue <- Waiting, open <- Published, state <- Status, got <- Taken

\* The ring is the promised queue: values leave in the order of the reservations,
\* each to one consumer, the data a consumer reads is what the producer of that
\* position wrote, and no call fails without the promised reason.
ImplementsQueue == Abstract!Spec
=============================================================================
