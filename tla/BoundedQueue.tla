---------------------------- MODULE BoundedQueue ---------------------------
(***************************************************************************)
(* What the bounded lock-free queue promises.  A producer reserves the     *)
(* last place and publishes it later; a consumer claims the first place    *)
(* once it is published and gives it back later.  Values leave in the      *)
(* order of the reservations, each to one consumer.  Enqueue is refused    *)
(* only if Capacity values are in the queue or a place is still being      *)
(* given back; Dequeue finds nothing only if the queue is empty or its     *)
(* first value is not published yet (so a value enqueued later may be      *)
(* there already: the queue is not linearizable for failing calls).        *)
(***************************************************************************)
EXTENDS Naturals, Sequences, FiniteSets

CONSTANTS Producers, Consumers, Calls, Capacity, None

VARIABLES queue,  \* the values from reservation to claim
          open,   \* the values published
          state,  \* "idle", "busy" with a place, per thread
          got,    \* what each consumer holds, None if nothing
          left    \* the calls each thread has still to make

vars == <<queue, open, state, got, left>>

Init ==
  /\ queue = <<>> /\ open = {}
  /\ state = [t \in Producers \cup Consumers |-> "idle"]
  /\ got = [c \in Consumers |-> None]
  /\ left = [t \in Producers \cup Consumers |-> Calls]

\* The value of the call a producer is making.
Value(p) == <<p, left[p]>>

Claimed == {c \in Consumers : state[c] = "busy"}

Reserve(p) ==
  /\ state[p] = "idle" /\ left[p] > 0 /\ Len(queue) < Capacity
  /\ queue' = Append(queue, Value(p))
  /\ state' = [state EXCEPT ![p] = "busy"]
  /\ UNCHANGED <<open, got, left>>

Publish(p) ==
  /\ state[p] = "busy"
  /\ open' = open \cup {Value(p)}
  /\ state' = [state EXCEPT ![p] = "idle"]
  /\ left' = [left EXCEPT ![p] = @ - 1]
  /\ UNCHANGED <<queue, got>>

Refuse(p) ==
  /\ state[p] = "idle" /\ left[p] > 0
  /\ Len(queue) = Capacity \/ Claimed # {}
  /\ left' = [left EXCEPT ![p] = @ - 1]
  /\ UNCHANGED <<queue, open, state, got>>

Claim(c) ==
  /\ state[c] = "idle" /\ left[c] > 0 /\ queue # <<>> /\ Head(queue) \in open
  /\ got' = [got EXCEPT ![c] = Head(queue)]
  /\ queue' = Tail(queue)
  /\ state' = [state EXCEPT ![c] = "busy"]
  /\ UNCHANGED <<open, left>>

Release(c) ==
  /\ state[c] = "busy"
  /\ state' = [state EXCEPT ![c] = "idle"]
  /\ got' = [got EXCEPT ![c] = None]
  /\ left' = [left EXCEPT ![c] = @ - 1]
  /\ UNCHANGED <<queue, open>>

Nothing(c) ==
  /\ state[c] = "idle" /\ left[c] > 0
  /\ queue = <<>> \/ Head(queue) \notin open
  /\ left' = [left EXCEPT ![c] = @ - 1]
  /\ UNCHANGED <<queue, open, state, got>>

Next ==
  \/ \E p \in Producers : Reserve(p) \/ Publish(p) \/ Refuse(p)
  \/ \E c \in Consumers : Claim(c) \/ Release(c) \/ Nothing(c)

Spec == Init /\ [][Next]_vars
=============================================================================
