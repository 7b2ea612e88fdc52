-------------------------- MODULE MpmcQueueProofs --------------------------
(***************************************************************************)
(* Proofs about TPreAllocMPMCQueue for any number of producers, consumers  *)
(* and calls and any ring of at least two slots.  With one slot the two    *)
(* meanings of a sequence number, free for position n + 1 and filled for   *)
(* position n, coincide, and the theorems are false.                       *)
(***************************************************************************)
EXTENDS MpmcQueue, Integers, SequenceTheorems, TLAPS

Locations == {"load", "look", "cas", "data", "store"}

Item == (Producers \X Nat) \cup {None}

TypeOK ==
  /\ sequence \in [Slots -> Nat] /\ data \in [Slots -> Item]
  /\ enqueuePos \in Nat /\ dequeuePos \in Nat
  /\ pc \in [Threads -> Locations] /\ pos \in [Threads -> Nat]
  /\ item \in [Consumers -> Item]
  /\ left \in [Threads -> Nat]
  /\ reserved \in Seq(Producers \X Nat)

\* A thread that holds the place it reserved or claimed.
Holds(t) == pc[t] \in {"data", "store"}

-----------------------------------------------------------------------------
(* Positions and slots *)

\* Every position has a slot, a round later the same one, and two positions less
\* than a round apart have different ones.
LEMMA SlotType == ASSUME NEW n \in Nat PROVE Slot(n) \in Slots
BY MpmcAssumption DEF Slot, Slots

\* In the first round a position is its own slot: what Create initialises.
LEMMA SlotOfSmall == ASSUME NEW n \in Slots PROVE Slot(n) = n
BY MpmcAssumption DEF Slot, Slots

\* A product lies at least one factor away from zero.
LEMMA Product ==
  ASSUME NEW k \in Nat, NEW a \in Int
  PROVE  /\ a > 0 => k * a >= k
         /\ a < 0 => k * a <= 0 - k
<1>1. ASSUME a > 0 PROVE k * a >= k
  <2>1. k * a = k + k * (a - 1) /\ a - 1 \in Nat
    BY <1>1, Z3
  <2>2. k * (a - 1) \in Nat
    BY <2>1, Z3
  <2> QED
    BY <2>1, <2>2
<1>2. ASSUME a < 0 PROVE k * a <= 0 - k
  <2>1. k * a = 0 - (k + k * ((0 - a) - 1)) /\ (0 - a) - 1 \in Nat
    BY <1>2, Z3
  <2>2. k * ((0 - a) - 1) \in Nat
    BY <2>1, Z3
  <2> QED
    BY <2>1, <2>2
<1> QED
  BY <1>1, <1>2

\* A position is a round and a slot, in one way only.
LEMMA RoundAndSlot ==
  ASSUME NEW n \in Nat
  PROVE  /\ n = Capacity * (n \div Capacity) + Slot(n)
         /\ n \div Capacity \in Int
BY MpmcAssumption DEF Slot

\* A consumer stores pos + Capacity: the same slot, one round later.
LEMMA SlotNextRound == ASSUME NEW n \in Nat PROVE Slot(n + Capacity) = Slot(n)
<1> DEFINE a == n \div Capacity
           b == (n + Capacity) \div Capacity
<1>1. n + Capacity \in Nat
  BY MpmcAssumption
<1>2. /\ n = Capacity * a + Slot(n) /\ a \in Int
      /\ n + Capacity = Capacity * b + Slot(n + Capacity) /\ b \in Int
  BY <1>1, RoundAndSlot
<1>3. Slot(n) \in Slots /\ Slot(n + Capacity) \in Slots
  BY <1>1, SlotType
<1> HIDE DEF a, b
<1> DEFINE d == b - a - 1
<1>4. Capacity * d = Slot(n) - Slot(n + Capacity) /\ d \in Int
  BY <1>2, <1>3, MpmcAssumption, Z3 DEF Slots
<1> HIDE DEF d
<1>5. ~(d > 0)
  BY <1>3, <1>4, Product, MpmcAssumption DEF Slots
<1>6. ~(d < 0)
  BY <1>3, <1>4, Product, MpmcAssumption DEF Slots
<1>7. d = 0
  BY <1>4, <1>5, <1>6
<1> QED
  BY <1>3, <1>4, <1>7, MpmcAssumption DEF Slots

\* Two positions less than a round apart have different slots.
LEMMA SlotsApart ==
  ASSUME NEW m \in Nat, NEW n \in Nat, m < n, n < m + Capacity
  PROVE  Slot(m) # Slot(n)
<1> SUFFICES ASSUME Slot(m) = Slot(n) PROVE FALSE
  OBVIOUS
<1> DEFINE a == m \div Capacity
           b == n \div Capacity
<1>1. /\ m = Capacity * a + Slot(m) /\ a \in Int
      /\ n = Capacity * b + Slot(m) /\ b \in Int
  BY RoundAndSlot
<1>2. Slot(m) \in Slots
  BY SlotType
<1> HIDE DEF a, b
<1>3. Capacity * (b - a) = n - m /\ b - a \in Int
  BY <1>1, <1>2, MpmcAssumption, Z3 DEF Slots
<1>4. CASE b - a > 0
  BY <1>3, <1>4, Product, MpmcAssumption
<1>5. CASE b - a < 0
  BY <1>3, <1>5, Product, MpmcAssumption
<1>6. CASE b - a = 0
  BY <1>3, <1>6, MpmcAssumption
<1> QED
  BY <1>3, <1>4, <1>5, <1>6

-----------------------------------------------------------------------------
(* The inductive invariant *)

\* The ring never holds more than a round of positions.
Window == dequeuePos <= enqueuePos /\ enqueuePos <= dequeuePos + Capacity

\* A thread under way makes a call.
InCall == \A t \in Threads : pc[t] # "load" => left[t] > 0

\* A thread is never ahead of the position it loaded; if nobody was faster, the
\* slot it looked at has not changed.
Loaded ==
  /\ \A p \in Producers :
       /\ pc[p] \in {"look", "cas"} => pos[p] <= enqueuePos
       /\ pc[p] = "cas" /\ pos[p] = enqueuePos => MyTurn(p)
  /\ \A c \in Consumers :
       /\ pc[c] \in {"look", "cas"} => pos[c] <= dequeuePos
       /\ pc[c] = "cas" /\ pos[c] = dequeuePos => Ready(c)

\* The positions in use lie within the last round reserved, those of the
\* producers not yet claimed and those of the consumers claimed.
HeldPlace ==
  /\ \A p \in Producers :
       Holds(p) => dequeuePos <= pos[p] /\ pos[p] < enqueuePos /\ MyTurn(p)
  /\ \A c \in Consumers :
       Holds(c) => pos[c] < dequeuePos /\ enqueuePos <= pos[c] + Capacity /\ Ready(c)

\* No two threads hold the same position.
HeldOnce == \A t, u \in Threads : t # u /\ Holds(t) /\ Holds(u) => pos[t] # pos[u]

\* What the sequence number of a slot says: the place is filled, free or being
\* filled, or still being emptied by the consumer of the round before.
SlotState ==
  \A n \in Nat : dequeuePos <= n /\ n < dequeuePos + Capacity =>
    \/ sequence[Slot(n)] = n + 1 /\ n < enqueuePos
    \/ sequence[Slot(n)] = n
    \/ enqueuePos <= n /\ \E c \in Consumers : Holds(c) /\ pos[c] + Capacity = n

\* The slots of the positions claimed have moved on.
SlotPast == \A n \in Nat : n < dequeuePos => n < sequence[Slot(n)]

PlaceInv == Window /\ InCall /\ Loaded /\ HeldPlace /\ HeldOnce /\ SlotState /\ SlotPast

\* The reservations: one per position, no value twice, and a value of the call
\* a producer is making only at the position it holds.
Reservations ==
  /\ Len(reserved) = enqueuePos
  /\ \A i, j \in 1 .. Len(reserved) : i # j => reserved[i] # reserved[j]
  /\ \A i \in 1 .. Len(reserved) : \A p \in Producers :
       reserved[i][1] = p =>
         /\ left[p] <= reserved[i][2]
         /\ left[p] = reserved[i][2] => Holds(p) /\ pos[p] + 1 = i
  /\ \A p \in Producers : Holds(p) => reserved[pos[p] + 1] = Value(p)

\* The data of a filled slot, and of a slot that is being read, is the value the
\* position was reserved for.
DataKept ==
  /\ \A n \in Nat : dequeuePos <= n /\ n < enqueuePos /\ sequence[Slot(n)] = n + 1
                      => data[Slot(n)] = reserved[n + 1]
  /\ \A p \in Producers : pc[p] = "store" => data[Slot(pos[p])] = Value(p)

MInv == TypeOK /\ PlaceInv /\ Reservations /\ DataKept

-----------------------------------------------------------------------------
(* Types *)

\* A thread is a producer or a consumer, never both.
LEMMA ThreadKinds ==
  /\ \A p \in Producers : p \in Threads /\ p \notin Consumers
  /\ \A c \in Consumers : c \in Threads /\ c \notin Producers
BY MpmcAssumption DEF Threads

ControlTyped ==
  pc \in [Threads -> Locations] /\ pos \in [Threads -> Nat] /\ left \in [Threads -> Nat]

\* A thread moves on, starts over, or returns from the call it is in.
LEMMA ControlStep ==
  ASSUME TypeOK, InCall, NEW t \in Threads,
         \/ \E l \in Locations : Goto(t, l) /\ UNCHANGED pos
         \/ \E l \in Locations : Goto(t, l) /\ pos' = [pos EXCEPT ![t] = enqueuePos]
         \/ \E l \in Locations : Goto(t, l) /\ pos' = [pos EXCEPT ![t] = dequeuePos]
         \/ Retry(t)
         \/ pc[t] # "load" /\ Return(t)
  PROVE  ControlTyped'
<1> USE DEF TypeOK, ControlTyped
<1>1. ASSUME NEW l \in Locations, Goto(t, l), NEW n \in Nat,
             UNCHANGED pos \/ pos' = [pos EXCEPT ![t] = n]
      PROVE  ControlTyped'
  BY <1>1 DEF Goto
<1>2. CASE pc[t] # "load" /\ Return(t)
  <2>1. left[t] - 1 \in Nat
    BY <1>2 DEF InCall
  <2> QED
    BY <1>2, <2>1 DEF Return, Locations
<1>3. CASE Retry(t)
  BY <1>1, <1>3 DEF Retry, Locations
<1> QED
  BY <1>1, <1>2, <1>3

\* Every step of Enqueue and Dequeue keeps the types.
LEMMA TypeStep == TypeOK /\ InCall /\ [Next]_vars => TypeOK'
<1> SUFFICES ASSUME TypeOK, InCall, [Next]_vars PROVE TypeOK'
  OBVIOUS
<1>1. ASSUME NEW p \in Producers, Enqueue(p) PROVE ControlTyped'
  BY <1>1, ControlStep, ThreadKinds
     DEF Locations, Retry, Enqueue, EnqueueLoad, EnqueueLook, EnqueueCas, EnqueueData, EnqueueStore
<1>2. ASSUME NEW c \in Consumers, Dequeue(c) PROVE ControlTyped'
  BY <1>2, ControlStep, ThreadKinds
     DEF Locations, Retry, Dequeue, DequeueLoad, DequeueLook, DequeueCas, DequeueData, DequeueStore
<1> USE DEF TypeOK, ControlTyped, ring
<1>3. ASSUME NEW p \in Producers, EnqueueLoad(p) \/ EnqueueLook(p) PROVE TypeOK'
  BY <1>1, <1>3 DEF Enqueue, EnqueueLoad, EnqueueLook
<1>4. ASSUME NEW p \in Producers, EnqueueCas(p) PROVE TypeOK'
  <2>1. pos[p] \in Nat /\ Value(p) \in Producers \X Nat
    BY ThreadKinds DEF Value
  <2>2. Append(reserved, Value(p)) \in Seq(Producers \X Nat)
    BY <2>1
  <2>3. enqueuePos' \in Nat /\ reserved' \in Seq(Producers \X Nat)
    <3>1. CASE enqueuePos' = pos[p] + 1 /\ reserved' = Append(reserved, Value(p))
      <4>1. pos[p] + 1 \in Nat
        BY <2>1
      <4> QED
        BY <2>2, <3>1, <4>1, Zenon
    <3>2. CASE UNCHANGED <<enqueuePos, reserved>>
      BY <3>2, Zenon
    <3> QED
      BY <1>4, <3>1, <3>2, Zenon DEF EnqueueCas
  <2> QED
    BY <1>1, <1>4, <2>3 DEF Enqueue, EnqueueCas
<1>5. ASSUME NEW p \in Producers, EnqueueData(p) PROVE TypeOK'
  <2>1. Value(p) \in Item
    BY ThreadKinds DEF Value, Item
  <2> QED
    BY <1>1, <1>5, <2>1 DEF Enqueue, EnqueueData
<1>6. ASSUME NEW p \in Producers, EnqueueStore(p) PROVE TypeOK'
  <2>1. pos[p] + 1 \in Nat
    BY ThreadKinds
  <2>2. sequence' \in [Slots -> Nat]
    BY <1>6, <2>1 DEF EnqueueStore
  <2> QED
    BY <1>1, <1>6, <2>2 DEF Enqueue, EnqueueStore
<1>7. ASSUME NEW c \in Consumers, DequeueLoad(c) \/ DequeueLook(c) PROVE TypeOK'
  BY <1>2, <1>7 DEF Dequeue, DequeueLoad, DequeueLook
<1>8. ASSUME NEW c \in Consumers, DequeueCas(c) PROVE TypeOK'
  <2>1. pos[c] \in Nat
    BY ThreadKinds
  <2>2. dequeuePos' \in Nat
    BY <1>8, <2>1 DEF DequeueCas
  <2> QED
    BY <1>2, <1>8, <2>2 DEF Dequeue, DequeueCas
<1>9. ASSUME NEW c \in Consumers, DequeueData(c) PROVE TypeOK'
  <2>1. data[Slot(pos[c])] \in Item
    BY ThreadKinds, SlotType
  <2> QED
    BY <1>2, <1>9, <2>1 DEF Dequeue, DequeueData
<1>10. ASSUME NEW c \in Consumers, DequeueStore(c) PROVE TypeOK'
  <2>1. pos[c] + Capacity \in Nat
    BY ThreadKinds, MpmcAssumption
  <2>2. None \in Item
    BY DEF Item
  <2>3. sequence' \in [Slots -> Nat]
    BY <1>10, <2>1 DEF DequeueStore
  <2>4. item' \in [Consumers -> Item]
    BY <1>10, <2>2 DEF DequeueStore
  <2> QED
    BY <1>2, <1>10, <2>3, <2>4 DEF Dequeue, DequeueStore
<1>11. CASE UNCHANGED vars
  BY <1>11 DEF vars
<1> QED
  BY <1>3, <1>4, <1>5, <1>6, <1>7, <1>8, <1>9, <1>10, <1>11 DEF Next, Enqueue, Dequeue

-----------------------------------------------------------------------------
(* The places are kept apart *)

\* Only what thread t does in its call changes.
OnlyThread(t) ==
  \A u \in Threads : u # t => pc'[u] = pc[u] /\ pos'[u] = pos[u] /\ left'[u] = left[u]

\* A step that moves no position and no sequence number, of a thread that neither
\* takes nor gives back a place.
LEMMA LocalStep ==
  ASSUME PlaceInv, NEW t \in Threads, OnlyThread(t),
         UNCHANGED <<sequence, enqueuePos, dequeuePos>>,
         Holds(t)' <=> Holds(t), Holds(t) => pos'[t] = pos[t],
         pc'[t] # "load" => left'[t] > 0,
         t \in Producers /\ pc'[t] \in {"look", "cas"} =>
           /\ pos'[t] <= enqueuePos
           /\ pc'[t] = "cas" => MyTurn(t)',
         t \in Consumers /\ pc'[t] \in {"look", "cas"} =>
           /\ pos'[t] <= dequeuePos
           /\ pc'[t] = "cas" => Ready(t)'
  PROVE  PlaceInv'
<1> USE ThreadKinds DEF PlaceInv, OnlyThread
<1>1. \A u \in Threads : (Holds(u)' <=> Holds(u)) /\ (Holds(u) => pos'[u] = pos[u])
  BY DEF Holds
<1>2. Window' /\ SlotPast'
  BY DEF Window, SlotPast
<1>3. InCall'
  BY DEF InCall
<1>4. Loaded'
  BY DEF Loaded, MyTurn, Ready
<1>5. HeldPlace'
  BY <1>1 DEF HeldPlace, MyTurn, Ready
<1>6. HeldOnce'
  BY <1>1 DEF HeldOnce
<1>7. SlotState'
  BY <1>1 DEF SlotState
<1> QED
  BY <1>2, <1>3, <1>4, <1>5, <1>6, <1>7

\* The position at which a producer finds its turn is the end of the queue, and
\* there is room for it.
LEMMA RoomAtTurn ==
  ASSUME Capacity > 1, TypeOK, PlaceInv, sequence[Slot(enqueuePos)] = enqueuePos
  PROVE  /\ enqueuePos < dequeuePos + Capacity
         /\ \A c \in Consumers : Holds(c) => enqueuePos < pos[c] + Capacity
<1> USE MpmcAssumption, ThreadKinds DEF TypeOK, PlaceInv
<1>1. ASSUME enqueuePos = dequeuePos + Capacity PROVE FALSE
  <2>1. Slot(enqueuePos) = Slot(dequeuePos)
    BY <1>1, SlotNextRound
  <2>2. sequence[Slot(dequeuePos)] \in {dequeuePos, dequeuePos + 1}
    BY <1>1 DEF SlotState
  <2> QED
    BY <1>1, <2>1, <2>2
<1>2. ASSUME NEW c \in Consumers, Holds(c), enqueuePos = pos[c] + Capacity PROVE FALSE
  <2>1. Slot(enqueuePos) = Slot(pos[c])
    BY <1>2, SlotNextRound
  <2> QED
    BY <1>2, <2>1 DEF HeldPlace, Ready
<1>3. ASSUME NEW c \in Consumers, Holds(c) PROVE enqueuePos < pos[c] + Capacity
  <2>1. enqueuePos <= pos[c] + Capacity /\ pos[c] \in Nat
    BY <1>3 DEF HeldPlace
  <2>2. enqueuePos # pos[c] + Capacity
    BY <1>2, <1>3, Zenon
  <2>3. Capacity \in Nat /\ enqueuePos \in Nat
    OBVIOUS
  <2> HIDE MpmcAssumption, ThreadKinds DEF TypeOK, PlaceInv
  <2> QED
    BY <2>1, <2>2, <2>3
<1>4. enqueuePos <= dequeuePos + Capacity
  BY DEF Window
<1>5. enqueuePos < dequeuePos + Capacity
  BY <1>1, <1>4
<1> QED
  BY <1>3, <1>5

\* A producer's compare-and-swap reserves the place at the tail.
LEMMA EnqueueCasStep ==
  ASSUME Capacity > 1, TypeOK, PlaceInv, NEW p \in Producers, pc[p] = "cas",
         enqueuePos = pos[p], enqueuePos' = pos[p] + 1,
         pc' = [pc EXCEPT ![p] = "data"], UNCHANGED <<sequence, dequeuePos, pos, left>>
  PROVE  PlaceInv'
<1> USE MpmcAssumption, ThreadKinds DEF TypeOK, PlaceInv
<1>1. sequence[Slot(enqueuePos)] = enqueuePos
  BY DEF Loaded, MyTurn
<1>2. /\ enqueuePos < dequeuePos + Capacity
      /\ \A c \in Consumers : Holds(c) => enqueuePos < pos[c] + Capacity
  BY <1>1, RoomAtTurn
<1>3. /\ Holds(p)'
      /\ \A t \in Threads : t # p => (Holds(t)' <=> Holds(t))
  BY DEF Holds
<1>4. Window' /\ SlotPast' /\ InCall'
  BY <1>2 DEF Window, SlotPast, InCall
<1>5. Loaded'
  BY DEF Loaded, MyTurn, Ready
<1>6. HeldPlace'
  BY <1>1, <1>2, <1>3 DEF HeldPlace, MyTurn, Ready, Window
<1>7. HeldOnce'
  <2>1. \A t \in Threads : Holds(t) => pos[t] # enqueuePos
    BY DEF HeldPlace, Window, Threads
  <2> QED
    BY <1>3, <2>1 DEF HeldOnce
<1>8. SlotState'
  BY <1>1, <1>2, <1>3 DEF SlotState
<1> QED
  BY <1>4, <1>5, <1>6, <1>7, <1>8

\* The position a consumer finds filled is the first of the queue.
LEMMA FirstIfReady ==
  ASSUME TypeOK, PlaceInv, sequence[Slot(dequeuePos)] = dequeuePos + 1
  PROVE  /\ dequeuePos < enqueuePos
         /\ \A p \in Producers : Holds(p) => dequeuePos < pos[p]
<1> USE MpmcAssumption, ThreadKinds DEF TypeOK, PlaceInv
<1>1. ASSUME NEW c \in Consumers, Holds(c), pos[c] + Capacity = dequeuePos PROVE FALSE
  <2>1. Slot(dequeuePos) = Slot(pos[c])
    BY <1>1, SlotNextRound
  <2> QED
    BY <1>1, <2>1 DEF HeldPlace, Ready
<1>2. dequeuePos < enqueuePos
  BY <1>1 DEF SlotState
<1>3. ASSUME NEW p \in Producers, Holds(p) PROVE dequeuePos < pos[p]
  <2>1. dequeuePos <= pos[p] /\ sequence[Slot(pos[p])] = pos[p] /\ pos[p] \in Nat
    BY <1>3 DEF HeldPlace, MyTurn
  <2> QED
    BY <2>1
<1> QED
  BY <1>2, <1>3

\* A consumer's compare-and-swap claims the place at the head.
LEMMA DequeueCasStep ==
  ASSUME TypeOK, PlaceInv, NEW c \in Consumers, pc[c] = "cas",
         dequeuePos = pos[c], dequeuePos' = pos[c] + 1,
         pc' = [pc EXCEPT ![c] = "data"], UNCHANGED <<sequence, enqueuePos, pos, left>>
  PROVE  PlaceInv'
<1> USE MpmcAssumption, ThreadKinds DEF TypeOK, PlaceInv
<1>1. sequence[Slot(dequeuePos)] = dequeuePos + 1
  BY DEF Loaded, Ready
<1>2. /\ dequeuePos < enqueuePos
      /\ \A p \in Producers : Holds(p) => dequeuePos < pos[p]
  BY <1>1, FirstIfReady
<1>3. /\ Holds(c)'
      /\ \A t \in Threads : t # c => (Holds(t)' <=> Holds(t))
  BY DEF Holds
<1>4. Window' /\ InCall'
  BY <1>2 DEF Window, InCall
<1>5. SlotPast'
  BY <1>1 DEF SlotPast
<1>6. Loaded'
  BY DEF Loaded, MyTurn, Ready
<1>7. HeldPlace'
  BY <1>1, <1>2, <1>3, SMTT(30) DEF HeldPlace, MyTurn, Ready, Window
<1>8. HeldOnce'
  <2>1. \A t \in Threads : Holds(t) => pos[t] # dequeuePos
    BY <1>2 DEF HeldPlace, Threads
  <2> QED
    BY <1>3, <2>1 DEF HeldOnce
<1>9. SlotState'
  <2> SUFFICES ASSUME NEW n \in Nat, dequeuePos + 1 <= n, n < dequeuePos + 1 + Capacity
               PROVE  \/ sequence[Slot(n)] = n + 1 /\ n < enqueuePos
                      \/ sequence[Slot(n)] = n
                      \/ /\ enqueuePos <= n
                         /\ \E d \in Consumers : Holds(d)' /\ pos[d] + Capacity = n
    BY DEF SlotState
  <2>1. CASE n = dequeuePos + Capacity
    BY <1>3, <2>1 DEF Window
  <2>2. CASE n < dequeuePos + Capacity
    BY <1>3, <2>2 DEF SlotState
  <2>3. n = dequeuePos + Capacity \/ n < dequeuePos + Capacity
    <3>1. Capacity \in Nat /\ dequeuePos \in Nat
      OBVIOUS
    <3> HIDE MpmcAssumption, ThreadKinds DEF TypeOK, PlaceInv
    <3> QED
      BY <3>1
  <2> QED
    BY <2>1, <2>2, <2>3, Zenon
<1> QED
  BY <1>4, <1>5, <1>6, <1>7, <1>8, <1>9

\* A slot of another position of the same round is another slot.
LEMMA OtherSlot ==
  ASSUME NEW m \in Nat, NEW n \in Nat, m # n, m < n + Capacity, n < m + Capacity
  PROVE  Slot(m) # Slot(n)
<1>1. CASE m < n
  BY <1>1, SlotsApart
<1>2. CASE n < m
  BY <1>2, SlotsApart
<1> QED
  BY <1>1, <1>2

\* A producer that stores the sequence number gives its place to the consumers.
LEMMA EnqueueStoreStep ==
  ASSUME TypeOK, PlaceInv, NEW p \in Producers, pc[p] = "store",
         sequence' = [sequence EXCEPT ![Slot(pos[p])] = pos[p] + 1],
         Return(p), UNCHANGED <<enqueuePos, dequeuePos>>
  PROVE  PlaceInv'
<1> USE MpmcAssumption, ThreadKinds DEF TypeOK, PlaceInv
<1> DEFINE q == pos[p]
<1>1. /\ q \in Nat /\ dequeuePos <= q /\ q < enqueuePos
      /\ enqueuePos <= dequeuePos + Capacity
      /\ sequence[Slot(q)] = q
  BY DEF Holds, HeldPlace, MyTurn, Window
<1>2. /\ ~Holds(p)' /\ pc'[p] = "load"
      /\ \A t \in Threads : t # p => /\ Holds(t)' <=> Holds(t)
                                     /\ pos'[t] = pos[t] /\ pc'[t] = pc[t] /\ left'[t] = left[t]
  BY DEF Holds, Return
<1>3. /\ sequence'[Slot(q)] = q + 1
      /\ \A n \in Nat : Slot(n) # Slot(q) => sequence'[Slot(n)] = sequence[Slot(n)]
  BY <1>1, SlotType
<1> HIDE DEF q
<1>4. Window' /\ InCall'
  BY <1>2 DEF Window, InCall
<1>5. SlotPast'
  BY <1>1, <1>3 DEF SlotPast
<1>6. Loaded'
  <2>1. ASSUME NEW r \in Producers, r # p, pc[r] = "cas", pos[r] = enqueuePos
        PROVE  sequence'[Slot(enqueuePos)] = enqueuePos
    <3>1. sequence[Slot(enqueuePos)] = enqueuePos
      BY <2>1 DEF Loaded, MyTurn
    <3>2. Slot(enqueuePos) # Slot(q)
      BY <1>1, <3>1
    <3> QED
      BY <1>3, <3>1, <3>2
  <2>2. ASSUME NEW c \in Consumers, pc[c] = "cas", pos[c] = dequeuePos
        PROVE  sequence'[Slot(dequeuePos)] = dequeuePos + 1
    <3>1. sequence[Slot(dequeuePos)] = dequeuePos + 1
      BY <2>2 DEF Loaded, Ready
    <3>2. q # dequeuePos
      BY <1>1, <3>1
    <3>3. Slot(dequeuePos) # Slot(q)
      BY <1>1, <3>2, OtherSlot
    <3> QED
      BY <1>3, <3>1, <3>3
  <2> QED
    BY <1>2, <2>1, <2>2 DEF Loaded, MyTurn, Ready
<1>7. HeldPlace'
  <2>1. ASSUME NEW r \in Producers, r # p, Holds(r)
        PROVE  sequence'[Slot(pos[r])] = pos[r]
    <3>1. pos[r] \in Nat /\ dequeuePos <= pos[r] /\ pos[r] < enqueuePos /\ sequence[Slot(pos[r])] = pos[r]
      BY <2>1 DEF HeldPlace, MyTurn
    <3>2. pos[r] # q
      BY <2>1 DEF HeldOnce, Holds, q
    <3>3. Slot(pos[r]) # Slot(q)
      BY <1>1, <3>1, <3>2, OtherSlot
    <3> QED
      BY <1>3, <3>1, <3>3
  <2>2. ASSUME NEW c \in Consumers, Holds(c)
        PROVE  sequence'[Slot(pos[c])] = pos[c] + 1
    <3>1. pos[c] \in Nat /\ pos[c] < dequeuePos /\ enqueuePos <= pos[c] + Capacity
          /\ sequence[Slot(pos[c])] = pos[c] + 1
      BY <2>2 DEF HeldPlace, Ready
    <3>2. Slot(pos[c]) # Slot(q)
      BY <1>1, <3>1, OtherSlot
    <3> QED
      BY <1>3, <3>1, <3>2
  <2> QED
    BY <1>2, <2>1, <2>2 DEF HeldPlace, MyTurn, Ready
<1>8. HeldOnce'
  BY <1>2 DEF HeldOnce
<1>9. SlotState'
  <2> SUFFICES ASSUME NEW n \in Nat, dequeuePos <= n, n < dequeuePos + Capacity
               PROVE  \/ sequence'[Slot(n)] = n + 1 /\ n < enqueuePos
                      \/ sequence'[Slot(n)] = n
                      \/ /\ enqueuePos <= n
                         /\ \E c \in Consumers : Holds(c)' /\ pos'[c] + Capacity = n
    BY DEF SlotState
  <2>1. CASE n = q
    BY <1>1, <1>3, <2>1
  <2>2. CASE n # q
    <3>1. n < q + Capacity /\ q < n + Capacity
      BY <1>1
    <3>2. Slot(n) # Slot(q)
      BY <1>1, <2>2, <3>1, OtherSlot
    <3> QED
      BY <1>2, <1>3, <3>2 DEF SlotState
  <2> QED
    BY <2>1, <2>2
<1> QED
  BY <1>4, <1>5, <1>6, <1>7, <1>8, <1>9

\* A consumer that stores the sequence number gives the slot to the next round.
LEMMA DequeueStoreStep ==
  ASSUME Capacity > 1, TypeOK, PlaceInv, NEW c \in Consumers, pc[c] = "store",
         sequence' = [sequence EXCEPT ![Slot(pos[c])] = pos[c] + Capacity],
         Return(c), UNCHANGED <<enqueuePos, dequeuePos>>
  PROVE  PlaceInv'
<1> USE MpmcAssumption, ThreadKinds DEF TypeOK, PlaceInv
<1> DEFINE q == pos[c]
<1>1. /\ q \in Nat /\ q < dequeuePos /\ dequeuePos <= enqueuePos
      /\ enqueuePos <= q + Capacity /\ q + Capacity \in Nat
      /\ sequence[Slot(q)] = q + 1
  BY DEF Holds, HeldPlace, Ready, Window
<1>2. /\ ~Holds(c)' /\ pc'[c] = "load"
      /\ \A t \in Threads : t # c => /\ Holds(t)' <=> Holds(t)
                                     /\ pos'[t] = pos[t] /\ pc'[t] = pc[t] /\ left'[t] = left[t]
  BY DEF Holds, Return
<1>3. /\ sequence'[Slot(q)] = q + Capacity
      /\ \A n \in Nat : Slot(n) # Slot(q) => sequence'[Slot(n)] = sequence[Slot(n)]
  BY <1>1, SlotType
<1>4. Slot(q + Capacity) = Slot(q)
  BY <1>1, SlotNextRound
<1> HIDE DEF q
<1>5. Window' /\ InCall'
  BY <1>2 DEF Window, InCall
<1>6. SlotPast'
  BY <1>1, <1>3 DEF SlotPast
<1>7. Loaded'
  <2>1. ASSUME NEW p \in Producers, pc[p] = "cas", pos[p] = enqueuePos
        PROVE  sequence'[Slot(enqueuePos)] = enqueuePos
    <3>1. sequence[Slot(enqueuePos)] = enqueuePos
      BY <2>1 DEF Loaded, MyTurn
    <3>2. enqueuePos # q + Capacity
      <4>1. Capacity \in Nat /\ enqueuePos \in Nat /\ dequeuePos \in Nat
        OBVIOUS
      <4> HIDE MpmcAssumption, ThreadKinds DEF TypeOK, PlaceInv
      <4> QED
        BY <1>1, <1>4, <3>1, <4>1
    <3>3. Slot(enqueuePos) # Slot(q)
      BY <1>1, <3>2, OtherSlot
    <3> QED
      BY <1>3, <3>1, <3>3
  <2>2. ASSUME NEW d \in Consumers, d # c, pc[d] = "cas", pos[d] = dequeuePos
        PROVE  sequence'[Slot(dequeuePos)] = dequeuePos + 1
    <3>1. sequence[Slot(dequeuePos)] = dequeuePos + 1
      BY <2>2 DEF Loaded, Ready
    <3>2. dequeuePos # q + Capacity
      <4>1. Capacity \in Nat /\ enqueuePos \in Nat /\ dequeuePos \in Nat
        OBVIOUS
      <4> HIDE MpmcAssumption, ThreadKinds DEF TypeOK, PlaceInv
      <4> QED
        BY <1>1, <1>4, <3>1, <4>1
    <3>3. Slot(dequeuePos) # Slot(q)
      BY <1>1, <3>2, OtherSlot
    <3> QED
      BY <1>3, <3>1, <3>3
  <2> QED
    BY <1>2, <2>1, <2>2 DEF Loaded, MyTurn, Ready
<1>8. HeldPlace'
  <2>1. ASSUME NEW p \in Producers, Holds(p)
        PROVE  sequence'[Slot(pos[p])] = pos[p]
    <3>1. pos[p] \in Nat /\ dequeuePos <= pos[p] /\ pos[p] < enqueuePos /\ sequence[Slot(pos[p])] = pos[p]
      BY <2>1 DEF HeldPlace, MyTurn
    <3>2. Slot(pos[p]) # Slot(q)
      BY <1>1, <3>1, OtherSlot
    <3> QED
      BY <1>3, <3>1, <3>2
  <2>2. ASSUME NEW d \in Consumers, d # c, Holds(d)
        PROVE  sequence'[Slot(pos[d])] = pos[d] + 1
    <3>1. pos[d] \in Nat /\ pos[d] < dequeuePos /\ enqueuePos <= pos[d] + Capacity
          /\ sequence[Slot(pos[d])] = pos[d] + 1
      BY <2>2 DEF HeldPlace, Ready
    <3>2. pos[d] # q
      BY <2>2 DEF HeldOnce, Holds, q
    <3>3. Slot(pos[d]) # Slot(q)
      BY <1>1, <3>1, <3>2, OtherSlot
    <3> QED
      BY <1>3, <3>1, <3>3
  <2> QED
    BY <1>2, <2>1, <2>2 DEF HeldPlace, MyTurn, Ready
<1>9. HeldOnce'
  BY <1>2 DEF HeldOnce
<1>10. SlotState'
  <2> SUFFICES ASSUME NEW n \in Nat, dequeuePos <= n, n < dequeuePos + Capacity
               PROVE  \/ sequence'[Slot(n)] = n + 1 /\ n < enqueuePos
                      \/ sequence'[Slot(n)] = n
                      \/ /\ enqueuePos <= n
                         /\ \E d \in Consumers : Holds(d)' /\ pos'[d] + Capacity = n
    BY DEF SlotState
  <2>1. CASE n = q + Capacity
    BY <1>3, <1>4, <2>1
  <2>2. CASE n # q + Capacity
    <3>1. Slot(n) # Slot(q + Capacity)
      <4>1. n < (q + Capacity) + Capacity /\ q + Capacity < n + Capacity
        BY <1>1
      <4> QED
        BY <1>1, <2>2, <4>1, OtherSlot
    <3>2. sequence'[Slot(n)] = sequence[Slot(n)]
      BY <1>3, <1>4, <3>1
    <3>3. ASSUME NEW d \in Consumers, Holds(d), pos[d] + Capacity = n
          PROVE  Holds(d)' /\ pos'[d] + Capacity = n
      BY <1>2, <2>2, <3>3 DEF q
    <3> QED
      BY <3>2, <3>3 DEF SlotState
  <2> QED
    BY <2>1, <2>2
<1> QED
  BY <1>5, <1>6, <1>7, <1>8, <1>9, <1>10

\* Every step keeps the places apart.
LEMMA PlaceStep == Capacity > 1 /\ TypeOK /\ PlaceInv /\ [Next]_vars => PlaceInv'
<1> SUFFICES ASSUME Capacity > 1, TypeOK, PlaceInv, [Next]_vars PROVE PlaceInv'
  OBVIOUS
<1>1. ASSUME NEW t \in Threads, NEW l, pc[t] # "load" \/ left[t] > 0, Goto(t, l)
      PROVE  pc'[t] = l /\ left'[t] > 0
  BY <1>1 DEF Goto, TypeOK, PlaceInv, InCall
<1>2. ASSUME NEW t \in Threads, NEW l, Goto(t, l), UNCHANGED pos PROVE OnlyThread(t)
  BY <1>2 DEF Goto, OnlyThread, TypeOK
<1>3. ASSUME NEW t \in Threads, Retry(t) \/ Return(t)
      PROVE  OnlyThread(t) /\ pc'[t] = "load" /\ ~Holds(t)'
  BY <1>3 DEF Goto, Retry, Return, OnlyThread, TypeOK, Holds
<1>4. ASSUME NEW t \in Threads, ~Holds(t), Retry(t) \/ Return(t),
             UNCHANGED <<ring, enqueuePos, dequeuePos>>
      PROVE  PlaceInv'
  BY <1>3, <1>4, LocalStep DEF ring
<1>5. ASSUME NEW p \in Producers, EnqueueLoad(p) PROVE PlaceInv'
  <2>1. OnlyThread(p) /\ pc'[p] = "look" /\ pos'[p] = enqueuePos /\ ~Holds(p) /\ ~Holds(p)'
    BY <1>5, ThreadKinds DEF EnqueueLoad, Goto, OnlyThread, TypeOK, Holds
  <2> QED
    BY <1>1, <1>5, <2>1, LocalStep, ThreadKinds DEF EnqueueLoad, ring, TypeOK
<1>6. ASSUME NEW p \in Producers, EnqueueLook(p) PROVE PlaceInv'
  <2>1. CASE MyTurn(p) /\ Goto(p, "cas") /\ UNCHANGED pos
    <3>1. OnlyThread(p) /\ pc'[p] = "cas" /\ left'[p] > 0 /\ MyTurn(p)' /\ ~Holds(p) /\ ~Holds(p)'
      BY <1>1, <1>2, <1>6, <2>1, ThreadKinds DEF EnqueueLook, ring, MyTurn, Holds
    <3>2. pos[p] <= enqueuePos
      BY <1>6 DEF EnqueueLook, PlaceInv, Loaded
    <3> QED
      BY <1>6, <2>1, <3>1, <3>2, LocalStep, ThreadKinds DEF EnqueueLook, ring
  <2>2. CASE Return(p) \/ Retry(p)
    BY <1>4, <1>6, <2>2, ThreadKinds DEF EnqueueLook, Holds
  <2> QED
    BY <1>6, <2>1, <2>2 DEF EnqueueLook
<1>7. ASSUME NEW p \in Producers, EnqueueCas(p) PROVE PlaceInv'
  <2>1. CASE enqueuePos = pos[p]
    BY <1>7, <2>1, EnqueueCasStep DEF EnqueueCas, Goto, ring
  <2>2. CASE enqueuePos # pos[p]
    BY <1>4, <1>7, <2>2, ThreadKinds DEF EnqueueCas, Holds, ring
  <2> QED
    BY <2>1, <2>2
<1>8. ASSUME NEW p \in Producers, EnqueueData(p) PROVE PlaceInv'
  <2>1. OnlyThread(p) /\ pc'[p] = "store" /\ left'[p] > 0 /\ Holds(p) /\ Holds(p)'
    BY <1>1, <1>2, <1>8, ThreadKinds DEF EnqueueData, Holds
  <2> QED
    BY <1>8, <2>1, LocalStep, ThreadKinds DEF EnqueueData
<1>9. ASSUME NEW p \in Producers, EnqueueStore(p) PROVE PlaceInv'
  BY <1>9, EnqueueStoreStep DEF EnqueueStore
<1>10. ASSUME NEW c \in Consumers, DequeueLoad(c) PROVE PlaceInv'
  <2>1. OnlyThread(c) /\ pc'[c] = "look" /\ pos'[c] = dequeuePos /\ ~Holds(c) /\ ~Holds(c)'
    BY <1>10, ThreadKinds DEF DequeueLoad, Goto, OnlyThread, TypeOK, Holds
  <2> QED
    BY <1>1, <1>10, <2>1, LocalStep, ThreadKinds DEF DequeueLoad, ring, TypeOK
<1>11. ASSUME NEW c \in Consumers, DequeueLook(c) PROVE PlaceInv'
  <2>1. CASE Ready(c) /\ Goto(c, "cas") /\ UNCHANGED pos
    <3>1. OnlyThread(c) /\ pc'[c] = "cas" /\ left'[c] > 0 /\ Ready(c)' /\ ~Holds(c) /\ ~Holds(c)'
      BY <1>1, <1>2, <1>11, <2>1, ThreadKinds DEF DequeueLook, ring, Ready, Holds
    <3>2. pos[c] <= dequeuePos
      BY <1>11 DEF DequeueLook, PlaceInv, Loaded
    <3> QED
      BY <1>11, <2>1, <3>1, <3>2, LocalStep, ThreadKinds DEF DequeueLook, ring
  <2>2. CASE Return(c) \/ Retry(c)
    BY <1>4, <1>11, <2>2, ThreadKinds DEF DequeueLook, Holds
  <2> QED
    BY <1>11, <2>1, <2>2 DEF DequeueLook
<1>12. ASSUME NEW c \in Consumers, DequeueCas(c) PROVE PlaceInv'
  <2>1. CASE dequeuePos = pos[c]
    BY <1>12, <2>1, DequeueCasStep DEF DequeueCas, Goto, ring
  <2>2. CASE dequeuePos # pos[c]
    BY <1>4, <1>12, <2>2, ThreadKinds DEF DequeueCas, Holds, ring
  <2> QED
    BY <2>1, <2>2
<1>13. ASSUME NEW c \in Consumers, DequeueData(c) PROVE PlaceInv'
  <2>1. OnlyThread(c) /\ pc'[c] = "store" /\ left'[c] > 0 /\ Holds(c) /\ Holds(c)'
    BY <1>1, <1>2, <1>13, ThreadKinds DEF DequeueData, Holds
  <2> QED
    BY <1>13, <2>1, LocalStep, ThreadKinds DEF DequeueData, ring
<1>14. ASSUME NEW c \in Consumers, DequeueStore(c) PROVE PlaceInv'
  BY <1>14, DequeueStoreStep DEF DequeueStore
<1>15. CASE UNCHANGED vars
  BY <1>15 DEF vars, ring, PlaceInv, Window, InCall, Loaded, HeldPlace, HeldOnce, SlotState,
               SlotPast, Holds, MyTurn, Ready
<1> QED
  BY <1>5, <1>6, <1>7, <1>8, <1>9, <1>10, <1>11, <1>12, <1>13, <1>14, <1>15
     DEF Next, Enqueue, Dequeue

\* The new ring: every slot is free for the position of the first round.
LEMMA PlaceInit == Init => TypeOK /\ PlaceInv
<1> SUFFICES ASSUME Init PROVE TypeOK /\ PlaceInv
  OBVIOUS
<1> USE MpmcAssumption DEF Init
<1>1. TypeOK
  BY DEF TypeOK, Slots, Locations, Item
<1>2. Window /\ InCall /\ Loaded /\ HeldPlace /\ HeldOnce /\ SlotPast
  BY ThreadKinds DEF Window, InCall, Loaded, HeldPlace, HeldOnce, SlotPast, Holds
<1>3. SlotState
  <2>1. \A n \in Nat : n < Capacity => n \in Slots /\ Slot(n) = n
    BY SlotOfSmall DEF Slots
  <2> QED
    BY <2>1 DEF SlotState
<1> QED
  BY <1>1, <1>2, <1>3 DEF PlaceInv

\* Held positions lie within one round, so two of them are never in one slot.
LEMMA ApartIfPlaced == TypeOK /\ PlaceInv => NoDataRace
<1> SUFFICES ASSUME TypeOK, PlaceInv, NEW t \in Threads, NEW u \in Threads,
                    t # u, Holds(t), Holds(u)
             PROVE  Slot(pos[t]) # Slot(pos[u])
  BY DEF NoDataRace, Holds
<1> USE MpmcAssumption DEF TypeOK, PlaceInv
<1>1. ASSUME NEW v \in Threads, Holds(v)
      PROVE  pos[v] \in Nat /\ pos[v] < enqueuePos /\ enqueuePos <= pos[v] + Capacity
  BY <1>1 DEF HeldPlace, Window, Threads
<1>2. pos[t] # pos[u]
  BY DEF HeldOnce
<1>3. /\ pos[t] \in Nat /\ pos[t] < enqueuePos /\ enqueuePos <= pos[t] + Capacity
      /\ pos[u] \in Nat /\ pos[u] < enqueuePos /\ enqueuePos <= pos[u] + Capacity
  BY <1>1, Zenon
<1>4. pos[t] < pos[u] + Capacity /\ pos[u] < pos[t] + Capacity
  BY <1>3
<1> QED
  BY <1>2, <1>3, <1>4, OtherSlot

\* With at least two slots, no two threads are ever at the data of one slot.
THEOREM NoRace == ASSUME Capacity > 1 PROVE Spec => []NoDataRace
<1>1. TypeOK /\ PlaceInv /\ [Next]_vars => (TypeOK /\ PlaceInv)'
  BY TypeStep, PlaceStep DEF PlaceInv
<1> QED
  BY <1>1, PlaceInit, ApartIfPlaced, PTL DEF Spec

-----------------------------------------------------------------------------
(* Reservations and data *)

\* Nothing is reserved and no place is taken: only calls end.
LEMMA ReservationsKept ==
  ASSUME TypeOK, InCall, Reservations, NEW t \in Threads, OnlyThread(t),
         UNCHANGED <<enqueuePos, reserved>>,
         Holds(t)' => Holds(t) /\ pos'[t] = pos[t] /\ left'[t] = left[t],
         ~Holds(t)' => \/ ~Holds(t) /\ left'[t] = left[t]
                       \/ left'[t] = left[t] - 1
  PROVE  Reservations'
<1> USE DEF TypeOK, Reservations, OnlyThread
<1>1. ASSUME NEW i \in 1 .. Len(reserved), NEW p \in Producers, reserved[i][1] = p
      PROVE  /\ left'[p] <= reserved[i][2]
             /\ left'[p] = reserved[i][2] => Holds(p)' /\ pos'[p] + 1 = i
  <2>1. /\ reserved[i][2] \in Nat /\ left[p] \in Nat
        /\ left[p] <= reserved[i][2]
        /\ left[p] = reserved[i][2] => Holds(p) /\ pos[p] + 1 = i
    <3>1. reserved[i] \in Producers \X Nat
      OBVIOUS
    <3>2. left[p] \in Nat
      BY ThreadKinds
    <3>3. /\ left[p] <= reserved[i][2]
          /\ left[p] = reserved[i][2] => Holds(p) /\ pos[p] + 1 = i
      BY <1>1
    <3> QED
      BY <3>1, <3>2, <3>3
  <2>2. CASE p # t
    BY <2>1, <2>2, ThreadKinds DEF Holds
  <2>3. CASE p = t
    BY <2>1, <2>3
  <2> QED
    BY <2>2, <2>3
<1>2. ASSUME NEW p \in Producers, Holds(p)' PROVE reserved'[pos'[p] + 1] = Value(p)'
  <2>1. CASE p # t
    BY <1>2, <2>1, ThreadKinds DEF Holds, Value
  <2>2. CASE p = t
    BY <1>2, <2>2 DEF Value
  <2> QED
    BY <2>1, <2>2
<1> QED
  BY <1>1, <1>2

\* The compare-and-swap of a producer reserves a value nobody else has.
LEMMA ReservationAdded ==
  ASSUME TypeOK, PlaceInv, Reservations, NEW p \in Producers, pc[p] = "cas",
         enqueuePos = pos[p], enqueuePos' = pos[p] + 1,
         reserved' = Append(reserved, Value(p)),
         pc' = [pc EXCEPT ![p] = "data"], UNCHANGED <<pos, left>>
  PROVE  Reservations'
<1> USE ThreadKinds DEF TypeOK, Reservations
<1>1. Value(p) \in Producers \X Nat /\ Value(p)[1] = p /\ Value(p)[2] = left[p]
  BY DEF Value
<1>2. ~Holds(p) /\ Holds(p)' /\ \A t \in Threads : t # p => (Holds(t)' <=> Holds(t))
  BY DEF Holds
<1>3. /\ Len(reserved) = enqueuePos /\ Len(reserved') = enqueuePos + 1
      /\ reserved'[enqueuePos + 1] = Value(p)
      /\ \A i \in 1 .. Len(reserved) : reserved'[i] = reserved[i]
  BY <1>1
<1>4. \A i \in 1 .. Len(reserved) : reserved[i] # Value(p)
  BY <1>1, <1>2
<1>5. ASSUME NEW i \in 1 .. Len(reserved'), NEW j \in 1 .. Len(reserved'), i # j
      PROVE  reserved'[i] # reserved'[j]
  <2>1. /\ i = enqueuePos + 1 \/ i \in 1 .. Len(reserved)
        /\ j = enqueuePos + 1 \/ j \in 1 .. Len(reserved)
    BY <1>3
  <2>2. CASE i \in 1 .. Len(reserved) /\ j \in 1 .. Len(reserved)
    BY <1>3, <1>5, <2>2
  <2>3. CASE i = enqueuePos + 1 /\ j \in 1 .. Len(reserved)
    BY <1>3, <1>4, <2>3
  <2>4. CASE j = enqueuePos + 1 /\ i \in 1 .. Len(reserved)
    BY <1>3, <1>4, <2>4
  <2> QED
    BY <1>5, <2>1, <2>2, <2>3, <2>4
<1>6. ASSUME NEW i \in 1 .. Len(reserved'), NEW q \in Producers, reserved'[i][1] = q
      PROVE  /\ left[q] <= reserved'[i][2]
             /\ left[q] = reserved'[i][2] => Holds(q)' /\ pos[q] + 1 = i
  <2>1. CASE i = enqueuePos + 1
    BY <1>1, <1>2, <1>3, <1>6, <2>1
  <2>2. CASE i \in 1 .. Len(reserved)
    BY <1>2, <1>3, <1>6, <2>2
  <2> QED
    BY <1>3, <2>1, <2>2, SMTT(30)
<1>7. ASSUME NEW q \in Producers, Holds(q)' PROVE reserved'[pos[q] + 1] = Value(q)
  <2>1. CASE q = p
    BY <1>3, <2>1
  <2>2. CASE q # p
    <3>1. Holds(q) /\ pos[q] \in Nat /\ pos[q] < enqueuePos
      BY <1>2, <1>7, <2>2 DEF PlaceInv, HeldPlace
    <3>2. pos[q] + 1 \in 1 .. Len(reserved)
      BY <1>3, <3>1, SMTT(30)
    <3> QED
      BY <1>3, <3>1, <3>2
  <2> QED
    BY <2>1, <2>2
<1>8. \A q \in Producers : Value(q)' = Value(q)
  BY DEF Value
<1>9. Len(reserved') = enqueuePos'
  BY <1>3
<1> QED
  BY <1>5, <1>6, <1>7, <1>8, <1>9

\* Every step keeps one reservation per position, each of a value of its own.
LEMMA ReservationsStep ==
  TypeOK /\ PlaceInv /\ Reservations /\ [Next]_vars => Reservations'
<1> SUFFICES ASSUME TypeOK, PlaceInv, Reservations, [Next]_vars PROVE Reservations'
  OBVIOUS
<1>1. ASSUME NEW t \in Threads, UNCHANGED <<enqueuePos, reserved>>, ~Holds(t),
             \/ Retry(t) \/ Return(t)
             \/ Goto(t, "cas") /\ UNCHANGED pos
             \/ Goto(t, "look") /\ OnlyThread(t)
      PROVE  Reservations'
  BY <1>1, ReservationsKept DEF PlaceInv, TypeOK, Retry, Return, Goto, OnlyThread, Holds
<1>2. ASSUME NEW t \in Threads, UNCHANGED <<enqueuePos, reserved>>, Holds(t),
             Return(t) \/ (Goto(t, "store") /\ UNCHANGED pos)
      PROVE  Reservations'
  BY <1>2, ReservationsKept DEF PlaceInv, TypeOK, Return, Goto, OnlyThread, Holds
<1>3. ASSUME NEW p \in Producers, EnqueueLoad(p) PROVE Reservations'
  <2>1. OnlyThread(p)
    BY <1>3 DEF EnqueueLoad, Goto, OnlyThread, TypeOK
  <2> QED
    BY <1>1, <1>3, <2>1, ThreadKinds DEF EnqueueLoad, Holds
<1>4. ASSUME NEW p \in Producers, EnqueueLook(p) PROVE Reservations'
  BY <1>1, <1>4, ThreadKinds DEF EnqueueLook, Holds
<1>5. ASSUME NEW p \in Producers, EnqueueCas(p) PROVE Reservations'
  <2>1. CASE enqueuePos = pos[p]
    BY <1>5, <2>1, ReservationAdded DEF EnqueueCas, Goto
  <2>2. CASE enqueuePos # pos[p]
    BY <1>1, <1>5, <2>2, ThreadKinds DEF EnqueueCas, Holds
  <2> QED
    BY <2>1, <2>2
<1>6. ASSUME NEW p \in Producers, EnqueueData(p) \/ EnqueueStore(p) PROVE Reservations'
  BY <1>2, <1>6, ThreadKinds DEF EnqueueData, EnqueueStore, Holds
<1>7. ASSUME NEW c \in Consumers, DequeueLoad(c) PROVE Reservations'
  <2>1. OnlyThread(c)
    BY <1>7 DEF DequeueLoad, Goto, OnlyThread, TypeOK
  <2> QED
    BY <1>1, <1>7, <2>1, ThreadKinds DEF DequeueLoad, Holds
<1>8. ASSUME NEW c \in Consumers, DequeueLook(c) PROVE Reservations'
  BY <1>1, <1>8, ThreadKinds DEF DequeueLook, Holds
<1>9. ASSUME NEW c \in Consumers, DequeueCas(c) PROVE Reservations'
  <2>1. CASE dequeuePos = pos[c]
    <3>1. \A p \in Producers : pc'[p] = pc[p] /\ pos'[p] = pos[p] /\ left'[p] = left[p]
      BY <1>9, <2>1, ThreadKinds DEF DequeueCas, Goto, TypeOK
    <3>2. \A p \in Producers : (Holds(p)' <=> Holds(p)) /\ Value(p)' = Value(p)
      BY <3>1 DEF Holds, Value
    <3>3. UNCHANGED <<enqueuePos, reserved>>
      BY <1>9 DEF DequeueCas
    <3> QED
      BY <3>1, <3>2, <3>3 DEF Reservations
  <2>2. CASE dequeuePos # pos[c]
    BY <1>1, <1>9, <2>2, ThreadKinds DEF DequeueCas, Holds
  <2> QED
    BY <2>1, <2>2
<1>10. ASSUME NEW c \in Consumers, DequeueData(c) \/ DequeueStore(c) PROVE Reservations'
  BY <1>2, <1>10, ThreadKinds DEF DequeueData, DequeueStore, Holds
<1>11. CASE UNCHANGED vars
  BY <1>11 DEF vars, Reservations, Holds, Value
<1> QED
  BY <1>3, <1>4, <1>5, <1>6, <1>7, <1>8, <1>9, <1>10, <1>11 DEF Next, Enqueue, Dequeue

\* A step that leaves the ring alone leaves what is in it.
LEMMA DataLeft ==
  ASSUME TypeOK, DataKept, UNCHANGED <<ring, enqueuePos, dequeuePos, reserved>>,
         \A p \in Producers : pc'[p] = "store" => pc[p] = "store" /\ pos'[p] = pos[p] /\ left'[p] = left[p]
  PROVE  DataKept'
BY DEF DataKept, ring, Value

\* Every step keeps the data of filled slots: a slot is written only by its holder.
LEMMA DataStep ==
  /\ Capacity > 1 /\ TypeOK /\ PlaceInv /\ Reservations /\ DataKept /\ [Next]_vars
  => DataKept'
<1> SUFFICES ASSUME Capacity > 1, TypeOK, PlaceInv, Reservations, DataKept, [Next]_vars
             PROVE  DataKept'
  OBVIOUS
<1>1. ASSUME NEW t \in Threads, UNCHANGED <<ring, enqueuePos, dequeuePos, reserved>>,
             \/ Retry(t) \/ Return(t) \/ (Goto(t, "cas") /\ UNCHANGED pos)
             \/ Goto(t, "look") /\ OnlyThread(t)
      PROVE  DataKept'
  BY <1>1, DataLeft, ThreadKinds DEF TypeOK, Retry, Return, Goto, OnlyThread
<1>2. ASSUME NEW p \in Producers, EnqueueLoad(p) PROVE DataKept'
  <2>1. OnlyThread(p)
    BY <1>2 DEF EnqueueLoad, Goto, OnlyThread, TypeOK
  <2> QED
    BY <1>1, <1>2, <2>1, ThreadKinds DEF EnqueueLoad
<1>3. ASSUME NEW p \in Producers, EnqueueLook(p) PROVE DataKept'
  BY <1>1, <1>3, ThreadKinds DEF EnqueueLook
<1>4. ASSUME NEW p \in Producers, EnqueueCas(p) PROVE DataKept'
  <2>1. CASE enqueuePos = pos[p]
    <3>1. /\ enqueuePos' = enqueuePos + 1 /\ reserved' = Append(reserved, Value(p))
          /\ pc' = [pc EXCEPT ![p] = "data"] /\ UNCHANGED <<sequence, data, dequeuePos, pos, left>>
      BY <1>4, <2>1 DEF EnqueueCas, Goto, ring
    <3>2. sequence[Slot(enqueuePos)] = enqueuePos
      BY <1>4, <2>1 DEF EnqueueCas, PlaceInv, Loaded, MyTurn
    <3>3. Len(reserved) = enqueuePos /\ Value(p) \in Producers \X Nat
      BY ThreadKinds DEF Reservations, Value, TypeOK
    <3>4. ASSUME NEW n \in Nat, dequeuePos <= n, n < enqueuePos + 1, sequence[Slot(n)] = n + 1
          PROVE  data[Slot(n)] = reserved'[n + 1]
      <4>1. n < enqueuePos
        BY <3>2, <3>4 DEF TypeOK
      <4>2. reserved'[n + 1] = reserved[n + 1]
        BY <3>1, <3>3, <4>1 DEF TypeOK
      <4> QED
        BY <3>4, <4>1, <4>2 DEF DataKept
    <3>5. ASSUME NEW q \in Producers, pc'[q] = "store" PROVE data[Slot(pos[q])] = Value(q)'
      BY <3>1, <3>5, ThreadKinds DEF DataKept, Value, TypeOK
    <3> QED
      BY <3>1, <3>4, <3>5 DEF DataKept
  <2>2. CASE enqueuePos # pos[p]
    BY <1>1, <1>4, <2>2, ThreadKinds DEF EnqueueCas
  <2> QED
    BY <2>1, <2>2
<1>5. ASSUME NEW p \in Producers, EnqueueData(p) PROVE DataKept'
  <2>1. /\ data' = [data EXCEPT ![Slot(pos[p])] = Value(p)]
        /\ pc' = [pc EXCEPT ![p] = "store"] /\ Holds(p)
        /\ UNCHANGED <<sequence, enqueuePos, dequeuePos, pos, left, reserved>>
    BY <1>5 DEF EnqueueData, Goto, Holds
  <2>2. pos[p] \in Nat /\ dequeuePos <= pos[p] /\ pos[p] < enqueuePos /\ sequence[Slot(pos[p])] = pos[p]
        /\ enqueuePos <= dequeuePos + Capacity
    BY <2>1, ThreadKinds DEF PlaceInv, HeldPlace, MyTurn, TypeOK, Window
  <2>3. /\ data'[Slot(pos[p])] = Value(p)
        /\ \A n \in Nat : Slot(n) # Slot(pos[p]) => data'[Slot(n)] = data[Slot(n)]
    BY <2>1, <2>2, SlotType DEF TypeOK
  <2>4. ASSUME NEW n \in Nat, dequeuePos <= n, n < enqueuePos, sequence[Slot(n)] = n + 1
        PROVE  data'[Slot(n)] = reserved[n + 1]
    <3>1. n # pos[p] /\ n < pos[p] + Capacity /\ pos[p] < n + Capacity
      BY <2>2, <2>4, MpmcAssumption DEF TypeOK
    <3>2. Slot(n) # Slot(pos[p])
      BY <2>2, <3>1, OtherSlot
    <3> QED
      BY <2>3, <2>4, <3>2 DEF DataKept
  <2>5. ASSUME NEW q \in Producers, pc'[q] = "store" PROVE data'[Slot(pos[q])] = Value(q)
    <3>1. CASE q = p
      BY <2>3, <3>1
    <3>2. CASE q # p
      <4>1. pc[q] = "store" /\ Holds(q) /\ pos[q] \in Nat
        BY <2>1, <2>5, <3>2, ThreadKinds DEF Holds, TypeOK
      <4>2. Slot(pos[q]) # Slot(pos[p])
        BY <2>1, <3>2, <4>1, ApartIfPlaced, ThreadKinds DEF NoDataRace, Holds
      <4> QED
        BY <2>3, <4>1, <4>2 DEF DataKept
    <3> QED
      BY <3>1, <3>2
  <2> QED
    BY <2>1, <2>4, <2>5 DEF DataKept, Value
<1>6. ASSUME NEW p \in Producers, EnqueueStore(p) PROVE DataKept'
  <2>1. /\ sequence' = [sequence EXCEPT ![Slot(pos[p])] = pos[p] + 1]
        /\ pc[p] = "store" /\ Holds(p) /\ pc'[p] = "load"
        /\ \A q \in Producers : q # p => pc'[q] = pc[q] /\ pos'[q] = pos[q] /\ left'[q] = left[q]
        /\ UNCHANGED <<data, enqueuePos, dequeuePos, reserved>>
    BY <1>6, ThreadKinds DEF EnqueueStore, Return, Holds, TypeOK
  <2>2. pos[p] \in Nat /\ data[Slot(pos[p])] = reserved[pos[p] + 1]
    BY <2>1, ThreadKinds DEF Reservations, DataKept, TypeOK
  <2>3. /\ sequence'[Slot(pos[p])] = pos[p] + 1
        /\ \A n \in Nat : Slot(n) # Slot(pos[p]) => sequence'[Slot(n)] = sequence[Slot(n)]
    BY <2>1, <2>2, SlotType DEF TypeOK
  <2>4. ASSUME NEW n \in Nat, dequeuePos <= n, n < enqueuePos, sequence'[Slot(n)] = n + 1
        PROVE  data[Slot(n)] = reserved[n + 1]
    <3>1. CASE Slot(n) = Slot(pos[p])
      <4>1. n = pos[p]
        BY <2>2, <2>3, <2>4, <3>1
      <4> QED
        BY <2>2, <4>1
    <3>2. CASE Slot(n) # Slot(pos[p])
      BY <2>3, <2>4, <3>2 DEF DataKept
    <3> QED
      BY <3>1, <3>2
  <2>5. ASSUME NEW q \in Producers, pc'[q] = "store" PROVE data[Slot(pos'[q])] = Value(q)'
    <3>1. q # p
      BY <2>1, <2>5
    <3> QED
      BY <2>1, <2>5, <3>1 DEF DataKept, Value
  <2> QED
    BY <2>1, <2>4, <2>5 DEF DataKept
<1>7. ASSUME NEW c \in Consumers, DequeueLoad(c) PROVE DataKept'
  <2>1. OnlyThread(c)
    BY <1>7 DEF DequeueLoad, Goto, OnlyThread, TypeOK
  <2> QED
    BY <1>1, <1>7, <2>1, ThreadKinds DEF DequeueLoad
<1>8. ASSUME NEW c \in Consumers, DequeueLook(c) PROVE DataKept'
  BY <1>1, <1>8, ThreadKinds DEF DequeueLook
<1>9. ASSUME NEW c \in Consumers, DequeueCas(c) PROVE DataKept'
  <2>1. CASE dequeuePos = pos[c]
    <3>1. /\ dequeuePos' = dequeuePos + 1 /\ UNCHANGED <<sequence, data, enqueuePos, reserved>>
          /\ \A p \in Producers : pc'[p] = pc[p] /\ pos'[p] = pos[p] /\ left'[p] = left[p]
      BY <1>9, <2>1, ThreadKinds DEF DequeueCas, Goto, TypeOK, ring
    <3>2. ASSUME NEW n \in Nat, dequeuePos + 1 <= n PROVE dequeuePos <= n
      BY <3>2 DEF TypeOK
    <3>3. \A p \in Producers : Value(p)' = Value(p)
      BY <3>1 DEF Value
    <3> QED
      BY <3>1, <3>2, <3>3 DEF DataKept
  <2>2. CASE dequeuePos # pos[c]
    BY <1>1, <1>9, <2>2, ThreadKinds DEF DequeueCas
  <2> QED
    BY <2>1, <2>2
<1>10. ASSUME NEW c \in Consumers, DequeueData(c) PROVE DataKept'
  <2>1. \A p \in Producers : pc'[p] = pc[p] /\ pos'[p] = pos[p] /\ left'[p] = left[p]
    BY <1>10, ThreadKinds DEF DequeueData, Goto, TypeOK
  <2> QED
    BY <1>10, <2>1, DataLeft DEF DequeueData
<1>11. ASSUME NEW c \in Consumers, DequeueStore(c) PROVE DataKept'
  <2>1. /\ sequence' = [sequence EXCEPT ![Slot(pos[c])] = pos[c] + Capacity]
        /\ UNCHANGED <<data, enqueuePos, dequeuePos, reserved>>
        /\ \A p \in Producers : pc'[p] = pc[p] /\ pos'[p] = pos[p] /\ left'[p] = left[p]
    BY <1>11, ThreadKinds DEF DequeueStore, Return, TypeOK
  <2>2. pos[c] \in Nat /\ pos[c] < dequeuePos /\ enqueuePos <= pos[c] + Capacity
    BY <1>11, ThreadKinds DEF DequeueStore, PlaceInv, HeldPlace, Holds, TypeOK
  <2>3. ASSUME NEW n \in Nat, dequeuePos <= n, n < enqueuePos
        PROVE  sequence'[Slot(n)] = sequence[Slot(n)]
    <3>1. pos[c] < n /\ n < pos[c] + Capacity
      BY <2>2, <2>3, MpmcAssumption DEF TypeOK
    <3>2. Slot(n) # Slot(pos[c])
      BY <2>2, <3>1, SlotsApart
    <3> QED
      BY <2>1, <2>2, <3>2, SlotType DEF TypeOK
  <2> QED
    BY <2>1, <2>3 DEF DataKept, Value
<1>12. CASE UNCHANGED vars
  BY <1>12 DEF vars, ring, DataKept, Value
<1> QED
  BY <1>2, <1>3, <1>4, <1>5, <1>6, <1>7, <1>8, <1>9, <1>10, <1>11, <1>12
     DEF Next, Enqueue, Dequeue

-----------------------------------------------------------------------------
(* Refinement *)

\* The whole invariant is kept by every step, with at least two slots.
LEMMA InvStep == Capacity > 1 /\ MInv /\ [Next]_vars => MInv'
BY TypeStep, PlaceStep, ReservationsStep, DataStep DEF MInv, PlaceInv

\* The whole invariant holds of the ring Create makes.
LEMMA InvInit == Init => MInv
<1>1. Init => Reservations /\ DataKept
  BY MpmcAssumption, ThreadKinds DEF Init, Reservations, DataKept, Holds
<1> QED
  BY <1>1, PlaceInit DEF MInv

\* A sequence is the function of its elements; what Append adds comes last.
LEMMA SeqIsFunction ==
  ASSUME NEW S, NEW s \in Seq(S), NEW n \in Nat, Len(s) = n
  PROVE  s = [i \in 1 .. n |-> s[i]]
BY LenProperties

\* The elements of a sequence that grew by one.
LEMMA AppendElements ==
  ASSUME NEW S, NEW s \in Seq(S), NEW e \in S
  PROVE  /\ Append(s, e) \in Seq(S) /\ Len(Append(s, e)) = Len(s) + 1
         /\ Append(s, e)[Len(s) + 1] = e
         /\ \A i \in 1 .. Len(s) : Append(s, e)[i] = s[i]
OBVIOUS

\* The waiting values are a sequence, one per position.
LEMMA WaitingIsSeq ==
  ASSUME MInv
  PROVE  /\ Waiting \in Seq(Producers \X Nat) /\ Len(Waiting) = enqueuePos - dequeuePos
         /\ \A i \in 1 .. Len(Waiting) : Waiting[i] = reserved[dequeuePos + i]
         /\ enqueuePos - dequeuePos \in Nat /\ DOMAIN Waiting = 1 .. Len(Waiting)
<1>1. enqueuePos - dequeuePos \in Nat
  BY DEF MInv, TypeOK, PlaceInv, Window
<1>2. \A i \in 1 .. enqueuePos - dequeuePos : reserved[dequeuePos + i] \in Producers \X Nat
  BY <1>1 DEF MInv, TypeOK, Reservations
<1> QED
  BY <1>1, <1>2 DEF Waiting

\* What a place holds shows in the status of its thread.
LEMMA StatusTaken ==
  ASSUME MInv, NEW t \in Threads, ~Holds(t), Holds(t)',
         \A u \in Threads : u # t => (Holds(u)' <=> Holds(u))
  PROVE  Status[t] = "idle" /\ Status' = [Status EXCEPT ![t] = "busy"]
BY DEF Status, Holds

\* A thread that gives its place back becomes idle in the abstract queue.
LEMMA StatusGiven ==
  ASSUME MInv, NEW t \in Threads, Holds(t), ~Holds(t)',
         \A u \in Threads : u # t => (Holds(u)' <=> Holds(u))
  PROVE  Status[t] = "busy" /\ Status' = [Status EXCEPT ![t] = "idle"]
BY DEF Status, Holds

\* A step in which nobody takes or gives back a place changes no status.
LEMMA StatusSame ==
  ASSUME \A u \in Threads : Holds(u)' <=> Holds(u)
  PROVE  Status' = Status
BY DEF Status, Holds

\* What consumers have taken changes with their own steps only: a producer writes
\* to no slot that is being read.
LEMMA TakenSame ==
  ASSUME \A c \in Consumers : pc'[c] = pc[c] /\ pos'[c] = pos[c],
         \A c \in Consumers : pc[c] = "data" => data'[Slot(pos[c])] = data[Slot(pos[c])],
         UNCHANGED item
  PROVE  Taken' = Taken
BY DEF Taken

\* A step that neither takes nor gives back a place and ends no call is not seen.
LEMMA Unseen ==
  ASSUME MInv, UNCHANGED <<sequence, enqueuePos, dequeuePos, left, reserved>>,
         \A u \in Threads : Holds(u)' <=> Holds(u), Taken' = Taken
  PROVE  UNCHANGED Abstract!vars
<1>1. Status' = Status
  BY StatusSame
<1>2. Waiting' = Waiting /\ Published' = Published
  BY DEF Waiting, Published
<1> QED
  BY <1>1, <1>2 DEF Abstract!vars

\* A producer gives up for the promised reason only.
LEMMA RefusedIfFull ==
  ASSUME MInv, NEW p \in Producers, pc[p] = "look", Full(p)
  PROVE  Len(Waiting) = Capacity \/ Abstract!Claimed # {}
<1>1. pos[p] \in Nat /\ pos[p] <= enqueuePos /\ sequence[Slot(pos[p])] < pos[p]
  BY ThreadKinds DEF MInv, TypeOK, PlaceInv, Loaded, Full
<1>2. sequence[Slot(pos[p])] \in Nat /\ enqueuePos \in Nat /\ dequeuePos \in Nat /\ Capacity \in Nat
  BY <1>1, SlotType, MpmcAssumption DEF MInv, TypeOK
<1>3. dequeuePos <= pos[p]
  BY <1>1, <1>2 DEF MInv, PlaceInv, SlotPast
<1>4. enqueuePos <= dequeuePos + Capacity
  BY DEF MInv, PlaceInv, Window
<1>5. CASE pos[p] = dequeuePos + Capacity
  <2>1. enqueuePos - dequeuePos = Capacity
    BY <1>1, <1>2, <1>4, <1>5
  <2> QED
    BY <2>1, WaitingIsSeq
<1>6. CASE pos[p] < dequeuePos + Capacity
  <2>1. \E c \in Consumers : Holds(c)
    BY <1>1, <1>2, <1>3, <1>6 DEF MInv, PlaceInv, SlotState
  <2>2. PICK c \in Consumers : Holds(c)
    BY <2>1
  <2>3. c \in Threads /\ Status[c] = "busy"
    BY <2>2, ThreadKinds DEF Status, Holds
  <2> QED
    BY <2>3 DEF Abstract!Claimed
<1> QED
  BY <1>1, <1>2, <1>4, <1>5, <1>6

\* A value is published once its position was claimed or its slot says so.
Shown(j) == j <= dequeuePos \/ sequence[Slot(j - 1)] = j

\* The values the mapping calls published are the ones shown by their slots.
LEMMA PublishedIff ==
  ASSUME MInv, NEW j \in 1 .. Len(reserved)
  PROVE  reserved[j] \in Published <=> Shown(j)
BY DEF Published, Shown, MInv, Reservations

\* A consumer finds nothing for the promised reason only.
LEMMA NothingIfEmpty ==
  ASSUME MInv, NEW c \in Consumers, pc[c] = "look", Empty(c)
  PROVE  Waiting = <<>> \/ Head(Waiting) \notin Published
<1>1. /\ pos[c] \in Nat /\ pos[c] <= dequeuePos /\ sequence[Slot(pos[c])] < pos[c] + 1
      /\ sequence[Slot(pos[c])] \in Nat /\ enqueuePos \in Nat /\ dequeuePos \in Nat
      /\ dequeuePos <= enqueuePos
  BY ThreadKinds, SlotType DEF MInv, TypeOK, PlaceInv, Loaded, Empty, Window
<1>2. pos[c] = dequeuePos
  BY <1>1 DEF MInv, PlaceInv, SlotPast
<1>3. CASE enqueuePos = dequeuePos
  BY <1>1, <1>3, WaitingIsSeq
<1>4. CASE dequeuePos < enqueuePos
  <2>1. dequeuePos + 1 \in 1 .. Len(reserved)
    BY <1>1, <1>4 DEF MInv, Reservations
  <2>2. ~Shown(dequeuePos + 1)
    BY <1>1, <1>2 DEF Shown
  <2>3. reserved[dequeuePos + 1] \notin Published
    BY <2>1, <2>2, PublishedIff
  <2>4. Head(Waiting) = reserved[dequeuePos + 1]
    BY <1>1, <1>4, WaitingIsSeq
  <2> QED
    BY <2>3, <2>4
<1> QED
  BY <1>1, <1>3, <1>4

\* A call that fails changes nothing but the account of its thread.
LEMMA FailedCall ==
  ASSUME MInv, NEW t \in Threads, pc[t] = "look", Return(t),
         UNCHANGED <<ring, enqueuePos, dequeuePos, item, reserved>>
  PROVE  /\ Status[t] = "idle" /\ left[t] > 0 /\ left' = [left EXCEPT ![t] = @ - 1]
         /\ UNCHANGED <<Waiting, Published, Status, Taken>>
<1>1. \A u \in Threads : Holds(u)' <=> Holds(u)
  BY DEF Holds, Return, MInv, TypeOK
<1>2. Taken' = Taken
  BY ThreadKinds DEF Taken, Return, MInv, TypeOK, ring
<1>3. Waiting' = Waiting /\ Published' = Published
  BY DEF Waiting, Published, ring
<1>4. Status' = Status
  BY <1>1, StatusSame
<1>5. Status[t] = "idle" /\ left[t] > 0
  BY DEF Status, MInv, PlaceInv, InCall
<1> QED
  BY <1>2, <1>3, <1>4, <1>5 DEF Return

\* The compare-and-swap of a producer is the reservation.
LEMMA ReserveSeen ==
  ASSUME Capacity > 1, MInv, NEW p \in Producers, EnqueueCas(p), enqueuePos = pos[p]
  PROVE  Abstract!Reserve(p)
<1>1. /\ enqueuePos' = enqueuePos + 1 /\ reserved' = Append(reserved, Value(p))
      /\ pc' = [pc EXCEPT ![p] = "data"] /\ pc[p] = "cas"
      /\ UNCHANGED <<sequence, data, dequeuePos, pos, item, left>>
  BY DEF EnqueueCas, Goto, ring
<1>2. /\ ~Holds(p) /\ Holds(p)' /\ left[p] > 0
      /\ \A u \in Threads : u # p => (Holds(u)' <=> Holds(u))
  BY <1>1, ThreadKinds DEF Holds, MInv, TypeOK, PlaceInv, InCall
<1>3. sequence[Slot(enqueuePos)] = enqueuePos
  BY <1>1 DEF MInv, PlaceInv, Loaded, MyTurn
<1>4. enqueuePos < dequeuePos + Capacity
  BY <1>3, RoomAtTurn DEF MInv
<1>5. Len(Waiting) < Capacity
  <2>1. Len(Waiting) = enqueuePos - dequeuePos
    BY WaitingIsSeq
  <2>2. enqueuePos \in Nat /\ dequeuePos \in Nat /\ Capacity \in Nat
    BY MpmcAssumption DEF MInv, TypeOK
  <2> QED
    BY <1>4, <2>1, <2>2
<1>6. /\ Value(p) \in Producers \X Nat /\ Len(reserved) = enqueuePos
      /\ Len(reserved') = enqueuePos + 1 /\ reserved'[enqueuePos + 1] = Value(p)
      /\ \A i \in 1 .. enqueuePos : reserved'[i] = reserved[i]
      /\ enqueuePos \in Nat /\ dequeuePos \in Nat
  BY <1>1, ThreadKinds DEF Value, MInv, TypeOK, Reservations
<1>7. Waiting' = Append(Waiting, Value(p))
  <2>1. /\ Waiting \in Seq(Producers \X Nat) /\ Len(Waiting) = enqueuePos - dequeuePos
        /\ \A i \in 1 .. Len(Waiting) : Waiting[i] = reserved[dequeuePos + i]
        /\ enqueuePos - dequeuePos \in Nat
    BY WaitingIsSeq
  <2>2. Waiting' = [i \in 1 .. (enqueuePos - dequeuePos) + 1 |-> reserved'[dequeuePos + i]]
    <3>1. enqueuePos' - dequeuePos' = (enqueuePos - dequeuePos) + 1
      BY <1>1, <1>6
    <3> QED
      BY <1>1, <3>1 DEF Waiting
  <2>3. ASSUME NEW i \in 1 .. (enqueuePos - dequeuePos) + 1
        PROVE  reserved'[dequeuePos + i] = Append(Waiting, Value(p))[i]
    <3>1. CASE i = (enqueuePos - dequeuePos) + 1
      <4>1. dequeuePos + i = enqueuePos + 1 /\ i = Len(Waiting) + 1
        <5>1. enqueuePos \in Nat /\ dequeuePos \in Nat /\ Len(Waiting) = enqueuePos - dequeuePos
          BY <1>6, <2>1
        <5> QED
          BY <3>1, <5>1
      <4>2. Append(Waiting, Value(p))[Len(Waiting) + 1] = Value(p)
        BY <1>6, <2>1, AppendElements, SMTT(30)
      <4> QED
        BY <1>6, <4>1, <4>2
    <3>2. CASE i \in 1 .. Len(Waiting)
      BY <1>6, <2>1, <3>2, SMTT(30)
    <3> QED
      BY <2>1, <2>3, <3>1, <3>2
  <2>4. /\ Append(Waiting, Value(p)) \in Seq(Producers \X Nat)
        /\ Len(Append(Waiting, Value(p))) = (enqueuePos - dequeuePos) + 1
    BY <1>6, <2>1, SMTT(30)
  <2>5. Append(Waiting, Value(p)) = [i \in 1 .. (enqueuePos - dequeuePos) + 1 |-> Append(Waiting, Value(p))[i]]
    <3>1. (enqueuePos - dequeuePos) + 1 \in Nat
      BY <2>1
    <3> QED
      BY <2>4, <3>1, SeqIsFunction
  <2> QED
    BY <2>2, <2>3, <2>5
<1>8. Published' = Published
  <2>1. ~Shown(enqueuePos + 1)
    BY <1>3, <1>6 DEF Shown, MInv, PlaceInv, Window
  <2>2. \A j \in 1 .. enqueuePos + 1 : Shown(j)' <=> Shown(j)
    BY <1>1 DEF Shown
  <2>3. Published = {reserved[i] : i \in {j \in 1 .. enqueuePos : Shown(j)}}
    BY <1>6 DEF Published, Shown
  <2>4. Published' = {reserved'[i] : i \in {j \in 1 .. enqueuePos + 1 : Shown(j)}}
    BY <1>6, <2>2 DEF Published, Shown
  <2>5. {j \in 1 .. enqueuePos + 1 : Shown(j)} = {j \in 1 .. enqueuePos : Shown(j)}
    BY <1>6, <2>1
  <2> QED
    BY <1>6, <2>3, <2>4, <2>5
<1>9. Status[p] = "idle" /\ Status' = [Status EXCEPT ![p] = "busy"]
  BY <1>2, StatusTaken, ThreadKinds
<1>10. Taken' = Taken
  BY <1>1, TakenSame, ThreadKinds DEF MInv, TypeOK
<1> QED
  BY <1>1, <1>2, <1>5, <1>7, <1>8, <1>9, <1>10 DEF Abstract!Reserve, Abstract!Value, Value

\* The store of a producer publishes its value.
LEMMA PublishSeen ==
  ASSUME MInv, NEW p \in Producers, EnqueueStore(p)
  PROVE  Abstract!Publish(p)
<1>1. /\ sequence' = [sequence EXCEPT ![Slot(pos[p])] = pos[p] + 1]
      /\ Holds(p) /\ ~Holds(p)' /\ left' = [left EXCEPT ![p] = @ - 1]
      /\ \A u \in Threads : u # p => pc'[u] = pc[u] /\ pos'[u] = pos[u]
      /\ UNCHANGED <<data, enqueuePos, dequeuePos, item, reserved>>
  BY ThreadKinds DEF EnqueueStore, Return, Holds, MInv, TypeOK
<1>2. /\ pos[p] \in Nat /\ dequeuePos <= pos[p] /\ pos[p] < enqueuePos
      /\ enqueuePos <= dequeuePos + Capacity
      /\ reserved[pos[p] + 1] = Value(p) /\ Len(reserved) = enqueuePos
      /\ enqueuePos \in Nat /\ dequeuePos \in Nat /\ Capacity \in Nat
  BY <1>1, ThreadKinds, MpmcAssumption
     DEF MInv, TypeOK, PlaceInv, Window, HeldPlace, Reservations
<1>3. Status[p] = "busy" /\ Status' = [Status EXCEPT ![p] = "idle"]
  BY <1>1, StatusGiven, ThreadKinds DEF Holds
<1>4. Taken' = Taken
  BY <1>1, TakenSame, ThreadKinds
<1>5. Waiting' = Waiting
  BY <1>1 DEF Waiting
<1>6. Published' = Published \cup {Value(p)}
  <2> PICK q \in Nat : q = pos[p]
    BY <1>2
  <2>1. Shown(q + 1)'
    <3>1. sequence'[Slot(q)] = q + 1
      BY <1>1, <1>2, SlotType DEF MInv, TypeOK
    <3>2. (q + 1) - 1 = q
      OBVIOUS
    <3> QED
      BY <3>1, <3>2 DEF Shown
  <2>2. ASSUME NEW j \in 1 .. enqueuePos, j # q + 1 PROVE Shown(j)' <=> Shown(j)
    <3>1. CASE j <= dequeuePos
      BY <1>1, <3>1 DEF Shown
    <3>2. CASE ~(j <= dequeuePos)
      <4>1. /\ j - 1 \in Nat /\ j - 1 # q
            /\ j - 1 < q + Capacity /\ q < (j - 1) + Capacity
        BY <1>2, <2>2, <3>2
      <4>2. Slot(j - 1) # Slot(q)
        BY <1>2, <4>1, OtherSlot
      <4>3. sequence'[Slot(j - 1)] = sequence[Slot(j - 1)]
        BY <1>1, <1>2, <4>1, <4>2, SlotType DEF MInv, TypeOK
      <4> QED
        BY <1>1, <4>3 DEF Shown
    <3> QED
      BY <3>1, <3>2
  <2>3. Published = {reserved[i] : i \in {j \in 1 .. enqueuePos : Shown(j)}}
    BY <1>2 DEF Published, Shown
  <2>4. Published' = {reserved[i] : i \in {j \in 1 .. enqueuePos : Shown(j)'}}
    BY <1>1, <1>2 DEF Published, Shown
  <2>5. q + 1 \in 1 .. enqueuePos
    BY <1>2
  <2>6. {j \in 1 .. enqueuePos : Shown(j)'} = {j \in 1 .. enqueuePos : Shown(j)} \cup {q + 1}
    BY <2>1, <2>2, <2>5, Zenon
  <2> QED
    BY <1>2, <2>3, <2>4, <2>6
<1> QED
  BY <1>1, <1>3, <1>4, <1>5, <1>6 DEF Abstract!Publish, Abstract!Value, Value

\* The compare-and-swap of a consumer claims the first value, which is published.
LEMMA ClaimSeen ==
  ASSUME MInv, NEW c \in Consumers, DequeueCas(c), dequeuePos = pos[c]
  PROVE  Abstract!Claim(c)
<1>1. /\ dequeuePos' = dequeuePos + 1 /\ pc[c] = "cas" /\ pc' = [pc EXCEPT ![c] = "data"]
      /\ UNCHANGED <<sequence, data, enqueuePos, pos, item, left, reserved>>
  BY DEF DequeueCas, Goto, ring
<1>2. /\ ~Holds(c) /\ Holds(c)' /\ left[c] > 0
      /\ \A u \in Threads : u # c => (Holds(u)' <=> Holds(u))
  BY <1>1, ThreadKinds DEF Holds, MInv, TypeOK, PlaceInv, InCall
<1>3. sequence[Slot(dequeuePos)] = dequeuePos + 1
  BY <1>1 DEF MInv, PlaceInv, Loaded, Ready
<1>4. dequeuePos < enqueuePos
  BY <1>3, FirstIfReady DEF MInv
<1>5. enqueuePos \in Nat /\ dequeuePos \in Nat /\ Len(reserved) = enqueuePos
  BY DEF MInv, TypeOK, Reservations
<1>6. /\ Waiting \in Seq(Producers \X Nat) /\ Len(Waiting) = enqueuePos - dequeuePos
      /\ \A i \in 1 .. Len(Waiting) : Waiting[i] = reserved[dequeuePos + i]
  BY WaitingIsSeq
<1>7. Waiting # <<>> /\ Head(Waiting) = reserved[dequeuePos + 1]
  BY <1>4, <1>5, <1>6
<1>8. data[Slot(dequeuePos)] = reserved[dequeuePos + 1]
  BY <1>3, <1>4, <1>5 DEF MInv, DataKept
<1>9. Head(Waiting) \in Published
  <2>1. dequeuePos + 1 \in 1 .. Len(reserved) /\ Shown(dequeuePos + 1)
    BY <1>3, <1>4, <1>5 DEF Shown
  <2> QED
    BY <1>7, <2>1, PublishedIff
<1>10. Taken' = [Taken EXCEPT ![c] = Head(Waiting)]
  <2>1. Taken'[c] = Head(Waiting)
    BY <1>1, <1>7, <1>8, ThreadKinds DEF Taken, MInv, TypeOK
  <2>2. \A d \in Consumers : d # c => Taken'[d] = Taken[d]
    BY <1>1, ThreadKinds DEF Taken, MInv, TypeOK
  <2> QED
    BY <2>1, <2>2 DEF Taken
<1>11. Waiting' = Tail(Waiting)
  <2>1. Waiting' = [i \in 1 .. (enqueuePos - dequeuePos) - 1 |-> reserved[(dequeuePos + 1) + i]]
    <3>1. enqueuePos' - dequeuePos' = (enqueuePos - dequeuePos) - 1
      BY <1>1, <1>5
    <3> QED
      BY <1>1, <3>1 DEF Waiting
  <2>2. /\ Tail(Waiting) \in Seq(Producers \X Nat)
        /\ Len(Tail(Waiting)) = (enqueuePos - dequeuePos) - 1
        /\ \A i \in 1 .. (enqueuePos - dequeuePos) - 1 : Tail(Waiting)[i] = Waiting[i + 1]
        /\ (enqueuePos - dequeuePos) - 1 \in Nat
    <3>1. (enqueuePos - dequeuePos) - 1 \in Nat
      BY <1>4, <1>5
    <3> QED
      BY <1>6, <1>7, <3>1, HeadTailProperties
  <2>3. ASSUME NEW i \in 1 .. (enqueuePos - dequeuePos) - 1
        PROVE  Tail(Waiting)[i] = reserved[(dequeuePos + 1) + i]
    <3>1. i + 1 \in 1 .. Len(Waiting) /\ dequeuePos + (i + 1) = (dequeuePos + 1) + i
      BY <1>5, <1>6, SMTT(30)
    <3>2. Waiting[i + 1] = reserved[dequeuePos + (i + 1)]
      BY <1>6, <3>1
    <3> QED
      BY <2>2, <3>1, <3>2
  <2>4. Tail(Waiting) = [i \in 1 .. (enqueuePos - dequeuePos) - 1 |-> Tail(Waiting)[i]]
    BY <2>2, SeqIsFunction
  <2> QED
    BY <2>1, <2>3, <2>4
<1>12. Published' = Published
  <2>1. \A j \in 1 .. Len(reserved) : Shown(j)' <=> Shown(j)
    BY <1>1, <1>3, <1>5 DEF Shown
  <2> QED
    BY <1>1, <2>1 DEF Published, Shown
<1>13. Status[c] = "idle" /\ Status' = [Status EXCEPT ![c] = "busy"]
  BY <1>2, StatusTaken, ThreadKinds
<1> QED
  BY <1>1, <1>2, <1>7, <1>9, <1>10, <1>11, <1>12, <1>13 DEF Abstract!Claim

\* The store of a consumer gives the place back.
LEMMA ReleaseSeen ==
  ASSUME MInv, NEW c \in Consumers, DequeueStore(c)
  PROVE  Abstract!Release(c)
<1>1. /\ sequence' = [sequence EXCEPT ![Slot(pos[c])] = pos[c] + Capacity]
      /\ Holds(c) /\ ~Holds(c)' /\ pc'[c] = "load" /\ left' = [left EXCEPT ![c] = @ - 1]
      /\ \A u \in Threads : u # c => pc'[u] = pc[u] /\ pos'[u] = pos[u]
      /\ item' = [item EXCEPT ![c] = None]
      /\ UNCHANGED <<data, enqueuePos, dequeuePos, reserved>>
  BY ThreadKinds DEF DequeueStore, Return, Holds, MInv, TypeOK
<1>2. /\ pos[c] \in Nat /\ pos[c] < dequeuePos /\ enqueuePos <= pos[c] + Capacity
      /\ Len(reserved) = enqueuePos
      /\ enqueuePos \in Nat /\ dequeuePos \in Nat /\ Capacity \in Nat
  BY <1>1, ThreadKinds, MpmcAssumption DEF MInv, TypeOK, PlaceInv, HeldPlace, Reservations
<1>3. Status[c] = "busy" /\ Status' = [Status EXCEPT ![c] = "idle"]
  BY <1>1, StatusGiven, ThreadKinds DEF Holds
<1>4. Taken' = [Taken EXCEPT ![c] = None]
  <2>1. Taken'[c] = None
    BY <1>1 DEF Taken
  <2>2. \A d \in Consumers : d # c => Taken'[d] = Taken[d]
    BY <1>1, ThreadKinds DEF Taken, MInv, TypeOK
  <2> QED
    BY <2>1, <2>2 DEF Taken
<1>5. Waiting' = Waiting
  BY <1>1 DEF Waiting
<1>6. Published' = Published
  <2>1. ASSUME NEW j \in 1 .. Len(reserved) PROVE Shown(j)' <=> Shown(j)
    <3>1. CASE j <= dequeuePos
      BY <1>1, <3>1 DEF Shown
    <3>2. CASE ~(j <= dequeuePos)
      <4>1. j - 1 \in Nat /\ pos[c] < j - 1 /\ j - 1 < pos[c] + Capacity
        BY <1>2, <3>2
      <4>2. Slot(j - 1) # Slot(pos[c])
        BY <1>2, <4>1, SlotsApart
      <4>3. sequence'[Slot(j - 1)] = sequence[Slot(j - 1)]
        BY <1>1, <1>2, <4>1, <4>2, SlotType DEF MInv, TypeOK
      <4> QED
        BY <1>1, <4>3 DEF Shown
    <3> QED
      BY <3>1, <3>2
  <2> QED
    BY <1>1, <2>1 DEF Published, Shown
<1> QED
  BY <1>1, <1>3, <1>4, <1>5, <1>6 DEF Abstract!Release

\* Every step of the ring is a step of the promised queue or none at all.
LEMMA QueueStep == Capacity > 1 /\ MInv /\ [Next]_vars => [Abstract!Next]_(Abstract!vars)
<1> SUFFICES ASSUME Capacity > 1, MInv, [Next]_vars
             PROVE  Abstract!Next \/ UNCHANGED Abstract!vars
  OBVIOUS
<1>1. ASSUME NEW t \in Threads, pc[t] \notin {"data", "store"}, pc'[t] \notin {"data", "store"},
             OnlyThread(t), UNCHANGED <<ring, enqueuePos, dequeuePos, item, left, reserved>>
      PROVE  UNCHANGED Abstract!vars
  <2>1. \A u \in Threads : Holds(u)' <=> Holds(u)
    BY <1>1 DEF Holds, OnlyThread
  <2>2. Taken' = Taken
    BY <1>1, ThreadKinds DEF Taken, OnlyThread, ring
  <2> QED
    BY <1>1, <2>1, <2>2, Unseen DEF ring
<1>2. ASSUME NEW t \in Threads, pc[t] \in {"look", "cas"},
             Retry(t) \/ (Goto(t, "cas") /\ UNCHANGED pos),
             UNCHANGED <<ring, enqueuePos, dequeuePos, item, reserved>>
      PROVE  UNCHANGED Abstract!vars
  <2>1. OnlyThread(t) /\ pc'[t] \notin {"data", "store"} /\ UNCHANGED left
    BY <1>2 DEF MInv, TypeOK, Retry, Goto, OnlyThread
  <2> QED
    BY <1>1, <1>2, <2>1
<1>3. ASSUME NEW p \in Producers, EnqueueLoad(p) PROVE UNCHANGED Abstract!vars
  <2>1. OnlyThread(p) /\ pc'[p] = "look" /\ UNCHANGED left
    BY <1>3, ThreadKinds DEF EnqueueLoad, Goto, OnlyThread, MInv, TypeOK
  <2> QED
    BY <1>1, <1>3, <2>1, ThreadKinds DEF EnqueueLoad
<1>4. ASSUME NEW p \in Producers, EnqueueLook(p)
      PROVE  Abstract!Next \/ UNCHANGED Abstract!vars
  <2>1. CASE Full(p) /\ Return(p)
    <3>1. Abstract!Refuse(p)
      BY <1>4, <2>1, RefusedIfFull, FailedCall, ThreadKinds DEF EnqueueLook, Abstract!Refuse
    <3> QED
      BY <3>1 DEF Abstract!Next
  <2>2. CASE Retry(p) \/ (Goto(p, "cas") /\ UNCHANGED pos)
    BY <1>2, <1>4, <2>2, ThreadKinds DEF EnqueueLook
  <2> QED
    BY <1>4, <2>1, <2>2 DEF EnqueueLook
<1>5. ASSUME NEW p \in Producers, EnqueueCas(p)
      PROVE  Abstract!Next \/ UNCHANGED Abstract!vars
  <2>1. CASE enqueuePos = pos[p]
    BY <1>5, <2>1, ReserveSeen DEF Abstract!Next
  <2>2. CASE enqueuePos # pos[p]
    BY <1>2, <1>5, <2>2, ThreadKinds DEF EnqueueCas
  <2> QED
    BY <2>1, <2>2
<1>6. ASSUME NEW p \in Producers, EnqueueData(p) PROVE UNCHANGED Abstract!vars
  <2>1. /\ data' = [data EXCEPT ![Slot(pos[p])] = Value(p)] /\ Holds(p)
        /\ pc' = [pc EXCEPT ![p] = "store"]
        /\ UNCHANGED <<sequence, enqueuePos, dequeuePos, pos, item, left, reserved>>
    BY <1>6 DEF EnqueueData, Goto, Holds
  <2>2. \A u \in Threads : Holds(u)' <=> Holds(u)
    BY <2>1, ThreadKinds DEF Holds, MInv, TypeOK
  <2>3. ASSUME NEW c \in Consumers, pc[c] = "data"
        PROVE  data'[Slot(pos[c])] = data[Slot(pos[c])]
    <3>1. Slot(pos[c]) # Slot(pos[p])
      BY <2>1, <2>3, ApartIfPlaced, ThreadKinds DEF NoDataRace, Holds, MInv
    <3>2. Slot(pos[c]) \in Slots
      BY SlotType, ThreadKinds DEF MInv, TypeOK
    <3> QED
      BY <2>1, <3>1, <3>2 DEF MInv, TypeOK
  <2>4. \A c \in Consumers : pc'[c] = pc[c] /\ pos'[c] = pos[c]
    BY <2>1, ThreadKinds DEF MInv, TypeOK
  <2>5. Taken' = Taken
    BY <2>1, <2>3, <2>4, TakenSame
  <2> QED
    BY <2>1, <2>2, <2>5, Unseen
<1>7. ASSUME NEW p \in Producers, EnqueueStore(p) PROVE Abstract!Next
  BY <1>7, PublishSeen DEF Abstract!Next
<1>8. ASSUME NEW c \in Consumers, DequeueLoad(c) PROVE UNCHANGED Abstract!vars
  <2>1. OnlyThread(c) /\ pc'[c] = "look" /\ UNCHANGED left
    BY <1>8, ThreadKinds DEF DequeueLoad, Goto, OnlyThread, MInv, TypeOK
  <2> QED
    BY <1>1, <1>8, <2>1, ThreadKinds DEF DequeueLoad
<1>9. ASSUME NEW c \in Consumers, DequeueLook(c)
      PROVE  Abstract!Next \/ UNCHANGED Abstract!vars
  <2>1. CASE Empty(c) /\ Return(c)
    <3>1. Abstract!Nothing(c)
      BY <1>9, <2>1, NothingIfEmpty, FailedCall, ThreadKinds DEF DequeueLook, Abstract!Nothing
    <3> QED
      BY <3>1 DEF Abstract!Next
  <2>2. CASE Retry(c) \/ (Goto(c, "cas") /\ UNCHANGED pos)
    BY <1>2, <1>9, <2>2, ThreadKinds DEF DequeueLook
  <2> QED
    BY <1>9, <2>1, <2>2 DEF DequeueLook
<1>10. ASSUME NEW c \in Consumers, DequeueCas(c)
      PROVE  Abstract!Next \/ UNCHANGED Abstract!vars
  <2>1. CASE dequeuePos = pos[c]
    BY <1>10, <2>1, ClaimSeen DEF Abstract!Next
  <2>2. CASE dequeuePos # pos[c]
    BY <1>2, <1>10, <2>2, ThreadKinds DEF DequeueCas
  <2> QED
    BY <2>1, <2>2
<1>11. ASSUME NEW c \in Consumers, DequeueData(c) PROVE UNCHANGED Abstract!vars
  <2>1. /\ item' = [item EXCEPT ![c] = data[Slot(pos[c])]]
        /\ pc[c] = "data" /\ pc' = [pc EXCEPT ![c] = "store"]
        /\ UNCHANGED <<sequence, data, enqueuePos, dequeuePos, pos, left, reserved>>
    BY <1>11 DEF DequeueData, Goto, ring
  <2>2. \A u \in Threads : Holds(u)' <=> Holds(u)
    BY <2>1, ThreadKinds DEF Holds, MInv, TypeOK
  <2>3. \A d \in Consumers : Taken'[d] = Taken[d]
    BY <2>1, ThreadKinds DEF Taken, MInv, TypeOK
  <2>4. Taken' = Taken
    BY <2>3 DEF Taken
  <2> QED
    BY <2>1, <2>2, <2>4, Unseen
<1>12. ASSUME NEW c \in Consumers, DequeueStore(c) PROVE Abstract!Next
  BY <1>12, ReleaseSeen DEF Abstract!Next
<1>13. CASE UNCHANGED vars
  BY <1>13 DEF vars, ring, Abstract!vars, Waiting, Published, Status, Taken
<1> QED
  BY <1>3, <1>4, <1>5, <1>6, <1>7, <1>8, <1>9, <1>10, <1>11, <1>12, <1>13
     DEF Next, Enqueue, Dequeue

\* With at least two slots the ring implements the promised queue: values leave
\* in the order of the reservations, each to one consumer and as it was written,
\* and a call fails only for the promised reason.
THEOREM RingIsQueue == ASSUME Capacity > 1 PROVE Spec => ImplementsQueue
<1>1. Init => Abstract!Init
  BY DEF Init, Abstract!Init, Waiting, Published, Status, Taken, Threads
<1>2. MInv /\ [Next]_vars => MInv' /\ [Abstract!Next]_(Abstract!vars)
  BY InvStep, QueueStep
<1> QED
  BY <1>1, <1>2, InvInit, PTL DEF Spec, ImplementsQueue, Abstract!Spec
=============================================================================
