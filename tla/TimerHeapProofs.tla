-------------------------- MODULE TimerHeapProofs --------------------------
(***************************************************************************)
(* Proofs about the timer heap, for any number of entries and any          *)
(* deadlines: the entries know their places, every call leaves the array   *)
(* ordered, and the heap is the queue that TimerQueue promises.            *)
(***************************************************************************)
EXTENDS TimerHeap, FiniteSetTheorems, FunctionTheorems, SequenceTheorems, WellFoundedInduction, TLAPS

-----------------------------------------------------------------------------
(* The inductive invariant *)

Calls == {"none", "Enqueue", "Dequeue", "PopDue", "Remove", "UpdateDeadline"}

TypeOK ==
  /\ heap \in Seq(Entries)
  /\ heapIndex \in [Entries -> Int] /\ inHeap \in [Entries -> BOOLEAN]
  /\ deadline \in [Entries -> Deadlines]
  /\ call \in Calls /\ loop \in {"none", "up", "down"}
  /\ at \in Nat /\ home \in Nat
  /\ due \in [now : Nat, max : Nat, out : Seq(Entries)]

\* The calls that settle an entry in the middle of the array.
Settling == call \in {"Remove", "UpdateDeadline"}

\* Which loops a call has, and where they may stand.
LoopOfCall ==
  /\ loop = "none" => call \in {"none", "PopDue"}
  /\ loop = "up" => call = "Enqueue" \/ Settling
  /\ loop = "down" => call \in {"Dequeue", "PopDue"} \/ Settling
  /\ loop # "none" => at \in 1 .. Len(heap)
  /\ Settling => home \in 1 .. Len(heap)
  /\ Settling /\ loop = "down" => home <= at

\* Array and entries agree.
Places ==
  /\ \A i \in 1 .. Len(heap) : heapIndex[heap[i]] = i /\ inHeap[heap[i]]
  /\ \A e \in Entries : inHeap[e] => heapIndex[e] \in 1 .. Len(heap) /\ heap[heapIndex[e]] = e
  /\ \A e \in Entries : ~inHeap[e] => heapIndex[e] = -1

\* The deadlines d of the entries in an array h, by place.
Times(h, d) == [i \in 1 .. Len(h) |-> d[h[i]]]

\* D holds n deadlines, by place.
Values(n, D) == D \in [1 .. n -> Nat]

Ordered(D, i) == D[Parent(i)] <= D[i]

\* Place by place, the children are not earlier than their parents: everywhere;
\* but for place a and its parent; but for place a and its children; but for both.
InOrder(n, D)       == \A i \in 2 .. n : Ordered(D, i)
OrderedBelow(n, D, a) == \A i \in 2 .. n : i # a => Ordered(D, i)
OrderedAbove(n, D, a) == \A i \in 2 .. n : Parent(i) # a => Ordered(D, i)
OrderedAround(n, D, a) == \A i \in 2 .. n : i # a /\ Parent(i) # a => Ordered(D, i)

\* Across place a, its children and its parent are in order.
Across(n, D, a) == a > 1 => \A i \in 2 .. n : Parent(i) = a => D[Parent(a)] <= D[i]

\* The entry at the loop's place may be earlier than its parent.
UpOrdered ==
  LET D == Times(heap, deadline)
  IN  OrderedBelow(Len(heap), D, at) /\ Across(Len(heap), D, at)

\* The entry at the loop's place may be later than its children; where Remove or
\* UpdateDeadline began, it may be earlier than its parent too.
DownOrdered ==
  LET D == Times(heap, deadline)
  IN  /\ OrderedAround(Len(heap), D, at) /\ Across(Len(heap), D, at)
      /\ ~Settling \/ at # home => OrderedAbove(Len(heap), D, at)

Order ==
  /\ loop = "none" => InOrder(Len(heap), Times(heap, deadline))
  /\ loop = "up" => UpOrdered
  /\ loop = "down" => DownOrdered

\* What PopDue has taken: due entries, each once, in order, none later than what
\* is left.
PoppedSoFar ==
  /\ call # "PopDue" => due.out = <<>>
  /\ call = "PopDue" => due.now \in Deadlines /\ due.max \in 0 .. Cardinality(Entries)
  /\ due.max > 0 => Len(due.out) <= due.max
  /\ \A i \in 1 .. Len(due.out) :
       /\ ~inHeap[due.out[i]] /\ deadline[due.out[i]] <= due.now
       /\ \A k \in 1 .. Len(heap) : deadline[due.out[i]] <= deadline[heap[k]]
       /\ \A j \in 1 .. Len(due.out) :
            i < j => due.out[i] # due.out[j] /\ deadline[due.out[i]] <= deadline[due.out[j]]

HInv == TypeOK /\ LoopOfCall /\ Places /\ Order /\ PoppedSoFar

-----------------------------------------------------------------------------
(* Parents *)

\* The parent of a place is a place before it.
LEMMA ParentBefore ==
  ASSUME NEW i \in Nat, i > 1 PROVE Parent(i) \in Nat /\ 1 <= Parent(i) /\ Parent(i) < i
BY DEF Parent

\* The children of place i are 2i and 2i + 1.
LEMMA Children ==
  ASSUME NEW i \in Nat, NEW c \in Nat PROVE Parent(c) = i <=> c = 2 * i \/ c = 2 * i + 1
BY DEF Parent

\* What the array holds are entries, and their deadlines are numbers.
LEMMA ArrayTypes ==
  ASSUME NEW h \in Seq(Entries), NEW d \in [Entries -> Deadlines]
  PROVE  /\ Len(h) \in Nat
         /\ \A i \in 1 .. Len(h) : h[i] \in Entries /\ d[h[i]] \in Nat
<1>1. Len(h) \in Nat /\ \A i \in 1 .. Len(h) : h[i] \in Entries
  OBVIOUS
<1>2. \A i \in 1 .. Len(h) : d[h[i]] \in Nat
  BY <1>1, HeapAssumption
<1> QED
  BY <1>1, <1>2

\* The deadlines in an array are numbers, and HeapOrdered is about them.
LEMMA TimesValues ==
  ASSUME NEW h \in Seq(Entries), NEW d \in [Entries -> Deadlines]
  PROVE  /\ Values(Len(h), Times(h, d))
         /\ \A i \in 1 .. Len(h) : Times(h, d)[i] = d[h[i]]
         /\ InOrder(Len(h), Times(h, d)) <=> \A i \in 2 .. Len(h) : d[h[Parent(i)]] <= d[h[i]]
<1>1. /\ Times(h, d) \in [1 .. Len(h) -> Nat]
      /\ \A i \in 1 .. Len(h) : Times(h, d)[i] = d[h[i]]
  BY ArrayTypes DEF Times
<1>2. Len(h) \in Nat
  OBVIOUS
<1>3. \A i \in 2 .. Len(h) : i \in 1 .. Len(h) /\ Parent(i) \in 1 .. Len(h)
  BY <1>2, ParentBefore
<1>4. \A i \in 2 .. Len(h) : Ordered(Times(h, d), i) <=> d[h[Parent(i)]] <= d[h[i]]
  BY <1>1, <1>3 DEF Ordered
<1> QED
  BY <1>1, <1>4 DEF Values, InOrder

\* A turn of HeapifyUp: the entry changes places with its parent, and only there
\* may it still be too early.
LEMMA RiseOrder ==
  ASSUME NEW n \in Nat, NEW D, NEW E, Values(n, D), Values(n, E),
         NEW a \in 2 .. n, NEW p, p = Parent(a),
         OrderedBelow(n, D, a), Across(n, D, a),
         D[a] < D[p], E[a] = D[p], E[p] = D[a],
         \A k \in 1 .. n : k # a /\ k # p => E[k] = D[k]
  PROVE  OrderedBelow(n, E, p) /\ Across(n, E, p)
<1> USE DEF Values, OrderedBelow, Across, Ordered
<1>1. \A i \in 2 .. n : Parent(i) \in 1 .. n /\ Parent(i) < i
  BY ParentBefore
<1>2. ASSUME NEW i \in 2 .. n, i # p PROVE E[Parent(i)] <= E[i]
  <2>1. CASE i = a
    BY <1>1, <2>1
  <2>2. CASE i # a /\ Parent(i) = a
    BY <1>1, <1>2, <2>2
  <2>3. CASE i # a /\ Parent(i) = p
    BY <1>1, <1>2, <2>3
  <2>4. CASE i # a /\ Parent(i) # a /\ Parent(i) # p
    <3>1. E[i] = D[i]
      BY <1>2, <2>4
    <3>2. E[Parent(i)] = D[Parent(i)]
      BY <1>1, <2>4
    <3>3. D[Parent(i)] <= D[i]
      BY <2>4
    <3> QED
      BY <3>1, <3>2, <3>3
  <2> QED
    BY <2>1, <2>2, <2>3, <2>4
<1>3. ASSUME p > 1, NEW i \in 2 .. n, Parent(i) = p PROVE E[Parent(p)] <= E[i]
  <2>1. D[Parent(p)] <= D[p] /\ Parent(p) \in 1 .. n /\ Parent(p) < p /\ p < a
    BY <1>1, <1>3
  <2>2. E[Parent(p)] = D[Parent(p)]
    <3>1. Parent(p) # a /\ Parent(p) # p
      BY <1>1, <2>1
    <3> QED
      BY <2>1, <3>1
  <2>3. CASE i = a
    BY <2>1, <2>2, <2>3
  <2>4. CASE i # a
    <3>1. D[p] <= D[i] /\ E[i] = D[i]
      BY <1>1, <1>3, <2>4
    <3> QED
      BY <2>1, <2>2, <3>1
  <2> QED
    BY <2>3, <2>4
<1> QED
  BY <1>2, <1>3

\* A turn of HeapifyDown: the entry changes places with its least child, and only
\* below that may there still be earlier ones.
LEMMA SinkOrder ==
  ASSUME NEW n \in Nat, NEW D, NEW E, Values(n, D), Values(n, E),
         NEW a \in 1 .. n, NEW s \in 2 .. n, Parent(s) = a,
         OrderedAround(n, D, a), Across(n, D, a),
         D[s] < D[a], \A i \in 2 .. n : Parent(i) = a => D[s] <= D[i],
         E[a] = D[s], E[s] = D[a],
         \A k \in 1 .. n : k # a /\ k # s => E[k] = D[k]
  PROVE  OrderedAbove(n, E, s) /\ Across(n, E, s)
<1> USE DEF Values, OrderedAround, OrderedAbove, Across, Ordered
<1>1. \A i \in 2 .. n : Parent(i) \in 1 .. n /\ Parent(i) < i
  BY ParentBefore
<1>2. ASSUME NEW i \in 2 .. n, Parent(i) # s PROVE E[Parent(i)] <= E[i]
  <2>1. CASE i = s
    BY <2>1
  <2>2. CASE i # s /\ Parent(i) = a
    BY <1>1, <2>2
  <2>3. CASE i = a
    <3>1. a \in 2 .. n /\ a < s /\ Parent(a) < a /\ Parent(a) \in 1 .. n
      BY <1>1, <2>3
    <3>2. E[Parent(a)] = D[Parent(a)] /\ D[Parent(a)] <= D[s]
      BY <3>1
    <3> QED
      BY <2>3, <3>2
  <2>4. CASE i # s /\ i # a /\ Parent(i) # a
    <3>1. E[i] = D[i]
      BY <2>4
    <3>2. E[Parent(i)] = D[Parent(i)]
      BY <1>1, <1>2, <2>4
    <3>3. D[Parent(i)] <= D[i]
      BY <2>4
    <3> QED
      BY <3>1, <3>2, <3>3
  <2> QED
    BY <2>1, <2>2, <2>3, <2>4
<1>3. ASSUME NEW i \in 2 .. n, Parent(i) = s PROVE E[a] <= E[i]
  <2>1. a < s /\ s < i /\ i # a /\ Parent(i) # a
    BY <1>1, <1>3
  <2>2. E[i] = D[i]
    BY <2>1
  <2>3. D[s] <= D[i]
    BY <1>3, <2>1
  <2> QED
    BY <2>2, <2>3
<1> QED
  BY <1>2, <1>3

\* A new entry or a new deadline at place a disturbs the order only there: the
\* children of a were not earlier than a, nor a earlier than its parent.
LEMMA ChangedPlace ==
  ASSUME NEW n \in Nat, NEW m \in Nat, n <= m, NEW D, NEW E, Values(m, D), Values(n, E),
         NEW a \in 1 .. n, InOrder(m, D),
         \A k \in 1 .. n : k # a => E[k] = D[k]
  PROVE  OrderedAround(n, E, a) /\ Across(n, E, a)
<1> USE DEF Values, InOrder, OrderedAround, Across, Ordered
<1>1. \A i \in 2 .. n : Parent(i) \in 1 .. n /\ Parent(i) < i
  BY ParentBefore
<1>2. ASSUME NEW i \in 2 .. n, Parent(i) # a, i # a PROVE E[Parent(i)] <= E[i]
  <2>1. E[i] = D[i]
    BY <1>2
  <2>2. E[Parent(i)] = D[Parent(i)]
    BY <1>1, <1>2
  <2>3. i \in 2 .. m
    OBVIOUS
  <2>4. D[Parent(i)] <= D[i]
    BY <2>3
  <2> QED
    BY <2>1, <2>2, <2>4
<1>3. ASSUME a > 1, NEW i \in 2 .. n, Parent(i) = a PROVE E[Parent(a)] <= E[i]
  <2>1. a \in 2 .. n /\ Parent(a) \in 1 .. n /\ Parent(a) < a /\ a < i
    BY <1>1, <1>3
  <2>2. E[i] = D[i] /\ E[Parent(a)] = D[Parent(a)]
    BY <2>1
  <2>3. D[Parent(a)] <= D[a]
    BY <2>1
  <2>4. i \in 2 .. m /\ D[Parent(i)] <= D[i]
    OBVIOUS
  <2>5. D[Parent(a)] \in Nat /\ D[a] \in Nat /\ D[i] \in Nat
    BY <2>1, <2>4
  <2> QED
    BY <1>3, <2>2, <2>3, <2>4, <2>5
<1> QED
  BY <1>2, <1>3

\* The first places of a heap are a heap.
LEMMA ShorterInOrder ==
  ASSUME NEW n \in Nat, NEW m \in Nat, n <= m, NEW D, NEW E, Values(m, D), Values(n, E),
         InOrder(m, D), \A k \in 1 .. n : E[k] = D[k]
  PROVE  InOrder(n, E)
<1> SUFFICES ASSUME NEW i \in 2 .. n PROVE Ordered(E, i)
  BY DEF InOrder
<1>1. Parent(i) \in 1 .. n /\ i \in 1 .. n /\ i \in 2 .. m
  BY ParentBefore
<1> QED
  BY <1>1 DEF InOrder, Ordered

\* The first place of a heap is the least.
LEMMA RootLeast ==
  ASSUME NEW n \in Nat, NEW D, Values(n, D), InOrder(n, D)
  PROVE  \A j \in 1 .. n : D[1] <= D[j]
<1> USE DEF Values
<1> SUFFICES ASSUME NEW j \in 1 .. n, ~(D[1] <= D[j]) PROVE FALSE
  OBVIOUS
<1> DEFINE Late == {i \in Nat : i \in 1 .. n /\ ~(D[1] <= D[i])}
<1>1. PICK m \in Late : \A k \in Late : ~(k < m)
  <2>1. IsWellFoundedOn(OpToRel(<, Nat), Nat)
    BY NatLessThanWellFounded
  <2>2. Late \subseteq Nat /\ Late # {}
    OBVIOUS
  <2>3. \E x \in Late : \A y \in Late : ~(<<y, x>> \in OpToRel(<, Nat))
    BY <2>1, <2>2, WFMin
  <2> QED
    BY <2>2, <2>3 DEF OpToRel
<1>2. m \in 2 .. n
  OBVIOUS
<1>3. Parent(m) \in 1 .. n /\ Parent(m) < m
  BY <1>2, ParentBefore
<1>4. Parent(m) \notin Late
  BY <1>1, <1>3
<1>5. D[1] <= D[Parent(m)] /\ D[Parent(m)] <= D[m]
  BY <1>2, <1>3, <1>4 DEF InOrder, Ordered
<1> QED
  BY <1>2, <1>3, <1>5

\* A place and its children, as HeapifyDown compares them: either none of the
\* children is earlier, or the place it goes to is an earlier child, and no child
\* is earlier than that.
LEMMA SmallestChild ==
  ASSUME TypeOK, NEW a \in 1 .. Len(heap)
  PROVE  LET s == Smallest(a)
         IN  \/ s = a /\ \A i \in 2 .. Len(heap) : Parent(i) = a => deadline[heap[a]] <= deadline[heap[i]]
             \/ /\ s \in 2 .. Len(heap) /\ Parent(s) = a /\ s # a
                /\ deadline[heap[s]] < deadline[heap[a]]
                /\ \A i \in 2 .. Len(heap) : Parent(i) = a => deadline[heap[s]] <= deadline[heap[i]]
<1> DEFINE n == Len(heap)
           left == 2 * a
           right == 2 * a + 1
           T(i) == deadline[heap[i]]
           l == IF left <= n /\ T(left) < T(a) THEN left ELSE a
           s == IF right <= n /\ T(right) < T(l) THEN right ELSE l
<1>1. n \in Nat /\ \A i \in 1 .. n : T(i) \in Nat
  BY ArrayTypes DEF TypeOK
<1>2. s = Smallest(a)
  BY DEF Smallest
<1>3. \A i \in 2 .. n : Parent(i) = a => i = left \/ i = right
  BY <1>1, Children
<1>4. left > a /\ right > a /\ Parent(left) = a /\ Parent(right) = a /\ left >= 2 /\ left \in Nat /\ right \in Nat
  BY <1>1, Children
<1> HIDE DEF n, left, right, T
<1>5. /\ \/ l = left /\ left <= n /\ T(left) < T(a)
         \/ l = a /\ (left <= n => T(a) <= T(left))
      /\ l \in 1 .. n
  <2>1. a \in 1 .. n /\ (left <= n => left \in 1 .. n)
    BY <1>1, <1>4 DEF n
  <2>2. T(a) \in Nat /\ (left <= n => T(left) \in Nat)
    BY <1>1, <2>1
  <2>3. CASE left <= n /\ T(left) < T(a)
    BY <2>1, <2>3
  <2>4. CASE ~(left <= n /\ T(left) < T(a))
    <3>1. l = a
      BY <2>4
    <3> QED
      BY <2>1, <2>2, <2>4, <3>1
  <2> QED
    BY <2>3, <2>4
<1>6. \/ s = right /\ right <= n /\ T(right) < T(l)
      \/ s = l /\ (right <= n => T(l) <= T(right))
  BY <1>1, <1>4, <1>5 DEF n
<1> HIDE DEF l, s
<1>7. \/ s = a /\ \A i \in 2 .. n : Parent(i) = a => T(a) <= T(i)
      \/ /\ s \in 2 .. n /\ Parent(s) = a /\ s # a
         /\ T(s) < T(a)
         /\ \A i \in 2 .. n : Parent(i) = a => T(s) <= T(i)
  <2>1. CASE s = right
    <3>1. right # left /\ right # a /\ a \in 1 .. n
      BY <1>1, <1>4 DEF n, right, left
    <3>2. right <= n /\ T(right) < T(l)
      BY <1>5, <1>6, <2>1, <3>1
    <3>3. right \in 2 .. n /\ left \in 2 .. n
      BY <1>1, <1>4, <3>2 DEF right, left
    <3>4. T(right) \in Nat /\ T(left) \in Nat /\ T(a) \in Nat
      BY <1>1, <3>1, <3>3
    <3>5. T(right) < T(a) /\ T(right) <= T(left)
      BY <1>5, <3>2, <3>3, <3>4
    <3> QED
      BY <1>3, <1>4, <2>1, <3>1, <3>3, <3>4, <3>5
  <2>2. CASE s # right /\ s = left
    BY <1>1, <1>3, <1>4, <1>5, <1>6, <2>2 DEF n, right, left
  <2>3. CASE s # right /\ s = a
    BY <1>1, <1>3, <1>4, <1>5, <1>6, <2>3 DEF n
  <2> QED
    BY <1>5, <1>6, <2>1, <2>2, <2>3
<1> QED
  BY <1>2, <1>7 DEF n, T

-----------------------------------------------------------------------------
(* The array *)

\* HeapSwap changes the two places, and the rest of the array stays.
LEMMA SwapEffect ==
  ASSUME TypeOK, NEW i \in 1 .. Len(heap), NEW j \in 1 .. Len(heap), i # j, Swap(i, j)
  PROVE  /\ heap' \in Seq(Entries) /\ heapIndex' \in [Entries -> Int]
         /\ Len(heap') = Len(heap)
         /\ heap'[i] = heap[j] /\ heap'[j] = heap[i]
         /\ \A k \in 1 .. Len(heap) : k # i /\ k # j => heap'[k] = heap[k]
<1>1. heap \in Seq(Entries) /\ heapIndex \in [Entries -> Int]
  BY DEF TypeOK
<1>2. Len(heap) \in Nat /\ \A k \in 1 .. Len(heap) : heap[k] \in Entries
  BY <1>1
<1>3. heapIndex' \in [Entries -> Int]
  BY <1>1, <1>2 DEF Swap
<1>4. heap' = [heap EXCEPT ![i] = heap[j], ![j] = heap[i]]
  BY DEF Swap
<1>5. heap' \in Seq(Entries) /\ Len(heap') = Len(heap)
  BY <1>1, <1>2, <1>4
<1>6. heap'[i] = heap[j] /\ heap'[j] = heap[i]
  BY <1>1, <1>4
<1>7. \A k \in 1 .. Len(heap) : k # i /\ k # j => heap'[k] = heap[k]
  BY <1>1, <1>4
<1> QED
  BY <1>3, <1>5, <1>6, <1>7

\* Where the last entry takes place i, the array loses its last place.
LEMMA VacateEffect ==
  ASSUME TypeOK, NEW i \in 1 .. Len(heap), Vacate(i)
  PROVE  /\ heap' \in Seq(Entries) /\ heapIndex' \in [Entries -> Int]
         /\ inHeap' \in [Entries -> BOOLEAN]
         /\ Len(heap') = Len(heap) - 1
         /\ \A k \in 1 .. Len(heap) - 1 :
              heap'[k] = IF k = i THEN heap[Len(heap)] ELSE heap[k]
<1> DEFINE h == [heap EXCEPT ![i] = heap[Len(heap)]]
           m == Len(heap) - 1
<1>1. Len(heap) \in Nat /\ Len(heap) >= 1 /\ \A k \in 1 .. Len(heap) : heap[k] \in Entries
  BY DEF TypeOK
<1>2. h \in Seq(Entries) /\ Len(h) = Len(heap)
  BY <1>1 DEF TypeOK
<1>3. \A k \in 1 .. Len(heap) : h[k] = IF k = i THEN heap[Len(heap)] ELSE heap[k]
  BY <1>1 DEF TypeOK
<1>4. heap' = SubSeq(h, 1, m)
  BY <1>2 DEF Vacate, SX!Front, SX!Last
<1> HIDE DEF h
<1>5. heap' \in Seq(Entries) /\ Len(heap') = m /\ \A k \in 1 .. m : heap'[k] = h[k]
  BY <1>1, <1>2, <1>4, SubSeqProperties
<1>6. heapIndex' \in [Entries -> Int] /\ inHeap' \in [Entries -> BOOLEAN]
  BY <1>1 DEF TypeOK, Vacate, SX!Last
<1>7. \A k \in 1 .. m : k \in 1 .. Len(heap)
  BY <1>1
<1>8. \A k \in 1 .. m : heap'[k] = IF k = i THEN heap[Len(heap)] ELSE heap[k]
  BY <1>3, <1>5, <1>7
<1> QED
  BY <1>5, <1>6, <1>8

-----------------------------------------------------------------------------
(* Types *)

\* Every step keeps the variables in their types.
LEMMA TypeStep ==
  ASSUME HInv, [Next]_vars PROVE TypeOK'
<1> USE DEF HInv
<1>1. Len(heap) \in Nat /\ \A i \in 1 .. Len(heap) : heap[i] \in Entries
  BY DEF TypeOK
<1>2. CASE UNCHANGED vars
  BY <1>2 DEF TypeOK, vars, marks, control
<1>3. CASE \E e \in Entries : Enqueue(e)
  BY <1>1, <1>3 DEF TypeOK, Enqueue, Enter, Calls
<1>4. CASE \E e \in Entries : Remove(e)
  <2>1. PICK e \in Entries : Remove(e)
    BY <1>4
  <2>2. heap' \in Seq(Entries) /\ heapIndex' \in [Entries -> Int] /\ inHeap' \in [Entries -> BOOLEAN]
    BY <2>1, VacateEffect DEF Remove
  <2>3. call' \in Calls /\ loop' \in {"none", "up", "down"} /\ at' \in Nat /\ home' \in Nat
    BY <1>1, <2>1 DEF TypeOK, Remove, Enter, Calls, control
  <2>4. UNCHANGED <<deadline, due>>
    BY <2>1 DEF Remove
  <2> QED
    BY <2>2, <2>3, <2>4 DEF TypeOK
<1>5. CASE \E e \in Entries : UpdateDeadline(e)
  BY <1>1, <1>5 DEF TypeOK, UpdateDeadline, Enter, Calls, marks
<1>6. CASE Dequeue
  <2>1. 1 \in 1 .. Len(heap)
    BY <1>1, <1>6, EmptySeq DEF Dequeue, TypeOK
  <2>2. heap' \in Seq(Entries) /\ heapIndex' \in [Entries -> Int] /\ inHeap' \in [Entries -> BOOLEAN]
    BY <1>6, <2>1, VacateEffect DEF Dequeue
  <2> QED
    BY <1>6, <2>2 DEF TypeOK, Dequeue, SinkFirst, Enter, Calls
<1>7. CASE Clear
  BY <1>7 DEF TypeOK, Clear, control
<1>8. CASE \E now \in Deadlines, max \in 0 .. Cardinality(Entries) : PopDue(now, max)
  <2>1. PICK now \in Deadlines, max \in 0 .. Cardinality(Entries) : PopDue(now, max)
    BY <1>8
  <2>2. now \in Nat /\ max \in Nat
    BY HeapAssumption, FS_CardinalityType
  <2> QED
    BY <2>1, <2>2 DEF TypeOK, PopDue, marks, Calls
<1>9. CASE PopNext
  <2>1. 1 \in 1 .. Len(heap)
    BY <1>1, <1>9, EmptySeq DEF PopNext, MoreDue, TypeOK
  <2>2. heap' \in Seq(Entries) /\ heapIndex' \in [Entries -> Int] /\ inHeap' \in [Entries -> BOOLEAN]
    BY <1>9, <2>1, VacateEffect DEF PopNext
  <2>3. due' \in [now : Nat, max : Nat, out : Seq(Entries)]
    <3>1. Append(due.out, heap[1]) \in Seq(Entries)
      BY <1>1, <2>1 DEF TypeOK
    <3> QED
      BY <1>9, <3>1 DEF TypeOK, PopNext
  <2>4. call' \in Calls /\ loop' \in {"none", "up", "down"} /\ at' \in Nat
    BY <1>9 DEF TypeOK, PopNext, SinkFirst, Enter, Calls
  <2> QED
    BY <1>9, <2>2, <2>3, <2>4 DEF TypeOK, PopNext
<1>10. CASE PopEnd
  BY <1>10 DEF TypeOK, PopEnd, Return, Calls, NotDue, marks
<1>11. CASE Rise
  <2>1. at \in 1 .. Len(heap) /\ Parent(at) \in 1 .. Len(heap) /\ at # Parent(at)
    BY <1>1, <1>11, ParentBefore DEF Rise, EarlierThanParent, LoopOfCall, TypeOK
  <2>2. heap' \in Seq(Entries) /\ heapIndex' \in [Entries -> Int]
    BY <1>11, <2>1, SwapEffect DEF Rise
  <2> QED
    BY <1>11, <2>1, <2>2 DEF TypeOK, Rise
<1>12. CASE RiseEnd
  BY <1>12 DEF TypeOK, RiseEnd, Return, Calls, marks
<1>13. CASE Sink
  <2>1. at \in 1 .. Len(heap) /\ Smallest(at) \in 1 .. Len(heap) /\ at # Smallest(at)
    BY <1>1, <1>13, SmallestChild DEF Sink, LoopOfCall
  <2>2. heap' \in Seq(Entries) /\ heapIndex' \in [Entries -> Int]
    BY <1>13, <2>1, SwapEffect DEF Sink
  <2> QED
    BY <1>13, <2>1, <2>2 DEF TypeOK, Sink
<1>14. CASE SinkEnd
  BY <1>14 DEF TypeOK, SinkEnd, ThenRise, Enter, Return, Calls, marks
<1> QED
  BY <1>2, <1>3, <1>4, <1>5, <1>6, <1>7, <1>8, <1>9, <1>10, <1>11, <1>12, <1>13, <1>14 DEF Next

\* Between calls no loop is under way.
LEMMA Idle ==
  ASSUME HInv, call = "none" PROVE loop = "none" /\ InOrder(Len(heap), Times(heap, deadline)) /\ due.out = <<>>
BY DEF HInv, TypeOK, LoopOfCall, Settling, Order, PoppedSoFar

\* A loop stands inside the array.
LEMMA LoopStep ==
  ASSUME HInv, [Next]_vars PROVE LoopOfCall'
<1> USE DEF HInv
<1>1. Len(heap) \in Nat /\ at \in Nat /\ home \in Nat
  BY DEF TypeOK
<1>2. CASE UNCHANGED vars
  BY <1>2 DEF LoopOfCall, Settling, vars, control
<1>3. CASE \E e \in Entries : Enqueue(e)
  <2>1. Len(heap') = Len(heap) + 1
    BY <1>3 DEF Enqueue, TypeOK
  <2> QED
    BY <1>1, <1>3, <2>1 DEF LoopOfCall, Settling, Enqueue, Enter
<1>4. CASE \E e \in Entries : Remove(e)
  <2>1. PICK e \in Entries : Remove(e)
    BY <1>4
  <2>2. Len(heap') = Len(heap) - 1 /\ heapIndex[e] \in 1 .. Len(heap)
    BY <2>1, VacateEffect DEF Remove
  <2>3. CASE heapIndex[e] < Len(heap)
    BY <1>1, <2>1, <2>2, <2>3 DEF LoopOfCall, Settling, Remove, Enter
  <2>4. CASE ~(heapIndex[e] < Len(heap))
    BY <2>1, <2>4, Idle DEF LoopOfCall, Settling, Remove, control
  <2> QED
    BY <2>3, <2>4
<1>5. CASE \E e \in Entries : UpdateDeadline(e)
  BY <1>1, <1>5 DEF LoopOfCall, Settling, UpdateDeadline, Enter, marks
<1>6. CASE Dequeue
  <2>1. 1 \in 1 .. Len(heap)
    BY <1>1, <1>6, EmptySeq DEF Dequeue, TypeOK
  <2>2. Len(heap') = Len(heap) - 1
    BY <1>6, <2>1, VacateEffect DEF Dequeue
  <2> QED
    BY <1>1, <1>6, <2>2, Idle DEF LoopOfCall, Settling, Dequeue, SinkFirst, Enter
<1>7. CASE Clear
  BY <1>7, Idle DEF LoopOfCall, Settling, Clear, control
<1>8. CASE \E now \in Deadlines, max \in 0 .. Cardinality(Entries) : PopDue(now, max)
  BY <1>8 DEF LoopOfCall, Settling, PopDue
<1>9. CASE PopNext
  <2>1. 1 \in 1 .. Len(heap)
    BY <1>1, <1>9, EmptySeq DEF PopNext, MoreDue, TypeOK
  <2>2. Len(heap') = Len(heap) - 1
    BY <1>9, <2>1, VacateEffect DEF PopNext
  <2> QED
    BY <1>1, <1>9, <2>2 DEF LoopOfCall, Settling, PopNext, SinkFirst, Enter
<1>10. CASE PopEnd
  BY <1>10 DEF LoopOfCall, Settling, PopEnd, Return
<1>11. CASE Rise
  <2>1. at \in 1 .. Len(heap) /\ Parent(at) \in 1 .. Len(heap) /\ at # Parent(at)
    BY <1>1, <1>11, ParentBefore DEF Rise, EarlierThanParent, LoopOfCall
  <2>2. Len(heap') = Len(heap)
    BY <1>11, <2>1, SwapEffect DEF Rise
  <2> QED
    BY <1>11, <2>1, <2>2 DEF LoopOfCall, Settling, Rise
<1>12. CASE RiseEnd
  BY <1>12 DEF LoopOfCall, Settling, RiseEnd, Return
<1>13. CASE Sink
  <2>1. at \in 1 .. Len(heap) /\ Smallest(at) \in 2 .. Len(heap) /\ Parent(Smallest(at)) = at
    BY <1>1, <1>13, SmallestChild DEF Sink, LoopOfCall
  <2>2. at < Smallest(at)
    BY <1>1, <2>1, ParentBefore
  <2>3. Len(heap') = Len(heap)
    BY <1>1, <1>13, <2>1, <2>2, SwapEffect DEF Sink
  <2> QED
    BY <1>1, <1>13, <2>1, <2>2, <2>3 DEF LoopOfCall, Settling, Sink
<1>14. CASE SinkEnd
  BY <1>14 DEF LoopOfCall, Settling, SinkEnd, ThenRise, Enter, Return
<1> QED
  BY <1>2, <1>3, <1>4, <1>5, <1>6, <1>7, <1>8, <1>9, <1>10, <1>11, <1>12, <1>13, <1>14 DEF Next

-----------------------------------------------------------------------------
(* Places *)

\* No entry is twice in the array.
LEMMA OnePlace ==
  ASSUME Places, NEW i \in 1 .. Len(heap), NEW j \in 1 .. Len(heap), heap[i] = heap[j]
  PROVE  i = j
BY DEF Places

\* The entries in an array h are the ones marked m, where these are in h.
LEMMA HeapSet ==
  ASSUME NEW h \in Seq(Entries), NEW m, \A i \in 1 .. Len(h) : m[h[i]],
         \A e \in Entries : m[e] => \E i \in 1 .. Len(h) : h[i] = e
  PROVE  SX!ToSet(h) = {e \in Entries : m[e]}
<1>1. DOMAIN h = 1 .. Len(h) /\ \A i \in 1 .. Len(h) : h[i] \in Entries
  OBVIOUS
<1> QED
  BY <1>1 DEF SX!ToSet

\* HeapSwap gives both entries their new places.
LEMMA SwapPlaces ==
  ASSUME TypeOK, Places, NEW i \in 1 .. Len(heap), NEW j \in 1 .. Len(heap), i # j,
         Swap(i, j), UNCHANGED inHeap
  PROVE  Places'
<1>1. /\ Len(heap') = Len(heap)
      /\ heap'[i] = heap[j] /\ heap'[j] = heap[i]
      /\ \A k \in 1 .. Len(heap) : k # i /\ k # j => heap'[k] = heap[k]
  BY SwapEffect
<1>2. Len(heap) \in Nat /\ \A k \in 1 .. Len(heap) : heap[k] \in Entries
  BY DEF TypeOK
<1>3. heap[i] # heap[j]
  BY OnePlace
<1>4. /\ heapIndex'[heap[i]] = j /\ heapIndex'[heap[j]] = i
      /\ \A e \in Entries : e # heap[i] /\ e # heap[j] => heapIndex'[e] = heapIndex[e]
  BY <1>2, <1>3 DEF Swap, TypeOK
<1>5. ASSUME NEW k \in 1 .. Len(heap') PROVE heapIndex'[heap'[k]] = k /\ inHeap'[heap'[k]]
  <2>1. CASE k = i \/ k = j
    BY <1>1, <1>4, <2>1 DEF Places
  <2>2. CASE k # i /\ k # j
    <3>1. heap'[k] = heap[k] /\ heap[k] # heap[i] /\ heap[k] # heap[j]
      BY <1>1, <2>2, OnePlace
    <3> QED
      BY <1>1, <1>2, <1>4, <3>1 DEF Places
  <2> QED
    BY <2>1, <2>2
<1>6. ASSUME NEW e \in Entries, inHeap'[e]
      PROVE  heapIndex'[e] \in 1 .. Len(heap') /\ heap'[heapIndex'[e]] = e
  <2>1. CASE e = heap[i] \/ e = heap[j]
    BY <1>1, <1>4, <2>1
  <2>2. CASE e # heap[i] /\ e # heap[j]
    <3>1. heapIndex[e] \in 1 .. Len(heap) /\ heap[heapIndex[e]] = e
      BY <1>6 DEF Places
    <3>2. heapIndex'[e] = heapIndex[e] /\ heapIndex[e] # i /\ heapIndex[e] # j
      BY <1>4, <2>2, <3>1
    <3> QED
      BY <1>1, <3>1, <3>2
  <2> QED
    BY <2>1, <2>2
<1>7. ASSUME NEW e \in Entries, ~inHeap'[e] PROVE heapIndex'[e] = -1
  <2>1. ~inHeap[e] /\ e # heap[i] /\ e # heap[j]
    BY <1>7 DEF Places
  <2> QED
    BY <1>4, <2>1 DEF Places
<1> QED
  BY <1>5, <1>6, <1>7 DEF Places

\* The last entry has the place of the one that leaves, whose place is forgotten.
LEMMA VacatePlaces ==
  ASSUME TypeOK, Places, NEW i \in 1 .. Len(heap), Vacate(i)
  PROVE  /\ Places'
         /\ \A e \in Entries : inHeap'[e] <=> inHeap[e] /\ e # heap[i]
<1> DEFINE n == Len(heap)
           x == heap[i]
           y == heap[n]
<1>1. /\ Len(heap') = n - 1
      /\ \A k \in 1 .. n - 1 : heap'[k] = IF k = i THEN y ELSE heap[k]
  BY VacateEffect
<1>2. n \in Nat /\ n \in 1 .. n /\ \A k \in 1 .. n : heap[k] \in Entries
  BY DEF TypeOK
<1>3. x \in Entries /\ y \in Entries /\ (x = y => i = n)
  BY <1>2, OnePlace
<1>4. /\ heapIndex'[x] = -1 /\ (x # y => heapIndex'[y] = i)
      /\ \A e \in Entries : e # x /\ e # y => heapIndex'[e] = heapIndex[e]
  BY <1>3 DEF Vacate, SX!Last, TypeOK
<1>5. /\ inHeap'[x] = FALSE /\ \A e \in Entries : e # x => inHeap'[e] = inHeap[e]
  BY <1>3 DEF Vacate, TypeOK
<1>6. \A e \in Entries : inHeap'[e] <=> inHeap[e] /\ e # x
  BY <1>5
<1>7. ASSUME NEW k \in 1 .. Len(heap') PROVE heapIndex'[heap'[k]] = k /\ inHeap'[heap'[k]]
  <2>0. k \in 1 .. n - 1 /\ k \in 1 .. n /\ k # n
    BY <1>1, <1>2
  <2>1. CASE k = i
    <3>1. heap'[k] = y /\ x # y
      BY <1>1, <1>2, <2>0, <2>1, OnePlace
    <3> QED
      BY <1>2, <1>3, <1>4, <1>6, <2>1, <3>1 DEF Places
  <2>2. CASE k # i
    <3>1. heap'[k] = heap[k] /\ heap[k] # x /\ heap[k] # y
      BY <1>1, <1>2, <2>0, <2>2, OnePlace
    <3> QED
      BY <1>2, <1>4, <1>6, <2>0, <3>1 DEF Places
  <2> QED
    BY <2>1, <2>2
<1>8. ASSUME NEW e \in Entries, inHeap'[e]
      PROVE  heapIndex'[e] \in 1 .. Len(heap') /\ heap'[heapIndex'[e]] = e
  <2>0. inHeap[e] /\ e # x
    BY <1>6, <1>8
  <2>1. CASE e = y
    <3>1. i \in 1 .. n - 1
      BY <1>2, <2>0, <2>1
    <3> QED
      BY <1>1, <1>4, <2>0, <2>1, <3>1
  <2>2. CASE e # y
    <3>1. heapIndex[e] \in 1 .. n /\ heap[heapIndex[e]] = e
      BY <2>0 DEF Places
    <3>2. heapIndex'[e] = heapIndex[e] /\ heapIndex[e] # i /\ heapIndex[e] \in 1 .. n - 1
      BY <1>2, <1>4, <2>0, <2>2, <3>1
    <3> QED
      BY <1>1, <3>1, <3>2
  <2> QED
    BY <2>1, <2>2
<1>9. ASSUME NEW e \in Entries, ~inHeap'[e] PROVE heapIndex'[e] = -1
  <2>1. CASE e = x
    BY <1>4, <2>1
  <2>2. CASE e # x
    <3>1. ~inHeap[e]
      BY <1>6, <1>9, <2>2
    <3>2. e # y
      BY <1>2, <3>1 DEF Places
    <3> QED
      BY <1>4, <2>2, <3>1, <3>2 DEF Places
  <2> QED
    BY <2>1, <2>2
<1>10. Places'
  BY <1>7, <1>8, <1>9 DEF Places
<1> QED
  BY <1>6, <1>10

\* Array and entries agree after every step.
LEMMA PlacesStep ==
  ASSUME HInv, [Next]_vars PROVE Places'
<1> USE DEF HInv
<1>1. Len(heap) \in Nat /\ \A i \in 1 .. Len(heap) : heap[i] \in Entries
  BY DEF TypeOK
<1>2. CASE UNCHANGED <<heap, marks>>
  BY <1>2 DEF Places, marks
<1>3. ASSUME NEW e \in Entries, Enqueue(e) PROVE Places'
  <2> DEFINE n == Len(heap)
  <2>1. /\ Len(heap') = n + 1 /\ heap'[n + 1] = e
        /\ \A k \in 1 .. n : heap'[k] = heap[k]
    BY <1>3 DEF Enqueue, TypeOK
  <2>2. /\ heapIndex'[e] = n + 1 /\ inHeap'[e]
        /\ \A f \in Entries : f # e => heapIndex'[f] = heapIndex[f] /\ inHeap'[f] = inHeap[f]
    BY <1>3 DEF Enqueue, TypeOK
  <2>3. ~inHeap[e] /\ \A k \in 1 .. n : heap[k] # e
    BY <1>3 DEF Enqueue, Places
  <2>4. ASSUME NEW k \in 1 .. Len(heap') PROVE heapIndex'[heap'[k]] = k /\ inHeap'[heap'[k]]
    <3>1. CASE k = n + 1
      BY <2>1, <2>2, <3>1
    <3>2. CASE k # n + 1
      <4>1. k \in 1 .. n
        BY <1>1, <2>1, <3>2
      <4> QED
        BY <1>1, <2>1, <2>2, <2>3, <4>1 DEF Places
    <3> QED
      BY <3>1, <3>2
  <2>5. ASSUME NEW f \in Entries, inHeap'[f]
        PROVE  heapIndex'[f] \in 1 .. Len(heap') /\ heap'[heapIndex'[f]] = f
    <3>1. CASE f = e
      BY <1>1, <2>1, <2>2, <3>1
    <3>2. CASE f # e
      <4>1. heapIndex[f] \in 1 .. n /\ heap[heapIndex[f]] = f /\ heapIndex'[f] = heapIndex[f]
        BY <2>2, <2>5, <3>2 DEF Places
      <4> QED
        BY <1>1, <2>1, <4>1
    <3> QED
      BY <3>1, <3>2
  <2>6. ASSUME NEW f \in Entries, ~inHeap'[f] PROVE heapIndex'[f] = -1
    BY <2>2, <2>6 DEF Places
  <2> QED
    BY <2>4, <2>5, <2>6 DEF Places
<1>4. CASE \E e \in Entries : Remove(e)
  BY <1>4, VacatePlaces DEF Remove
<1>5. CASE Dequeue \/ PopNext
  <2>1. 1 \in 1 .. Len(heap)
    BY <1>1, <1>5, EmptySeq DEF Dequeue, PopNext, MoreDue, TypeOK
  <2> QED
    BY <1>5, <2>1, VacatePlaces DEF Dequeue, PopNext
<1>6. CASE Clear
  <2>1. Len(heap') = 0
    BY <1>6 DEF Clear
  <2>2. \A e \in Entries : inHeap[e] => e \in SX!ToSet(heap)
    <3>1. heap \in Seq(Entries) /\ \A i \in 1 .. Len(heap) : inHeap[heap[i]]
      BY DEF TypeOK, Places
    <3>2. \A e \in Entries : inHeap[e] => \E i \in 1 .. Len(heap) : heap[i] = e
      BY DEF Places
    <3> QED
      BY <3>1, <3>2, HeapSet
  <2>3. \A e \in Entries : ~inHeap'[e] /\ heapIndex'[e] = -1
    BY <1>6, <2>2 DEF Clear, Places, TypeOK
  <2> QED
    BY <2>1, <2>3 DEF Places
<1>7. CASE Rise
  <2>1. at \in 1 .. Len(heap) /\ Parent(at) \in 1 .. Len(heap) /\ at # Parent(at)
    BY <1>1, <1>7, ParentBefore DEF Rise, EarlierThanParent, LoopOfCall
  <2> QED
    BY <1>7, <2>1, SwapPlaces DEF Rise
<1>8. CASE Sink
  <2>1. at \in 1 .. Len(heap) /\ Smallest(at) \in 1 .. Len(heap) /\ at # Smallest(at)
    BY <1>1, <1>8, SmallestChild DEF Sink, LoopOfCall
  <2> QED
    BY <1>8, <2>1, SwapPlaces DEF Sink
<1>9. UNCHANGED vars \/ RiseEnd \/ SinkEnd \/ PopEnd \/ (\E e \in Entries : UpdateDeadline(e))
      \/ (\E now \in Deadlines, max \in 0 .. Cardinality(Entries) : PopDue(now, max))
      => UNCHANGED <<heap, marks>>
  BY DEF vars, RiseEnd, SinkEnd, PopEnd, UpdateDeadline, PopDue
<1> QED
  BY <1>2, <1>3, <1>4, <1>5, <1>6, <1>7, <1>8, <1>9 DEF Next

-----------------------------------------------------------------------------
(* Order *)

\* Where the last entry takes the place of another, only that place is disturbed.
LEMMA VacateOrder ==
  ASSUME TypeOK, TypeOK', InOrder(Len(heap), Times(heap, deadline)),
         NEW a \in 1 .. Len(heap), Vacate(a), UNCHANGED deadline
  PROVE  LET E == Times(heap', deadline')
         IN  /\ a = Len(heap) => InOrder(Len(heap'), E)
             /\ a < Len(heap) => OrderedAround(Len(heap'), E, a) /\ Across(Len(heap'), E, a)
<1> DEFINE D == Times(heap, deadline)
           E == Times(heap', deadline')
           m == Len(heap)
           n == Len(heap')
<1>1. /\ Values(m, D) /\ \A i \in 1 .. m : D[i] = deadline[heap[i]]
      /\ Values(n, E) /\ \A i \in 1 .. n : E[i] = deadline'[heap'[i]]
  BY TimesValues DEF TypeOK
<1>2. m \in Nat /\ n \in Nat /\ n = m - 1
  <2>1. heap \in Seq(Entries) /\ heap' \in Seq(Entries)
    BY DEF TypeOK
  <2>2. n = m - 1
    BY VacateEffect
  <2> QED
    BY <2>1, <2>2
<1>3. \A k \in 1 .. n : k # a => heap'[k] = heap[k]
  BY <1>2, VacateEffect
<1>4. \A k \in 1 .. n : k # a => E[k] = D[k]
  BY <1>1, <1>2, <1>3
<1>5. InOrder(m, D) /\ a \in 1 .. m /\ n <= m
  BY <1>2
<1> HIDE DEF D, E, m, n
<1>6. CASE a = m
  <2>1. \A k \in 1 .. n : E[k] = D[k]
    BY <1>2, <1>4, <1>6
  <2> QED
    BY <1>1, <1>2, <1>5, <1>6, <2>1, ShorterInOrder DEF E, m, n
<1>7. CASE a < m
  <2>1. a \in 1 .. n
    BY <1>2, <1>5, <1>7
  <2>2. OrderedAround(n, E, a) /\ Across(n, E, a)
    BY <1>1, <1>2, <1>4, <1>5, <2>1, ChangedPlace
  <2> QED
    BY <1>2, <1>7, <2>2 DEF E, m, n
<1> QED
  BY <1>2, <1>5, <1>6, <1>7 DEF m

\* Where HeapifyDown ends, no child is earlier: the order can only be broken
\* between the loop's place and its parent.
LEMMA SinkEndOrder ==
  ASSUME NEW n \in Nat, NEW D, Values(n, D), NEW a \in 1 .. n,
         \A i \in 2 .. n : Parent(i) = a => D[a] <= D[i]
  PROVE  /\ OrderedAround(n, D, a) => OrderedBelow(n, D, a)
         /\ OrderedAbove(n, D, a) => InOrder(n, D)
BY DEF OrderedAround, OrderedBelow, OrderedAbove, InOrder, Ordered

\* What Dequeue, also inside PopDue, does to the order.
LEMMA FirstOrder ==
  ASSUME TypeOK, TypeOK', InOrder(Len(heap), Times(heap, deadline)), heap # <<>>,
         loop = "none", NEW c, SinkFirst(c), c \notin {"Remove", "UpdateDeadline"},
         Vacate(1), UNCHANGED deadline
  PROVE  Order'
<1> DEFINE E == Times(heap', deadline')
           n == Len(heap')
<1>1. PICK m \in Nat : m = Len(heap) /\ m >= 1
  BY EmptySeq DEF TypeOK
<1>2. /\ m = 1 => InOrder(n, E)
      /\ m > 1 => OrderedAround(n, E, 1) /\ Across(n, E, 1)
  <2>1. 1 \in 1 .. Len(heap)
    BY <1>1
  <2> QED
    BY <1>1, <2>1, VacateOrder
<1>3. CASE m = 1
  <2>1. loop' = "none"
    BY <1>1, <1>3 DEF SinkFirst
  <2> QED
    BY <1>2, <1>3, <2>1 DEF Order
<1>4. CASE m > 1
  <2>1. loop' = "down" /\ at' = 1 /\ call' = c
    BY <1>1, <1>4 DEF SinkFirst, Enter
  <2>2. OrderedAbove(n, E, 1)
    BY <1>2, <1>4 DEF OrderedAround, OrderedAbove
  <2> HIDE DEF E, n
  <2> QED
    BY <1>2, <1>4, <2>1, <2>2 DEF Order, DownOrdered, E, n
<1>5. m = 1 \/ m > 1
  BY <1>1
<1> QED
  BY <1>3, <1>4, <1>5

\* Every step keeps the order that belongs to its loop.
LEMMA OrderStep ==
  ASSUME HInv, [Next]_vars, TypeOK' PROVE Order'
<1> USE DEF HInv
<1> DEFINE D == Times(heap, deadline)
           E == Times(heap', deadline')
           n == Len(heap)
<1>1. /\ n \in Nat /\ Values(n, D) /\ Values(Len(heap'), E)
      /\ \A i \in 1 .. n : D[i] = deadline[heap[i]] /\ heap[i] \in Entries
      /\ \A i \in 1 .. Len(heap') : E[i] = deadline'[heap'[i]]
  BY TimesValues, ArrayTypes DEF TypeOK
<1>2. CASE UNCHANGED vars
  BY <1>2 DEF Order, UpOrdered, DownOrdered, Settling, vars, control
<1>3. ASSUME NEW e \in Entries, Enqueue(e) PROVE Order'
  <2>1. loop' = "up" /\ at' = n + 1 /\ InOrder(n, D)
    BY <1>3, Idle DEF Enqueue, Enter
  <2>2. Len(heap') = n + 1 /\ \A k \in 1 .. n : heap'[k] = heap[k]
    BY <1>3 DEF Enqueue, TypeOK
  <2>3. \A k \in 1 .. n : heap[k] # e
    BY <1>3 DEF Enqueue, Places
  <2>4. \A f \in Entries : f # e => deadline'[f] = deadline[f]
    BY <1>3 DEF Enqueue, TypeOK
  <2>5. \A k \in 1 .. n : E[k] = D[k]
    BY <1>1, <2>2, <2>3, <2>4
  <2>6. ASSUME NEW i \in 2 .. n + 1 PROVE Parent(i) # n + 1 /\ (i # n + 1 => Ordered(E, i))
    <3>1. Parent(i) \in Nat /\ 1 <= Parent(i) /\ Parent(i) < i
      BY <1>1, ParentBefore
    <3>2. i # n + 1 => i \in 2 .. n /\ i \in 1 .. n /\ Parent(i) \in 1 .. n
      BY <1>1, <3>1
    <3>3. Parent(i) # n + 1
      BY <1>1, <3>1
    <3> HIDE DEF D, E, n
    <3> QED
      BY <2>1, <2>5, <3>2, <3>3 DEF InOrder, Ordered
  <2> HIDE DEF D, E, n
  <2>7. OrderedBelow(n + 1, E, n + 1) /\ Across(n + 1, E, n + 1)
    BY <2>6 DEF OrderedBelow, Across
  <2> QED
    BY <2>1, <2>2, <2>7 DEF Order, UpOrdered, E
<1>4. ASSUME NEW e \in Entries, Remove(e) PROVE Order'
  <2>1. loop = "none" /\ InOrder(n, D)
    BY <1>4, Idle DEF Remove
  <2>2. PICK a \in 1 .. n : a = heapIndex[e]
    BY <1>4 DEF Remove
  <2>3. Vacate(a) /\ UNCHANGED deadline
    BY <1>4, <2>2 DEF Remove
  <2>4. /\ a = n => InOrder(Len(heap'), E)
        /\ a < n => OrderedAround(Len(heap'), E, a) /\ Across(Len(heap'), E, a)
    BY <2>1, <2>3, VacateOrder
  <2>5. CASE a = n
    <3>1. loop' = "none"
      BY <1>1, <1>4, <2>1, <2>2, <2>5 DEF Remove, control
    <3> QED
      BY <2>4, <2>5, <3>1 DEF Order
  <2>6. CASE a < n
    <3>1. loop' = "down" /\ at' = a /\ home' = a /\ call' = "Remove"
      BY <1>4, <2>2, <2>6 DEF Remove, Enter
    <3> HIDE DEF E
    <3> QED
      BY <2>4, <2>6, <3>1 DEF Order, DownOrdered, Settling, E
  <2> QED
    BY <1>1, <2>5, <2>6
<1>5. ASSUME NEW e \in Entries, UpdateDeadline(e) PROVE Order'
  <2>1. InOrder(n, D)
    BY <1>5, Idle DEF UpdateDeadline
  <2>2. PICK a \in 1 .. n : a = heapIndex[e] /\ heap[a] = e
    BY <1>5 DEF UpdateDeadline, Places
  <2>3. heap' = heap /\ loop' = "down" /\ at' = a /\ home' = a /\ call' = "UpdateDeadline"
    BY <1>5, <2>2 DEF UpdateDeadline, Enter
  <2>4. \A f \in Entries : f # e => deadline'[f] = deadline[f]
    BY <1>5 DEF UpdateDeadline, TypeOK
  <2>5. \A k \in 1 .. n : k # a => heap[k] # e
    BY <2>2, OnePlace
  <2>6. \A k \in 1 .. n : k # a => E[k] = D[k]
    BY <1>1, <2>3, <2>4, <2>5
  <2>7. Values(n, E) /\ n <= n
    BY <1>1, <2>3
  <2> HIDE DEF D, E, n
  <2>8. OrderedAround(n, E, a) /\ Across(n, E, a)
    BY <1>1, <2>1, <2>6, <2>7, ChangedPlace
  <2> QED
    BY <2>3, <2>8 DEF Order, DownOrdered, Settling, E, n
<1>6. CASE Dequeue
  <2>1. loop = "none" /\ InOrder(n, D)
    BY <1>6, Idle DEF Dequeue
  <2> QED
    BY <1>6, <2>1, FirstOrder DEF Dequeue
<1>7. CASE Clear
  <2>1. Len(heap') = 0 /\ loop' = "none"
    BY <1>7, Idle DEF Clear, control
  <2> QED
    BY <2>1 DEF Order, InOrder
<1>8. CASE \E now \in Deadlines, max \in 0 .. Cardinality(Entries) : PopDue(now, max)
  BY <1>8, Idle DEF PopDue, Order
<1>9. CASE PopNext
  BY <1>9, FirstOrder DEF PopNext, MoreDue, Order
<1>10. CASE PopEnd
  BY <1>10 DEF PopEnd, Return, Order
<1>11. CASE Rise
  <2> DEFINE p == Parent(at)
  <2>1. /\ at \in 2 .. n /\ p \in 1 .. n /\ at # p
        /\ OrderedBelow(n, D, at) /\ Across(n, D, at)
    BY <1>1, <1>11, ParentBefore DEF Rise, EarlierThanParent, LoopOfCall, Order, UpOrdered
  <2>2. at' = p /\ UNCHANGED deadline /\ loop' = "up" /\ Swap(at, p) /\ deadline[heap[at]] < deadline[heap[p]]
    BY <1>11 DEF Rise, EarlierThanParent
  <2>3. /\ Len(heap') = n /\ heap'[at] = heap[p] /\ heap'[p] = heap[at]
        /\ \A k \in 1 .. n : k # at /\ k # p => heap'[k] = heap[k]
    BY <1>1, <2>1, <2>2, SwapEffect
  <2>4. /\ Values(n, E) /\ D[at] < D[p] /\ E[at] = D[p] /\ E[p] = D[at]
        /\ \A k \in 1 .. n : k # at /\ k # p => E[k] = D[k]
    BY <1>1, <2>1, <2>2, <2>3
  <2> HIDE DEF D, E, n
  <2>5. OrderedBelow(n, E, p) /\ Across(n, E, p)
    BY <1>1, <2>1, <2>4, RiseOrder
  <2> QED
    BY <2>2, <2>3, <2>5 DEF Order, UpOrdered, E
<1>12. CASE RiseEnd
  <2>1. /\ OrderedBelow(n, D, at) /\ at \in 1 .. n
        /\ loop' = "none" /\ UNCHANGED <<heap, deadline>>
    BY <1>12 DEF RiseEnd, Return, Order, UpOrdered, LoopOfCall
  <2>2. at > 1 => Ordered(D, at)
    <3>1. SUFFICES ASSUME at > 1 PROVE Ordered(D, at)
      OBVIOUS
    <3>2. Parent(at) \in 1 .. n /\ at \in 1 .. n
      BY <1>1, <2>1, <3>1, ParentBefore
    <3>3. ~(deadline[heap[at]] < deadline[heap[Parent(at)]])
      BY <1>12, <3>1 DEF RiseEnd, EarlierThanParent
    <3>4. D[at] = deadline[heap[at]] /\ D[Parent(at)] = deadline[heap[Parent(at)]]
      BY <1>1, <3>2
    <3>5. D[at] \in Nat /\ D[Parent(at)] \in Nat
      BY <1>1, <3>2 DEF Values
    <3> HIDE DEF D
    <3> QED
      BY <3>3, <3>4, <3>5 DEF Ordered
  <2>3. InOrder(n, D)
    BY <1>1, <2>1, <2>2 DEF OrderedBelow, InOrder
  <2> QED
    BY <2>1, <2>3 DEF Order
<1>13. CASE Sink
  <2>1. at \in 1 .. n /\ OrderedAround(n, D, at) /\ Across(n, D, at)
    BY <1>13 DEF Sink, LoopOfCall, Order, DownOrdered
  <2>2. PICK s \in 2 .. n :
          /\ s = Smallest(at) /\ Parent(s) = at /\ s # at
          /\ deadline[heap[s]] < deadline[heap[at]]
          /\ \A i \in 2 .. n : Parent(i) = at => deadline[heap[s]] <= deadline[heap[i]]
    BY <1>13, <2>1, SmallestChild DEF Sink
  <2>3. at' = s /\ UNCHANGED deadline /\ loop' = "down" /\ Swap(at, s)
    BY <1>13, <2>2 DEF Sink
  <2>4. s \in 1 .. n
    BY <1>1
  <2>5. /\ Len(heap') = n /\ heap'[at] = heap[s] /\ heap'[s] = heap[at]
        /\ \A k \in 1 .. n : k # at /\ k # s => heap'[k] = heap[k]
    BY <2>1, <2>2, <2>3, <2>4, SwapEffect
  <2>6. /\ Values(n, E) /\ D[s] < D[at] /\ E[at] = D[s] /\ E[s] = D[at]
        /\ \A k \in 1 .. n : k # at /\ k # s => E[k] = D[k]
    BY <1>1, <2>1, <2>2, <2>3, <2>4, <2>5
  <2>7. \A i \in 2 .. n : i \in 1 .. n
    BY <1>1
  <2>8. \A i \in 2 .. n : Parent(i) = at => D[s] <= D[i]
    BY <1>1, <2>2, <2>4, <2>7
  <2> HIDE DEF D, E, n
  <2>9. OrderedAbove(n, E, s) /\ Across(n, E, s)
    BY <1>1, <2>1, <2>2, <2>6, <2>8, SinkOrder
  <2>10. OrderedAround(n, E, s)
    BY <2>9 DEF OrderedAround, OrderedAbove
  <2> QED
    BY <2>3, <2>5, <2>9, <2>10 DEF Order, DownOrdered, E
<1>14. CASE SinkEnd
  <2>1. /\ at \in 1 .. n /\ OrderedAround(n, D, at) /\ Across(n, D, at)
        /\ ~Settling \/ at # home => OrderedAbove(n, D, at)
        /\ Settling => home \in 1 .. n
        /\ UNCHANGED <<heap, deadline>>
    BY <1>14 DEF SinkEnd, LoopOfCall, Order, DownOrdered
  <2>2. \A i \in 2 .. n : Parent(i) = at => deadline[heap[at]] <= deadline[heap[i]]
    BY <1>14, <2>1, SmallestChild DEF SinkEnd
  <2>3. \A i \in 2 .. n : i \in 1 .. n
    BY <1>1
  <2>4. \A i \in 2 .. n : Parent(i) = at => D[at] <= D[i]
    BY <1>1, <2>1, <2>2, <2>3
  <2>5. n <= n /\ E = D /\ Len(heap') = n
    BY <1>1, <2>1
  <2> HIDE DEF D, E, n
  <2>6. /\ OrderedBelow(n, D, at)
        /\ OrderedAbove(n, D, at) => InOrder(n, D)
    BY <1>1, <2>1, <2>4, SinkEndOrder
  <2>7. CASE ~Settling
    <3>1. loop' = "none"
      BY <1>14, <2>7 DEF SinkEnd, Settling, Enter, Return
    <3> QED
      BY <2>1, <2>5, <2>6, <2>7, <3>1 DEF Order, E
  <2>8. CASE Settling
    <3>1. loop' = "up" /\ at' = home /\ home \in 1 .. n
      BY <1>14, <2>1, <2>8 DEF SinkEnd, Settling, ThenRise, Enter, Return
    <3>2. OrderedBelow(n, D, home) /\ Across(n, D, home)
      <4>1. CASE at = home
        BY <2>1, <2>6, <4>1
      <4>2. CASE at # home
        <5>1. InOrder(n, D)
          BY <2>1, <2>6, <4>2
        <5>2. Across(n, D, home)
          BY <1>1, <2>5, <3>1, <5>1, ChangedPlace
        <5> QED
          BY <5>1, <5>2 DEF InOrder, OrderedBelow
      <4> QED
        BY <4>1, <4>2
    <3> QED
      BY <2>5, <3>1, <3>2 DEF Order, UpOrdered, E
  <2> QED
    BY <2>7, <2>8
<1> QED
  BY <1>2, <1>3, <1>4, <1>5, <1>6, <1>7, <1>8, <1>9, <1>10, <1>11, <1>12, <1>13, <1>14 DEF Next

-----------------------------------------------------------------------------
(* What PopDue has taken *)

\* The first entry of a heap is the earliest.
LEMMA FirstIsLeast ==
  ASSUME TypeOK, InOrder(Len(heap), Times(heap, deadline)), NEW k \in 1 .. Len(heap)
  PROVE  deadline[heap[1]] <= deadline[heap[k]]
<1> DEFINE D == Times(heap, deadline)
           n == Len(heap)
<1>1. /\ n \in Nat /\ 1 \in 1 .. n /\ Values(n, D) /\ InOrder(n, D) /\ k \in 1 .. n
      /\ \A i \in 1 .. n : D[i] = deadline[heap[i]]
  BY TimesValues DEF TypeOK
<1> HIDE DEF D, n
<1>2. D[1] <= D[k]
  BY <1>1, RootLeast
<1> QED
  BY <1>1, <1>2

\* What PopDue has taken stays in order while the array only changes places.
LEMMA SamePopped ==
  ASSUME TypeOK, PoppedSoFar, UNCHANGED <<inHeap, deadline, due>>,
         call' = "PopDue" <=> call = "PopDue",
         \A k \in 1 .. Len(heap') : \E j \in 1 .. Len(heap) : heap'[k] = heap[j]
  PROVE  PoppedSoFar'
<1>1. \A i \in 1 .. Len(due.out) : \A k \in 1 .. Len(heap') :
        deadline[due.out[i]] <= deadline[heap'[k]]
  BY DEF PoppedSoFar
<1> QED
  BY <1>1 DEF PoppedSoFar

\* A call that is not PopDue has taken nothing for it.
LEMMA NothingPopped ==
  ASSUME TypeOK', call' # "PopDue", due'.out = <<>> PROVE PoppedSoFar'
BY DEF TypeOK, PoppedSoFar

\* Another turn of PopDue takes the entry that is earliest.
LEMMA PopNextPopped ==
  ASSUME HInv, TypeOK', PopNext PROVE PoppedSoFar'
<1> USE DEF HInv
<1> DEFINE x == heap[1]
           l == Len(due.out)
<1>1. Len(heap) \in Nat /\ 1 \in 1 .. Len(heap) /\ \A k \in 1 .. Len(heap) : heap[k] \in Entries
  <2>1. heap \in Seq(Entries) /\ heap # <<>>
    BY DEF PopNext, MoreDue, TypeOK
  <2>2. Len(heap) \in Nat \ {0}
    BY <2>1, EmptySeq
  <2> QED
    BY <2>1, <2>2
<1>2. /\ call' = "PopDue" /\ UNCHANGED deadline
      /\ due'.now = due.now /\ due'.max = due.max /\ due'.out = Append(due.out, x)
  BY DEF PopNext, SinkFirst, Enter, TypeOK
<1>3. due.out \in Seq(Entries) /\ x \in Entries /\ due.max \in Nat /\ l \in Nat
  BY <1>1 DEF TypeOK
<1>4. Len(due'.out) = l + 1 /\ due'.out[l + 1] = x /\ \A i \in 1 .. l : due'.out[i] = due.out[i]
  BY <1>2, <1>3
<1>5. \A e \in Entries : inHeap'[e] <=> inHeap[e] /\ e # x
  BY <1>1, VacatePlaces DEF PopNext
<1>6. ASSUME NEW k \in 1 .. Len(heap') PROVE \E j \in 1 .. Len(heap) : heap'[k] = heap[j]
  <2>1. /\ Len(heap') = Len(heap) - 1
        /\ \A j \in 1 .. Len(heap) - 1 : heap'[j] = IF j = 1 THEN heap[Len(heap)] ELSE heap[j]
    BY <1>1, VacateEffect DEF PopNext
  <2>2. k \in 1 .. Len(heap) /\ Len(heap) \in 1 .. Len(heap)
    BY <1>1, <2>1
  <2>3. heap'[k] = heap[Len(heap)] \/ heap'[k] = heap[k]
    BY <2>1
  <2> QED
    BY <2>2, <2>3
<1>7. \A k \in 1 .. Len(heap) : deadline[x] <= deadline[heap[k]]
  BY FirstIsLeast DEF PopNext, Order
<1>8. deadline[x] <= due.now /\ (due.max > 0 => l + 1 <= due.max) /\ inHeap[x]
  BY <1>1, <1>3 DEF PopNext, MoreDue, Places
<1>9. ASSUME NEW i \in 1 .. l
      PROVE  /\ due.out[i] \in Entries /\ ~inHeap[due.out[i]] /\ deadline[due.out[i]] <= due.now
             /\ \A k \in 1 .. Len(heap) : deadline[due.out[i]] <= deadline[heap[k]]
             /\ \A j \in 1 .. l :
                  i < j => due.out[i] # due.out[j] /\ deadline[due.out[i]] <= deadline[due.out[j]]
  <2>1. due.out[i] \in Entries
    BY <1>3
  <2> QED
    BY <2>1 DEF PoppedSoFar
<1>10. ASSUME NEW i \in 1 .. l + 1
       PROVE  ~inHeap'[due'.out[i]] /\ deadline'[due'.out[i]] <= due'.now
  <2>1. CASE i = l + 1
    BY <1>2, <1>3, <1>4, <1>5, <1>8, <2>1
  <2>2. CASE i \in 1 .. l
    BY <1>2, <1>4, <1>5, <1>9, <2>2
  <2> QED
    BY <1>3, <2>1, <2>2
<1>11. ASSUME NEW i \in 1 .. l + 1, NEW k \in 1 .. Len(heap')
       PROVE  deadline'[due'.out[i]] <= deadline'[heap'[k]]
  <2>1. PICK j \in 1 .. Len(heap) : heap'[k] = heap[j]
    BY <1>6
  <2>2. CASE i = l + 1
    BY <1>2, <1>4, <1>7, <2>1, <2>2
  <2>3. CASE i \in 1 .. l
    BY <1>2, <1>4, <1>9, <2>1, <2>3
  <2> QED
    BY <1>3, <2>2, <2>3
<1>12. ASSUME NEW i \in 1 .. l + 1, NEW j \in 1 .. l + 1, i < j
       PROVE  due'.out[i] # due'.out[j] /\ deadline'[due'.out[i]] <= deadline'[due'.out[j]]
  <2>1. i \in 1 .. l
    BY <1>3, <1>12
  <2>2. CASE j = l + 1
    BY <1>1, <1>2, <1>4, <1>8, <1>9, <2>1, <2>2
  <2>3. CASE j \in 1 .. l
    <3>1. due'.out[i] = due.out[i] /\ due'.out[j] = due.out[j]
      BY <1>4, <2>1, <2>3
    <3>2. due.out[i] # due.out[j] /\ deadline[due.out[i]] <= deadline[due.out[j]]
      BY <1>9, <1>12, <2>1, <2>3
    <3> QED
      BY <1>2, <3>1, <3>2
  <2> QED
    BY <1>3, <2>2, <2>3
<1>13. due.now \in Deadlines /\ due.max \in 0 .. Cardinality(Entries)
  BY DEF PopNext, PoppedSoFar
<1> HIDE DEF x, l
<1> QED
  BY <1>2, <1>4, <1>8, <1>10, <1>11, <1>12, <1>13 DEF PoppedSoFar

\* What PopDue has taken is due and in order, after every step.
LEMMA PoppedStep ==
  ASSUME HInv, [Next]_vars, TypeOK' PROVE PoppedSoFar'
<1> USE DEF HInv
<1>1. Len(heap) \in Nat /\ due.out \in Seq(Entries)
  BY DEF TypeOK
<1>2. call # "PopDue" => due.out = <<>>
  BY DEF PoppedSoFar
<1>3. CASE UNCHANGED vars
  BY <1>3, SamePopped DEF vars, marks, control
<1>4. CASE (\E e \in Entries : Enqueue(e) \/ Remove(e) \/ UpdateDeadline(e)) \/ Dequeue \/ Clear
  <2>1. call' # "PopDue" /\ due'.out = <<>>
    BY <1>2, <1>4 DEF Enqueue, Remove, UpdateDeadline, Dequeue, Clear, Enter, SinkFirst, control
  <2> QED
    BY <2>1, NothingPopped
<1>5. CASE \E now \in Deadlines, max \in 0 .. Cardinality(Entries) : PopDue(now, max)
  <2>1. PICK now \in Deadlines, max \in 0 .. Cardinality(Entries) : PopDue(now, max)
    BY <1>5
  <2>2. /\ call' = "PopDue" /\ due'.now = now /\ due'.max = max /\ due'.out = <<>>
        /\ max \in Nat
    BY <2>1, HeapAssumption, FS_CardinalityType DEF PopDue
  <2> QED
    BY <2>2 DEF PoppedSoFar
<1>6. CASE PopNext
  BY <1>6, PopNextPopped
<1>7. CASE PopEnd
  BY <1>7, NothingPopped DEF PopEnd, Return, NotDue
<1>8. CASE Rise
  <2>1. call # "PopDue" /\ UNCHANGED <<call, due>>
    BY <1>8 DEF Rise, LoopOfCall, Settling
  <2> QED
    BY <1>2, <2>1, NothingPopped
<1>9. CASE RiseEnd
  <2>1. call # "PopDue" /\ call' = "none" /\ UNCHANGED due
    BY <1>9 DEF RiseEnd, Return, LoopOfCall, Settling
  <2> QED
    BY <1>2, <2>1, NothingPopped
<1>10. CASE Sink
  <2>1. at \in 1 .. Len(heap) /\ Smallest(at) \in 1 .. Len(heap) /\ at # Smallest(at)
    BY <1>1, <1>10, SmallestChild DEF Sink, LoopOfCall
  <2>2. ASSUME NEW k \in 1 .. Len(heap') PROVE \E j \in 1 .. Len(heap) : heap'[k] = heap[j]
    <3>1. /\ Len(heap') = Len(heap)
          /\ heap'[at] = heap[Smallest(at)] /\ heap'[Smallest(at)] = heap[at]
          /\ k # at /\ k # Smallest(at) => heap'[k] = heap[k]
      BY <1>10, <2>1, SwapEffect DEF Sink
    <3> QED
      BY <2>1, <3>1
  <2> QED
    BY <1>10, <2>2, SamePopped DEF Sink
<1>11. CASE SinkEnd
  <2>1. UNCHANGED <<heap, inHeap, deadline, due>> /\ (call' = "PopDue" <=> call = "PopDue")
    BY <1>11 DEF SinkEnd, ThenRise, Enter, Return, marks
  <2> QED
    BY <2>1, SamePopped
<1> QED
  BY <1>3, <1>4, <1>5, <1>6, <1>7, <1>8, <1>9, <1>10, <1>11 DEF Next

-----------------------------------------------------------------------------
(* The heap is well formed *)

\* The inductive invariant holds from the start.
LEMMA HeapInit ==
  ASSUME Init PROVE HInv
<1>1. TypeOK
  BY DEF Init, TypeOK, Calls, NotDue
<1>2. Len(heap) = 0 /\ due.out = <<>> /\ due.max = 0
  BY DEF Init, NotDue
<1>3. LoopOfCall
  BY DEF Init, LoopOfCall, Settling
<1>4. Places
  BY <1>2 DEF Init, Places
<1>5. Order
  BY <1>2 DEF Init, Order, InOrder
<1>6. PoppedSoFar
  BY <1>2 DEF Init, PoppedSoFar
<1> QED
  BY <1>1, <1>3, <1>4, <1>5, <1>6 DEF HInv

\* Every step keeps it.
LEMMA HeapStep ==
  ASSUME HInv, [Next]_vars PROVE HInv'
BY TypeStep, LoopStep, PlacesStep, OrderStep, PoppedStep DEF HInv

\* It gives what the runs check.
LEMMA HeapWellFormed ==
  ASSUME HInv PROVE WellFormed
<1> USE DEF HInv
<1>1. DOMAIN heap = 1 .. Len(heap)
  BY DEF TypeOK
<1>2. \A e \in Entries : inHeap[e] => SX!Contains(heap, e)
  BY DEF Places, SX!Contains
<1>3. ASSUME NEW e \in Entries PROVE inHeap[e] = (heapIndex[e] # -1)
  <2>1. inHeap[e] \in BOOLEAN
    BY DEF TypeOK
  <2>2. CASE inHeap[e]
    <3>1. heapIndex[e] \in 1 .. Len(heap)
      BY <2>2 DEF Places
    <3>2. heapIndex[e] # -1
      BY <3>1
    <3> QED
      BY <2>1, <2>2, <3>2
  <2>3. CASE ~inHeap[e]
    <3>1. heapIndex[e] = -1
      BY <2>3 DEF Places
    <3> QED
      BY <2>1, <2>3, <3>1
  <2> QED
    BY <2>2, <2>3
<1>4. IndexTrue
  BY <1>1, <1>2, <1>3 DEF IndexTrue, Places
<1>5. loop = "none" => HeapOrdered
  BY TimesValues DEF Order, TypeOK, HeapOrdered
<1> QED
  BY <1>4, <1>5 DEF WellFormed

\* The inductive invariant is an invariant.
THEOREM HeapInvariant == Spec => []HInv
<1>1. Init => HInv
  BY HeapInit
<1>2. HInv /\ [Next]_vars => HInv'
  BY HeapStep
<1> QED
  BY <1>1, <1>2, PTL DEF Spec

\* Every entry knows its place at every moment, and outside the loops of HeapifyUp
\* and HeapifyDown no entry is earlier than its parent: after Remove and
\* UpdateDeadline in the middle of the array as well.
THEOREM HeapStaysWellFormed == Spec => []WellFormed
<1>1. HInv => WellFormed
  BY HeapWellFormed
<1> QED
  BY <1>1, HeapInvariant, PTL

-----------------------------------------------------------------------------
(* The heap is the queue *)

\* The queue that the array stands for: what is marked, and what PopDue holds.
Queue == SX!ToSet(heap) \cup SX!ToSet(due.out)

\* Before and after a step, the array holds the marked entries.
LEMMA MarkedSets ==
  ASSUME HInv, HInv'
  PROVE  /\ SX!ToSet(heap) = {e \in Entries : inHeap[e]}
         /\ SX!ToSet(heap') = {e \in Entries : inHeap'[e]}
<1>1. SX!ToSet(heap) = {e \in Entries : inHeap[e]}
  <2>1. heap \in Seq(Entries) /\ \A i \in 1 .. Len(heap) : inHeap[heap[i]]
    BY DEF HInv, TypeOK, Places
  <2>2. \A e \in Entries : inHeap[e] => \E i \in 1 .. Len(heap) : heap[i] = e
    BY DEF HInv, Places
  <2> QED
    BY <2>1, <2>2, HeapSet
<1>2. SX!ToSet(heap') = {e \in Entries : inHeap'[e]}
  <2>1. heap' \in Seq(Entries) /\ \A i \in 1 .. Len(heap') : inHeap'[heap'[i]]
    BY DEF HInv, TypeOK, Places
  <2>2. \A e \in Entries : inHeap'[e] => \E i \in 1 .. Len(heap') : heap'[i] = e
    BY DEF HInv, Places
  <2> QED
    BY <2>1, <2>2, HeapSet
<1> QED
  BY <1>1, <1>2

\* The empty sequence has no elements.
LEMMA EmptySet == SX!ToSet(<<>>) = {}
BY DEF SX!ToSet

\* An entry appended to a sequence is added to its elements.
LEMMA AppendSet ==
  ASSUME NEW s \in Seq(Entries), NEW e \in Entries
  PROVE  SX!ToSet(Append(s, e)) = SX!ToSet(s) \cup {e}
<1> DEFINE t == Append(s, e)
           l == Len(s)
<1>1. /\ l \in Nat /\ DOMAIN s = 1 .. l /\ DOMAIN t = 1 .. l + 1
      /\ t[l + 1] = e /\ \A i \in 1 .. l : t[i] = s[i]
  OBVIOUS
<1>2. \A i \in 1 .. l + 1 : i \in 1 .. l \/ i = l + 1
  BY <1>1
<1>3. \A i \in 1 .. l : i \in 1 .. l + 1
  BY <1>1
<1>4. l + 1 \in 1 .. l + 1
  BY <1>1
<1> HIDE DEF t, l
<1>5. SX!ToSet(t) \subseteq SX!ToSet(s) \cup {e}
  BY <1>1, <1>2 DEF SX!ToSet
<1>6. SX!ToSet(s) \subseteq SX!ToSet(t)
  BY <1>1, <1>3 DEF SX!ToSet
<1>7. e \in SX!ToSet(t)
  BY <1>1, <1>4 DEF SX!ToSet
<1> QED
  BY <1>5, <1>6, <1>7 DEF t

\* A sequence without repetitions has as many elements as places.
LEMMA CountOnce ==
  ASSUME NEW s \in Seq(Entries),
         \A i \in 1 .. Len(s) : \A j \in 1 .. Len(s) : i < j => s[i] # s[j]
  PROVE  Cardinality(SX!ToSet(s)) = Len(s)
<1> DEFINE S == SX!ToSet(s)
           l == Len(s)
<1>1. l \in Nat /\ s \in [1 .. l -> S] /\ S = {s[i] : i \in 1 .. l}
  BY DEF SX!ToSet
<1>2. \A i, j \in 1 .. l : s[i] = s[j] => i = j
  BY <1>1
<1>3. \A e \in S : \E i \in 1 .. l : s[i] = e
  BY <1>1
<1> HIDE DEF S, l
<1>4. s \in Bijection(1 .. l, S)
  BY <1>1, <1>2, <1>3, Fun_IsBij
<1>5. ExistsBijection(1 .. l, S)
  BY <1>4 DEF ExistsBijection
<1> QED
  BY <1>1, <1>5, FS_CountingElements DEF S, l

\* TimerQueue counts as the heap does.
LEMMA SameCount ==
  ASSUME NEW S PROVE Abstract!Cardinality(S) = Cardinality(S)
BY DEF Abstract!Cardinality, Cardinality

\* A call of PopDue returns: what it took is what TimerQueue lets it take.
LEMMA PopEndMaps ==
  ASSUME HInv, HInv', PopEnd PROVE Abstract!PopDue(due.now, due.max)
<1> USE DEF HInv
<1> DEFINE out == SX!ToSet(due.out)
           l == Len(due.out)
           H == SX!ToSet(heap)
<1>1. /\ taken' = due.out /\ UNCHANGED <<heap, deadline>> /\ due'.out = <<>>
      /\ call = "PopDue" /\ loop = "none" /\ ~MoreDue
  BY DEF PopEnd, NotDue
<1>2. due.out \in Seq(Entries) /\ l \in Nat /\ DOMAIN due.out = 1 .. l /\ due.max \in Nat /\ due.now \in Nat
  BY DEF TypeOK
<1>3. out = {due.out[i] : i \in DOMAIN due.out}
  BY DEF SX!ToSet
<1>4. H = {e \in Entries : inHeap[e]}
  BY MarkedSets
<1>5. \A e \in H : \E k \in 1 .. Len(heap) : e = heap[k]
  BY DEF SX!ToSet, TypeOK
<1>6. /\ \A e \in out : e \in Entries /\ e \notin H /\ deadline[e] <= due.now
      /\ \A e \in out, f \in H : deadline[e] <= deadline[f]
  <2>1. ASSUME NEW e \in out PROVE e \in Entries /\ ~inHeap[e] /\ deadline[e] <= due.now
                 /\ \A k \in 1 .. Len(heap) : deadline[e] <= deadline[heap[k]]
    <3>1. PICK i \in 1 .. l : e = due.out[i]
      BY <1>2, <1>3
    <3> QED
      BY <1>2, <3>1 DEF PoppedSoFar
  <2> QED
    BY <1>4, <1>5, <2>1
<1>7. Cardinality(out) = l
  BY <1>2, CountOnce DEF PoppedSoFar
<1>8. \A i, j \in 1 .. l : i < j => deadline[due.out[i]] <= deadline[due.out[j]]
  BY DEF PoppedSoFar
<1>9. out = {e \in H \cup out : deadline[e] <= due.now} \/ (due.max > 0 /\ l = due.max)
  <2>1. CASE heap = <<>>
    BY <1>6, <2>1, EmptySet
  <2>2. CASE ~(due.max = 0 \/ l < due.max)
    BY <1>2, <2>2 DEF PoppedSoFar
  <2>3. CASE heap # <<>> /\ ~(deadline[heap[1]] <= due.now)
    <3>1. ASSUME NEW e \in H PROVE ~(deadline[e] <= due.now)
      <4>1. PICK k \in 1 .. Len(heap) : e = heap[k]
        BY <1>5
      <4>2. deadline[heap[1]] <= deadline[e]
        BY <1>1, <4>1, FirstIsLeast DEF Order
      <4>3. 1 \in 1 .. Len(heap)
        BY <4>1 DEF TypeOK
      <4>4. deadline[heap[1]] \in Nat /\ deadline[e] \in Nat
        BY <4>1, <4>3, ArrayTypes DEF TypeOK
      <4> QED
        BY <1>2, <2>3, <4>2, <4>4
    <3> QED
      BY <1>6, <3>1
  <2> QED
    BY <1>1, <2>1, <2>2, <2>3 DEF MoreDue
<1>10. SX!ToSet(heap') \cup SX!ToSet(due'.out) = (H \cup out) \ out
  <2>1. SX!ToSet(heap') \cup SX!ToSet(due'.out) = H
    BY <1>1, EmptySet
  <2>2. H = (H \cup out) \ out
    BY <1>6
  <2> QED
    BY <2>1, <2>2
<1> HIDE DEF H
<1>11. /\ out \subseteq {e \in H \cup out : deadline[e] <= due.now}
       /\ \A e \in out, f \in (H \cup out) \ out : deadline[e] <= deadline[f]
  BY <1>6
<1> HIDE DEF out, l
<1>12. out = {taken'[i] : i \in DOMAIN taken'} /\ l = Len(taken') /\ DOMAIN taken' = 1 .. l
  BY <1>1, <1>2, <1>3 DEF l
<1> DEFINE T == {taken'[i] : i \in DOMAIN taken'}
           Q == SX!ToSet(heap) \cup SX!ToSet(due.out)
<1>13. T = out /\ Q = H \cup out
  BY <1>12 DEF H, out
<1>14. /\ \A i, j \in DOMAIN taken' : i < j => deadline[taken'[i]] <= deadline[taken'[j]]
       /\ UNCHANGED deadline
  BY <1>1, <1>8, <1>12
<1> HIDE DEF T, Q
<1>15. /\ T \subseteq {e \in Q : deadline[e] <= due.now} /\ Abstract!Cardinality(T) = Len(taken')
       /\ \A e \in T, f \in Q \ T : deadline[e] <= deadline[f]
       /\ T = {e \in Q : deadline[e] <= due.now} \/ (due.max > 0 /\ Len(taken') = due.max)
       /\ SX!ToSet(heap') \cup SX!ToSet(due'.out) = Q \ T
  BY <1>7, <1>9, <1>10, <1>11, <1>12, <1>13, SameCount
<1> QED
  BY <1>14, <1>15, Zenon DEF Abstract!PopDue, T, Q

\* Every step of the heap is a step of the queue, or leaves it as it is.
LEMMA QueueStep ==
  ASSUME HInv, HInv', [Next]_vars PROVE [Abstract!Next]_(Abstract!vars)
<1> USE DEF HInv
<1> DEFINE H == SX!ToSet(heap)
           G == SX!ToSet(heap')
<1>1. /\ H = {e \in Entries : inHeap[e]} /\ G = {e \in Entries : inHeap'[e]}
      /\ due.out \in Seq(Entries) /\ inHeap \in [Entries -> BOOLEAN]
  BY MarkedSets DEF TypeOK
<1>2. \A k \in 1 .. Len(heap) : heap[k] \in H
  <2>1. DOMAIN heap = 1 .. Len(heap)
    BY DEF TypeOK
  <2> QED
    BY <2>1 DEF SX!ToSet
<1>3. call = "none" => due.out = <<>> /\ Queue = H
  BY Idle, EmptySet DEF Queue
<1>4. UNCHANGED <<Queue, deadline, taken>> => UNCHANGED Abstract!vars
  BY DEF Queue, Abstract!vars
<1>5. CASE UNCHANGED vars
  BY <1>4, <1>5 DEF vars, Queue
<1>6. ASSUME NEW e \in Entries, Enqueue(e) PROVE Abstract!Enqueue(e)
  <2>1. Queue = H /\ Queue' = G
    BY <1>3, <1>6, EmptySet DEF Enqueue, Queue
  <2>2. e \notin H /\ G = H \cup {e}
    BY <1>1, <1>6 DEF Enqueue
  <2> QED
    BY <1>6, <2>1, <2>2 DEF Enqueue, Abstract!Enqueue, Queue
<1>7. ASSUME NEW e \in Entries, Remove(e) PROVE Abstract!Remove(e)
  <2>1. Queue = H /\ Queue' = G
    BY <1>3, <1>7, EmptySet DEF Remove, Queue
  <2>2. G = H \ {e}
    <3>1. heapIndex[e] \in 1 .. Len(heap) /\ heap[heapIndex[e]] = e /\ Vacate(heapIndex[e])
      BY <1>7 DEF Remove, Places
    <3> QED
      BY <1>1, <3>1, VacatePlaces
  <2> QED
    BY <1>7, <2>1, <2>2 DEF Remove, Abstract!Remove, Queue
<1>8. ASSUME NEW e \in Entries, UpdateDeadline(e) PROVE Abstract!UpdateDeadline(e)
  <2>1. Queue = H /\ Queue' = Queue /\ e \in H
    BY <1>1, <1>3, <1>8 DEF UpdateDeadline, Queue
  <2> QED
    BY <1>8, <2>1 DEF UpdateDeadline, Abstract!UpdateDeadline, Queue
<1>9. CASE Dequeue
  <2>1. 1 \in 1 .. Len(heap)
    BY <1>9, EmptySeq DEF Dequeue, TypeOK
  <2>2. Queue = H /\ Queue' = G
    BY <1>3, <1>9, EmptySet DEF Dequeue, Queue
  <2>3. G = H \ {heap[1]}
    BY <1>1, <1>9, <2>1, VacatePlaces DEF Dequeue
  <2>4. \A f \in H : deadline[heap[1]] <= deadline[f]
    <3>1. InOrder(Len(heap), Times(heap, deadline))
      BY <1>9, Idle DEF Dequeue
    <3>2. \A f \in H : \E k \in 1 .. Len(heap) : f = heap[k]
      BY <1>1 DEF Places
    <3> QED
      BY <3>1, <3>2, FirstIsLeast
  <2>5. heap[1] \in H /\ taken' = <<heap[1]>> /\ UNCHANGED deadline
    BY <1>2, <1>9, <2>1 DEF Dequeue
  <2>6. Abstract!Dequeue
    BY <2>2, <2>3, <2>4, <2>5 DEF Abstract!Dequeue, Abstract!Least, Queue
  <2> QED
    BY <2>6 DEF Abstract!Next
<1>10. CASE Clear
  <2>1. Queue' = {} /\ taken' = <<>> /\ UNCHANGED deadline
    BY <1>3, <1>10, EmptySet DEF Clear, Queue
  <2> QED
    BY <2>1 DEF Queue, Abstract!Clear, Abstract!Next
<1>11. CASE \E now \in Deadlines, max \in 0 .. Cardinality(Entries) : PopDue(now, max)
  <2>1. due'.out = due.out /\ UNCHANGED <<heap, deadline, taken>>
    BY <1>3, <1>11 DEF PopDue
  <2> QED
    BY <1>4, <2>1 DEF Queue
<1>12. CASE PopNext
  <2>1. 1 \in 1 .. Len(heap)
    BY <1>12, EmptySeq DEF PopNext, MoreDue, TypeOK
  <2>2. due'.out = Append(due.out, heap[1]) /\ UNCHANGED <<deadline, taken>> /\ heap[1] \in Entries
    BY <1>1, <1>2, <1>12, <2>1 DEF PopNext, TypeOK
  <2>3. SX!ToSet(due'.out) = SX!ToSet(due.out) \cup {heap[1]}
    BY <1>1, <2>2, AppendSet
  <2>4. G = H \ {heap[1]} /\ heap[1] \in H
    BY <1>1, <1>2, <1>12, <2>1, VacatePlaces DEF PopNext
  <2>5. Queue' = Queue
    BY <2>3, <2>4 DEF Queue
  <2> QED
    BY <1>4, <2>2, <2>5
<1>13. CASE PopEnd
  <2>1. due.now \in Deadlines /\ due.max \in 0 .. Cardinality(Entries)
    BY <1>13 DEF PopEnd, PoppedSoFar
  <2> QED
    <3>1. Abstract!PopDue(due.now, due.max)
      BY <1>13, PopEndMaps
    <3>2. due.max \in 0 .. Abstract!Cardinality(Entries)
      BY <2>1, SameCount
    <3> QED
      BY <2>1, <3>1, <3>2, Zenon DEF Abstract!Next
<1>14. CASE Rise \/ RiseEnd \/ Sink \/ SinkEnd
  <2>1. UNCHANGED <<inHeap, deadline, taken, due>>
    BY <1>14 DEF Rise, RiseEnd, Sink, SinkEnd, marks
  <2>2. G = H
    BY <1>1, <2>1
  <2> QED
    BY <1>4, <2>1, <2>2 DEF Queue
<1> QED
  BY <1>5, <1>6, <1>7, <1>8, <1>9, <1>10, <1>11, <1>12, <1>13, <1>14 DEF Next, Abstract!Next

\* The array heap implements the queue that the scheduler relies on: Dequeue
\* returns an earliest entry, PopDue the due entries in order and none that is
\* later than one it leaves, and no entry is lost or invented by any call.
THEOREM HeapIsQueue == Spec => ImplementsQueue
<1>1. Init => Abstract!Init
  BY EmptySet DEF Init, NotDue, Abstract!Init
<1>2. HInv /\ HInv' /\ [Next]_vars => [Abstract!Next]_(Abstract!vars)
  BY QueueStep
<1> QED
  BY <1>1, <1>2, HeapInvariant, PTL DEF Spec, ImplementsQueue, Abstract!Spec
=============================================================================
