--------------------------- MODULE ChannelProofs ---------------------------
(***************************************************************************)
(* Proofs about TChannel for any capacity, calls, program orders and modes *)
(* of the calls: what is listed, what is received, the order of the buffer *)
(* and what the calls are told.                                            *)
(***************************************************************************)
EXTENDS Channel, FiniteSetTheorems, SequenceTheorems, TLAPS

\* A record is listed once, a value is buffered once.
NoRepeat(q) == \A i, j \in DOMAIN q : q[i] = q[j] => i = j

-----------------------------------------------------------------------------
(* Lists as sets *)

\* What an empty list and the members of any list are.
LEMMA EmptyList ==
  ASSUME NEW S, NEW q \in Seq(S)
  PROVE  ToSet(<<>>) = {} /\ NoRepeat(<<>>) /\ (q = <<>> <=> ToSet(q) = {}) /\ ToSet(q) \subseteq S
<1>1. DOMAIN q = 1 .. Len(q) /\ Len(q) \in Nat /\ \A i \in 1 .. Len(q) : q[i] \in S
  BY LenProperties, ElementOfSeq
<1>2. q = <<>> <=> Len(q) = 0
  BY EmptySeq, <1>1
<1>3. ToSet(<<>>) = {} /\ NoRepeat(<<>>)
  BY DEF ToSet, NoRepeat
<1>4. ToSet(q) \subseteq S
  BY <1>1 DEF ToSet
<1>5. ASSUME q # <<>> PROVE ToSet(q) # {}
  <2>1. 1 \in DOMAIN q
    BY <1>1, <1>2, <1>5
  <2> QED
    BY <2>1 DEF ToSet
<1> QED
  BY <1>3, <1>4, <1>5

\* What a list is after Enqueue.
LEMMA AppendList ==
  ASSUME NEW S, NEW q \in Seq(S), NEW e \in S
  PROVE  /\ Append(q, e) \in Seq(S) /\ Append(q, e) # <<>>
         /\ ToSet(Append(q, e)) = ToSet(q) \cup {e}
         /\ NoRepeat(q) /\ e \notin ToSet(q) => NoRepeat(Append(q, e))
<1>1. DOMAIN q = 1 .. Len(q) /\ Len(q) \in Nat
  BY LenProperties
<1>2. /\ Append(q, e) \in Seq(S) /\ Append(q, e) # <<>> /\ Len(Append(q, e)) = Len(q) + 1
      /\ \A i \in 1 .. Len(q) : Append(q, e)[i] = q[i]
      /\ Append(q, e)[Len(q) + 1] = e
  BY AppendProperties
<1>3. DOMAIN Append(q, e) = 1 .. (Len(q) + 1)
  BY <1>2, LenProperties
<1>4. 1 .. (Len(q) + 1) = (1 .. Len(q)) \cup {Len(q) + 1}
  BY <1>1
<1>5. ToSet(Append(q, e)) = ToSet(q) \cup {e}
  BY <1>1, <1>2, <1>3, <1>4 DEF ToSet
<1>6. ASSUME NoRepeat(q), e \notin ToSet(q) PROVE NoRepeat(Append(q, e))
  BY <1>1, <1>2, <1>3, <1>4, <1>6 DEF ToSet, NoRepeat
<1> QED
  BY <1>2, <1>5, <1>6

\* What a list is after Dequeue.
LEMMA TailList ==
  ASSUME NEW S, NEW q \in Seq(S), q # <<>>
  PROVE  /\ Head(q) \in S /\ Head(q) \in ToSet(q) /\ Tail(q) \in Seq(S)
         /\ ToSet(Tail(q)) \subseteq ToSet(q)
         /\ NoRepeat(q) => NoRepeat(Tail(q)) /\ ToSet(Tail(q)) = ToSet(q) \ {Head(q)}
<1>1. DOMAIN q = 1 .. Len(q) /\ Len(q) \in Nat /\ Len(q) >= 1
  BY LenProperties, EmptySeq
<1>2. /\ Head(q) \in S /\ Tail(q) \in Seq(S) /\ Len(Tail(q)) = Len(q) - 1
      /\ \A i \in 1 .. Len(Tail(q)) : Tail(q)[i] = q[i + 1]
  BY HeadTailProperties
<1>3. Head(q) = q[1]
  BY DEF Head
<1>4. DOMAIN Tail(q) = 1 .. (Len(q) - 1)
  BY <1>2, LenProperties
<1>5. Head(q) \in ToSet(q) /\ ToSet(Tail(q)) \subseteq ToSet(q)
  BY <1>1, <1>2, <1>3, <1>4 DEF ToSet
<1>6. ASSUME NoRepeat(q) PROVE NoRepeat(Tail(q)) /\ ToSet(Tail(q)) = ToSet(q) \ {Head(q)}
  <2>1. NoRepeat(Tail(q))
    BY <1>1, <1>2, <1>4, <1>6 DEF NoRepeat
  <2>2. ASSUME NEW x \in ToSet(Tail(q)) PROVE x # Head(q)
    <3>1. PICK i \in 1 .. (Len(q) - 1) : x = q[i + 1]
      BY <1>1, <1>2, <1>4 DEF ToSet
    <3>2. i + 1 \in 1 .. Len(q) /\ 1 \in 1 .. Len(q) /\ i + 1 # 1
      BY <1>1
    <3> QED
      BY <1>1, <1>3, <1>6, <3>1, <3>2 DEF NoRepeat
  <2>3. ASSUME NEW x \in ToSet(q), x # Head(q) PROVE x \in ToSet(Tail(q))
    <3>1. PICK i \in 1 .. Len(q) : x = q[i] /\ i # 1
      BY <1>1, <1>3, <2>3 DEF ToSet
    <3>2. i - 1 \in 1 .. (Len(q) - 1) /\ (i - 1) + 1 = i
      BY <1>1, <3>1
    <3>3. Tail(q)[i - 1] = x
      BY <1>2, <3>1, <3>2
    <3> QED
      BY <1>4, <3>2, <3>3 DEF ToSet
  <2> QED
    BY <1>5, <2>1, <2>2, <2>3
<1> QED
  BY <1>2, <1>5, <1>6

\* A record that was listed once is not listed any more, the others are.
LEMMA UnlistList ==
  ASSUME NEW S, NEW q \in Seq(S), NEW x, NoRepeat(q)
  PROVE  /\ Unlist(q, x) \in Seq(S) /\ NoRepeat(Unlist(q, x))
         /\ ToSet(Unlist(q, x)) = ToSet(q) \ {x}
<1>1. DOMAIN q = 1 .. Len(q) /\ Len(q) \in Nat /\ \A i \in 1 .. Len(q) : q[i] \in S
  BY LenProperties, ElementOfSeq
<1>2. CASE x \notin ToSet(q)
  BY <1>2 DEF Unlist
<1>3. CASE x \in ToSet(q)
  <2> DEFINE n == CHOOSE i \in DOMAIN q : q[i] = x
             r == RemoveAt(q, n)
  <2>1. n \in 1 .. Len(q) /\ q[n] = x
    BY <1>1, <1>3 DEF ToSet
  <2>2. Unlist(q, x) = r
    BY <1>3 DEF Unlist
  <2> HIDE DEF n
  <2>3. /\ SubSeq(q, 1, n - 1) \in Seq(S) /\ Len(SubSeq(q, 1, n - 1)) = n - 1
        /\ \A i \in 1 .. (n - 1) : SubSeq(q, 1, n - 1)[i] = q[i]
    <3>1. 1 \in Int /\ n - 1 \in Int /\ \A i \in 1 .. (n - 1) : q[i] \in S
      BY <1>1, <2>1
    <3>2. /\ SubSeq(q, 1, n - 1) \in Seq(S)
          /\ Len(SubSeq(q, 1, n - 1)) = IF 1 <= n - 1 THEN n - 1 - 1 + 1 ELSE 0
          /\ \A i \in 1 .. (n - 1 - 1 + 1) : SubSeq(q, 1, n - 1)[i] = q[1 + i - 1]
      BY <3>1, SubSeqProperties
    <3> QED
      BY <1>1, <2>1, <3>2
  <2>4. /\ SubSeq(q, n + 1, Len(q)) \in Seq(S) /\ Len(SubSeq(q, n + 1, Len(q))) = Len(q) - n
        /\ \A i \in 1 .. (Len(q) - n) : SubSeq(q, n + 1, Len(q))[i] = q[n + i]
    <3>1. n + 1 \in Int /\ Len(q) \in Int /\ \A i \in (n + 1) .. Len(q) : q[i] \in S
      BY <1>1, <2>1
    <3>2. /\ SubSeq(q, n + 1, Len(q)) \in Seq(S)
          /\ Len(SubSeq(q, n + 1, Len(q))) = IF n + 1 <= Len(q) THEN Len(q) - (n + 1) + 1 ELSE 0
          /\ \A i \in 1 .. (Len(q) - (n + 1) + 1) : SubSeq(q, n + 1, Len(q))[i] = q[(n + 1) + i - 1]
      BY <3>1, SubSeqProperties
    <3>3. /\ Len(q) - (n + 1) + 1 = Len(q) - n
          /\ \A i \in 1 .. (Len(q) - n) : (n + 1) + i - 1 = n + i
          /\ ~(n + 1 <= Len(q)) => Len(q) - n = 0
      <4>1. n \in Int /\ Len(q) \in Int /\ n <= Len(q)
        BY <1>1, <2>1
      <4> QED
        BY <4>1
    <3> QED
      BY <3>2, <3>3
  <2>5. /\ r \in Seq(S) /\ Len(r) = Len(q) - 1
        /\ \A i \in 1 .. (Len(q) - 1) : r[i] = IF i < n THEN q[i] ELSE q[i + 1]
    <3>1. /\ r \in Seq(S) /\ Len(r) = (n - 1) + (Len(q) - n)
          /\ \A i \in 1 .. ((n - 1) + (Len(q) - n)) :
               r[i] = IF i <= n - 1 THEN SubSeq(q, 1, n - 1)[i]
                                    ELSE SubSeq(q, n + 1, Len(q))[i - (n - 1)]
      <4> DEFINE a == SubSeq(q, 1, n - 1)
                 b == SubSeq(q, n + 1, Len(q))
      <4>1. r = a \o b
        BY DEF RemoveAt
      <4>2. a \in Seq(S) /\ b \in Seq(S) /\ Len(a) = n - 1 /\ Len(b) = Len(q) - n
        BY <2>3, <2>4
      <4> HIDE DEF a, b, r
      <4>3. /\ r \in Seq(S) /\ Len(r) = Len(a) + Len(b)
            /\ \A i \in 1 .. (Len(a) + Len(b)) : r[i] = IF i <= Len(a) THEN a[i] ELSE b[i - Len(a)]
        BY <4>1, <4>2, ConcatProperties
      <4> QED
        BY <4>2, <4>3 DEF a, b
    <3>2. (n - 1) + (Len(q) - n) = Len(q) - 1
      BY <1>1, <2>1
    <3>3. ASSUME NEW i \in 1 .. (Len(q) - 1) PROVE r[i] = IF i < n THEN q[i] ELSE q[i + 1]
      <4>1. CASE i < n
        BY <1>1, <2>1, <2>3, <3>1, <3>2, <4>1
      <4>2. CASE ~(i < n)
        <5>1. i - (n - 1) \in 1 .. (Len(q) - n) /\ n + (i - (n - 1)) = i + 1 /\ ~(i <= n - 1)
          BY <1>1, <2>1, <4>2
        <5> QED
          BY <2>4, <3>1, <3>2, <4>2, <5>1
      <4> QED
        BY <4>1, <4>2
    <3> QED
      BY <3>1, <3>2, <3>3
  <2> HIDE DEF r
  <2>6. DOMAIN r = 1 .. (Len(q) - 1)
    BY <2>5, LenProperties
  <2>7. NoRepeat(r)
    <3> SUFFICES ASSUME NEW i \in 1 .. (Len(q) - 1), NEW j \in 1 .. (Len(q) - 1), r[i] = r[j]
                 PROVE  i = j
      BY <2>6 DEF NoRepeat
    <3>1. PICK k \in 1 .. Len(q) : r[i] = q[k] /\ k = IF i < n THEN i ELSE i + 1
      BY <1>1, <2>1, <2>5
    <3>2. PICK l \in 1 .. Len(q) : r[j] = q[l] /\ l = IF j < n THEN j ELSE j + 1
      BY <1>1, <2>1, <2>5
    <3>3. k = l
      BY <1>1, <3>1, <3>2 DEF NoRepeat
    <3> QED
      BY <1>1, <2>1, <3>1, <3>2, <3>3
  <2>8. ASSUME NEW y \in ToSet(r) PROVE y \in ToSet(q) \ {x}
    <3>1. PICK i \in 1 .. (Len(q) - 1) : y = r[i]
      BY <2>6 DEF ToSet
    <3>2. PICK k \in 1 .. Len(q) : y = q[k] /\ k # n
      BY <1>1, <2>1, <2>5, <3>1
    <3>3. q[k] # q[n]
      BY <1>1, <2>1, <3>2 DEF NoRepeat
    <3> QED
      BY <1>1, <2>1, <3>2, <3>3 DEF ToSet
  <2>9. ASSUME NEW y \in ToSet(q), y # x PROVE y \in ToSet(r)
    <3>1. PICK k \in 1 .. Len(q) : y = q[k] /\ k # n
      BY <1>1, <2>1, <2>9 DEF ToSet
    <3>2. PICK i \in 1 .. (Len(q) - 1) : r[i] = q[k]
      <4>1. CASE k < n
        BY <1>1, <2>1, <2>5, <4>1
      <4>2. CASE k > n
        <5>1. k - 1 \in 1 .. (Len(q) - 1) /\ ~(k - 1 < n) /\ (k - 1) + 1 = k
          BY <1>1, <2>1, <4>2
        <5> QED
          BY <2>5, <5>1
      <4> QED
        BY <1>1, <2>1, <3>1, <4>1, <4>2
    <3> QED
      BY <2>6, <3>1, <3>2 DEF ToSet
  <2> QED
    BY <2>2, <2>5, <2>7, <2>8, <2>9
<1> QED
  BY <1>2, <1>3

-----------------------------------------------------------------------------
(* The inductive invariant *)

\* Who is listed waits, once, and was not woken; the two lists are never both in use.
Lists ==
  /\ NoRepeat(recvWaiters) /\ NoRepeat(sendWaiters)
  /\ \A x \in ToSet(recvWaiters) \cup ToSet(sendWaiters) :
       pc[x] \in {"handoff", "late"} /\ ~signal[x]
  /\ recvWaiters = <<>> \/ sendWaiters = <<>>

\* A channel is buffered or a rendezvous, never both.
ByCapacity ==
  /\ capacity \in Nat
  /\ capacity = 0 => queue = <<>>
  /\ capacity > 0 =>
       /\ recvWaiters = <<>> /\ sendWaiters = <<>>
       /\ \A x \in Senders \cup Receivers : pc[x] \notin {"handoff", "paired", "late"}

\* How far a call has come when it has a result, is late, or its time is up.
Stages ==
  /\ \A s \in Senders : result[s] # "none" => pc[s] \in {"paired", "late", "done"}
  /\ \A r \in Receivers : result[r] # "none" => pc[r] = "done"
  /\ \A x \in Senders \cup Receivers : pc[x] = "none" => mode[x] = "none"
  /\ \A x \in Senders \cup Receivers : expired[x] => mode[x] = "timed"
  /\ \A s \in Senders : pc[s] = "late" => mode[s] = "timed"
  /\ \A r \in Receivers : pc[r] = "late" => mode[r] # "forever"

Unseen(s) == s \notin ToSet(queue) /\ \A r \in Receivers : value[r] # s

\* A value is with its sender, in the buffer or with one receiver.
OneOwner ==
  /\ NoRepeat(queue)
  /\ \A r, q \in Receivers : value[r] # None /\ value[r] = value[q] => r = q
  /\ \A s \in ToSet(queue) : \A r \in Receivers : value[r] # s
  /\ \A s \in Senders : pc[s] \in {"none", "try", "space"} => Unseen(s)
  /\ \A s \in ToSet(sendWaiters) : Unseen(s)

\* A receiver has a value only after it was woken with success or took it itself.
Handed ==
  /\ \A r \in Receivers : pc[r] \in {"none", "try", "data"} => value[r] = None
  /\ \A r \in ToSet(recvWaiters) : value[r] = None
  /\ \A r \in Receivers :
       value[r] # None /\ pc[r] \in {"handoff", "paired"} => success[r] /\ signal[r]
  /\ capacity > 0 => \A r \in Receivers : value[r] # None => pc[r] = "done" /\ result[r] = "true"

\* The buffer is the end of what was accepted; what is before it was received.
Order ==
  capacity > 0 =>
    /\ Len(queue) <= Len(sent) /\ Len(queue) <= capacity
    /\ \A i \in 1 .. Len(queue) : queue[i] = sent[Len(sent) - Len(queue) + i]
    /\ \A i \in 1 .. (Len(sent) - Len(queue)) : \E r \in Receivers : value[r] = sent[i]

\* A receiver that does not wait for ever gave up.
Missed == \E r \in Receivers : mode[r] # "forever" /\ (pc[r] = "late" \/ result[r] = "false")

Arrived(s) == \E r \in Receivers : value[r] = s /\ pc[r] # "late" /\ result[r] # "false"

\* What a call is told, and what a waiting sender will be told.
Told ==
  /\ capacity > 0 => \A s \in Senders :
       /\ result[s] = "true" => s \in ToSet(queue) \/ \E r \in Receivers : value[r] = s
       /\ result[s] = "false" => Unseen(s) /\ (expired[s] \/ closed)
  /\ capacity = 0 => \A s \in Senders :
       /\ result[s] = "false" /\ mode[s] = "forever" => Unseen(s)
       /\ pc[s] = "handoff" /\ ~success[s] => Unseen(s)
       /\ result[s] = "true" \/ (pc[s] = "handoff" /\ success[s]) => Arrived(s) \/ Missed

CInv ==
  /\ TypeOK /\ Lists /\ ByCapacity /\ Stages
  /\ OneOwner /\ Handed /\ Order /\ Told

USE DEF setup, waiters, events

\* The members of the lists, and the head of a list that is in use.
LEMMA ListMembers ==
  ASSUME TypeOK
  PROVE  /\ ToSet(recvWaiters) \subseteq Receivers /\ ToSet(sendWaiters) \subseteq Senders
         /\ ToSet(queue) \subseteq Senders
BY EmptyList DEF TypeOK

\* Every step of TChannel keeps the types.
LEMMA TypeStep == CInv /\ Next => TypeOK'
<1> SUFFICES ASSUME CInv, Next PROVE TypeOK'
  OBVIOUS
<1> USE ChannelAssumption DEF TypeOK, Goto, Return, Calls, Locations, Pair, NewWaiter
<1>0. TypeOK /\ Lists
  BY DEF CInv
<1>1. ASSUME NEW s \in Senders, Send(s) PROVE TypeOK'
  BY <1>0, <1>1 DEF Send, Begin
<1>2. ASSUME NEW s \in Senders, SendStep(s) PROVE TypeOK'
  <2>1. CASE SendClosed(s)
    BY <1>0, <2>1 DEF SendClosed
  <2>2. CASE SendBuffered(s)
    <3>1. Append(queue, s) \in Seq(Senders) /\ Append(sent, s) \in Seq(Senders)
      BY <1>0, AppendList
    <3> QED
      BY <1>0, <2>2, <3>1 DEF SendBuffered
  <2>3. CASE SendFull(s)
    BY <1>0, <2>3 DEF SendFull
  <2>4. CASE SendPaired(s)
    <3>1. Head(recvWaiters) \in Receivers /\ Tail(recvWaiters) \in Seq(Receivers)
          /\ Append(sent, s) \in Seq(Senders)
      BY <1>0, <2>4, AppendList, TailList DEF SendPaired
    <3> QED
      BY <1>0, <2>4, <3>1 DEF SendPaired
  <2>5. CASE SendWait(s)
    <3>1. Append(sendWaiters, s) \in Seq(Senders)
      BY <1>0, AppendList
    <3> QED
      BY <1>0, <2>5, <3>1 DEF SendWait
  <2>6. CASE SpaceSignaled(s)
    BY <1>0, <2>6 DEF SpaceSignaled
  <2>7. CASE SpaceTimeout(s)
    BY <1>0, <2>7, ZenonT(30) DEF SpaceTimeout
  <2>8. CASE SendSignaled(s)
    BY <1>0, <2>8 DEF SendSignaled
  <2>9. CASE SendSlice(s)
    BY <1>0, <2>9 DEF SendSlice
  <2>10. CASE SendLeave(s)
    <3>1. Unlist(sendWaiters, s) \in Seq(Senders)
      BY <1>0, UnlistList DEF Lists
    <3> QED
      BY <1>0, <2>10, <3>1 DEF SendLeave
  <2> QED
    BY <1>2, <2>1, <2>2, <2>3, <2>4, <2>5, <2>6, <2>7, <2>8, <2>9, <2>10 DEF SendStep
<1>3. ASSUME NEW r \in Receivers, Recv(r) PROVE TypeOK'
  BY <1>0, <1>3 DEF Recv, Begin
<1>4. ASSUME NEW r \in Receivers, RecvStep(r) PROVE TypeOK'
  <2>1. CASE RecvBuffered(r)
    <3>1. Head(queue) \in Senders /\ Tail(queue) \in Seq(Senders)
      BY <1>0, <2>1, TailList DEF RecvBuffered
    <3> QED
      BY <1>0, <2>1, <3>1 DEF RecvBuffered
  <2>2. CASE RecvClosed(r)
    BY <1>0, <2>2 DEF RecvClosed
  <2>3. CASE RecvPaired(r)
    <3>1. Head(sendWaiters) \in Senders /\ Tail(sendWaiters) \in Seq(Senders)
      BY <1>0, <2>3, TailList DEF RecvPaired
    <3>2. Append(sent, Head(sendWaiters)) \in Seq(Senders)
      BY <1>0, <3>1, AppendList
    <3> QED
      BY <1>0, <2>3, <3>1, <3>2 DEF RecvPaired
  <2>4. CASE RecvWait(r)
    <3>1. Append(recvWaiters, r) \in Seq(Receivers)
      BY <1>0, AppendList
    <3> QED
      BY <1>0, <2>4, <3>1 DEF RecvWait
  <2>5. CASE RecvEmpty(r)
    BY <1>0, <2>5 DEF RecvEmpty
  <2>6. CASE DataSignaled(r)
    BY <1>0, <2>6 DEF DataSignaled
  <2>7. CASE DataTimeout(r)
    BY <1>0, <2>7 DEF DataTimeout
  <2>8. CASE RecvSignaled(r)
    BY <1>0, <2>8 DEF RecvSignaled
  <2>9. CASE RecvExpired(r)
    BY <1>0, <2>9 DEF RecvExpired
  <2>10. CASE RecvLeave(r)
    <3>1. Unlist(recvWaiters, r) \in Seq(Receivers)
      BY <1>0, UnlistList DEF Lists
    <3>2. /\ value' \in [Receivers -> Senders \cup {None}]
          /\ result' \in [Calls -> {"none", "true", "false"}]
      BY <1>0, <2>10 DEF RecvLeave
    <3>3. pc' = [pc EXCEPT ![r] = "done"]
      BY <2>10 DEF RecvLeave
    <3> QED
      BY <1>0, <2>10, <3>1, <3>2, <3>3 DEF RecvLeave
  <2> QED
    BY <1>4, <2>1, <2>2, <2>3, <2>4, <2>5, <2>6, <2>7, <2>8, <2>9, <2>10 DEF RecvStep
<1>5. ASSUME NEW c \in Closers, Close(c) PROVE TypeOK'
  <2>1. <<>> \in Seq(Receivers) /\ <<>> \in Seq(Senders)
    OBVIOUS
  <2>2. /\ success' \in [Senders \cup Receivers -> BOOLEAN]
        /\ signal' \in [Senders \cup Receivers -> BOOLEAN]
    BY <1>0, <1>5 DEF Close
  <2> QED
    BY <1>0, <1>5, <2>1, <2>2 DEF Close
<1>6. ASSUME NEW x \in Senders \cup Receivers, Expire(x) PROVE TypeOK'
  BY <1>0, <1>6 DEF Expire
<1> QED
  BY <1>1, <1>2, <1>3, <1>4, <1>5, <1>6 DEF Next

\* Every step keeps the waiter lists: pairing, unlisting and Close remove who is woken.
LEMMA ListsStep == CInv /\ Next => Lists'
<1> SUFFICES ASSUME CInv, Next PROVE Lists'
  OBVIOUS
<1> USE ChannelAssumption DEF Lists, Goto, Return, Pair, NewWaiter
<1>0. TypeOK /\ Lists /\ ByCapacity
  BY DEF CInv
<1>a. ToSet(recvWaiters) \subseteq Receivers /\ ToSet(sendWaiters) \subseteq Senders
  BY <1>0, ListMembers
<1>b. ToSet(<<>>) = {} /\ NoRepeat(<<>>)
  BY EmptyList, <1>0 DEF TypeOK
<1>c. /\ pc \in [Calls -> Locations]
      /\ signal \in [Senders \cup Receivers -> BOOLEAN]
      /\ recvWaiters \in Seq(Receivers) /\ sendWaiters \in Seq(Senders)
  BY <1>0 DEF TypeOK
<1>d. ASSUME NEW x \in Senders \cup Receivers, NEW l, pc' = [pc EXCEPT ![x] = l],
             UNCHANGED <<recvWaiters, sendWaiters, signal>>,
             l = "late" \/ pc[x] \notin {"handoff", "late"} \/ signal[x]
      PROVE  Lists'
  BY <1>0, <1>a, <1>c, <1>d DEF Calls
<1>1. ASSUME NEW s \in Senders, Send(s) PROVE Lists'
  BY <1>1, <1>d DEF Send, Begin
<1>2. ASSUME NEW s \in Senders, SendStep(s) PROVE Lists'
  <2>1. CASE SendClosed(s) \/ SendBuffered(s) \/ SendFull(s)
    BY <1>d, <2>1 DEF SendClosed, SendBuffered, SendFull
  <2>2. CASE SpaceSignaled(s) \/ SpaceTimeout(s)
    BY <1>d, <2>2 DEF SpaceSignaled, SpaceTimeout
  <2>3. CASE SendSignaled(s) \/ SendSlice(s)
    BY <1>d, <2>3 DEF SendSignaled, SendSlice
  <2>4. CASE SendPaired(s)
    <3>1. /\ Head(recvWaiters) \in Receivers /\ NoRepeat(Tail(recvWaiters))
          /\ ToSet(Tail(recvWaiters)) = ToSet(recvWaiters) \ {Head(recvWaiters)}
      BY <1>0, <1>c, <2>4, TailList DEF SendPaired
    <3>2. sendWaiters = <<>> /\ ToSet(sendWaiters) = {}
      BY <1>0, <1>b, <2>4 DEF SendPaired
    <3>3. s \notin ToSet(recvWaiters) /\ s \in Calls
      BY <1>a DEF Calls
    <3> QED
      BY <1>0, <1>a, <1>c, <2>4, <3>1, <3>2, <3>3 DEF SendPaired
  <2>5. CASE SendWait(s)
    <3>1. recvWaiters = <<>> /\ ToSet(recvWaiters) = {}
      BY <1>b, <2>5 DEF SendWait
    <3>2. s \notin ToSet(sendWaiters) /\ s \in Calls
      BY <1>0, <2>5 DEF SendWait, Calls
    <3>3. /\ NoRepeat(Append(sendWaiters, s))
          /\ ToSet(Append(sendWaiters, s)) = ToSet(sendWaiters) \cup {s}
      BY <1>0, <1>c, <3>2, AppendList
    <3>4. UNCHANGED recvWaiters /\ sendWaiters' = Append(sendWaiters, s)
          /\ pc' = [pc EXCEPT ![s] = "handoff"] /\ signal' = [signal EXCEPT ![s] = FALSE]
      BY <2>5 DEF SendWait
    <3> QED
      BY <1>0, <1>a, <1>c, <3>1, <3>2, <3>3, <3>4
  <2>6. CASE SendLeave(s)
    <3>1. NoRepeat(Unlist(sendWaiters, s)) /\ ToSet(Unlist(sendWaiters, s)) = ToSet(sendWaiters) \ {s}
      BY <1>0, <1>c, UnlistList
    <3>2. sendWaiters = <<>> => Unlist(sendWaiters, s) = <<>>
      BY <1>b DEF Unlist
    <3>3. s \notin ToSet(recvWaiters) /\ s \in Calls
      BY <1>a DEF Calls
    <3> QED
      BY <1>0, <1>a, <1>c, <2>6, <3>1, <3>2, <3>3 DEF SendLeave
  <2> QED
    BY <1>2, <2>1, <2>2, <2>3, <2>4, <2>5, <2>6 DEF SendStep
<1>3. ASSUME NEW r \in Receivers, Recv(r) PROVE Lists'
  BY <1>3, <1>d DEF Recv, Begin
<1>4. ASSUME NEW r \in Receivers, RecvStep(r) PROVE Lists'
  <2>1. CASE RecvBuffered(r) \/ RecvClosed(r) \/ RecvEmpty(r)
    BY <1>d, <2>1 DEF RecvBuffered, RecvClosed, RecvEmpty
  <2>2. CASE DataSignaled(r) \/ DataTimeout(r)
    BY <1>d, <2>2 DEF DataSignaled, DataTimeout
  <2>3. CASE RecvSignaled(r) \/ RecvExpired(r)
    BY <1>d, <2>3 DEF RecvSignaled, RecvExpired
  <2>4. CASE RecvPaired(r)
    <3>1. /\ Head(sendWaiters) \in Senders /\ NoRepeat(Tail(sendWaiters))
          /\ ToSet(Tail(sendWaiters)) = ToSet(sendWaiters) \ {Head(sendWaiters)}
      BY <1>0, <1>c, <2>4, TailList DEF RecvPaired
    <3>2. recvWaiters = <<>> /\ ToSet(recvWaiters) = {}
      BY <1>0, <1>b, <2>4 DEF RecvPaired
    <3>3. r \notin ToSet(sendWaiters) /\ r \in Calls
      BY <1>a DEF Calls
    <3> QED
      BY <1>0, <1>a, <1>c, <2>4, <3>1, <3>2, <3>3 DEF RecvPaired
  <2>5. CASE RecvWait(r)
    <3>1. sendWaiters = <<>> /\ ToSet(sendWaiters) = {}
      BY <1>b, <2>5 DEF RecvWait
    <3>2. r \notin ToSet(recvWaiters) /\ r \in Calls
      BY <1>0, <2>5 DEF RecvWait, Calls
    <3>3. /\ NoRepeat(Append(recvWaiters, r))
          /\ ToSet(Append(recvWaiters, r)) = ToSet(recvWaiters) \cup {r}
      BY <1>0, <1>c, <3>2, AppendList
    <3>4. UNCHANGED sendWaiters /\ recvWaiters' = Append(recvWaiters, r)
          /\ pc' = [pc EXCEPT ![r] = "handoff"] /\ signal' = [signal EXCEPT ![r] = FALSE]
      BY <2>5 DEF RecvWait
    <3> QED
      BY <1>0, <1>a, <1>c, <3>1, <3>2, <3>3, <3>4
  <2>6. CASE RecvLeave(r)
    <3>1. NoRepeat(Unlist(recvWaiters, r)) /\ ToSet(Unlist(recvWaiters, r)) = ToSet(recvWaiters) \ {r}
      BY <1>0, <1>c, UnlistList
    <3>2. recvWaiters = <<>> => Unlist(recvWaiters, r) = <<>>
      BY <1>b DEF Unlist
    <3>3. r \notin ToSet(sendWaiters) /\ r \in Calls
      BY <1>a DEF Calls
    <3>4. pc' = [pc EXCEPT ![r] = "done"] /\ recvWaiters' = Unlist(recvWaiters, r)
          /\ UNCHANGED <<sendWaiters, signal>>
      BY <2>6 DEF RecvLeave
    <3> QED
      BY <1>0, <1>a, <1>c, <3>1, <3>2, <3>3, <3>4
  <2> QED
    BY <1>4, <2>1, <2>2, <2>3, <2>4, <2>5, <2>6 DEF RecvStep
<1>5. ASSUME NEW c \in Closers, Close(c) PROVE Lists'
  BY <1>b, <1>5 DEF Close
<1>6. ASSUME NEW x \in Senders \cup Receivers, Expire(x) PROVE Lists'
  BY <1>0, <1>6 DEF Expire
<1> QED
  BY <1>1, <1>2, <1>3, <1>4, <1>5, <1>6 DEF Next

\* Every step keeps buffered and rendezvous calls apart.
LEMMA CapacityStep == CInv /\ Next => ByCapacity'
<1> SUFFICES ASSUME CInv, Next PROVE ByCapacity'
  OBVIOUS
<1> USE ChannelAssumption DEF ByCapacity, Goto, Return
<1>0. ByCapacity /\ pc \in [Calls -> Locations]
  BY DEF CInv, TypeOK
<1>d. ASSUME NEW x \in Senders \cup Receivers, NEW l, pc' = [pc EXCEPT ![x] = l],
             UNCHANGED <<capacity, queue, recvWaiters, sendWaiters>>,
             l \in {"handoff", "paired", "late"} => pc[x] \in {"handoff", "paired", "late"}
      PROVE  ByCapacity'
  BY <1>0, <1>d DEF Calls
<1>1. ASSUME NEW s \in Senders, Send(s) PROVE ByCapacity'
  BY <1>1, <1>d DEF Send, Begin
<1>2. ASSUME NEW s \in Senders, SendStep(s) PROVE ByCapacity'
  <2>1. CASE SendClosed(s) \/ SendFull(s)
    BY <1>d, <2>1 DEF SendClosed, SendFull
  <2>2. CASE SendBuffered(s)
    BY <1>0, <2>2 DEF SendBuffered, Calls
  <2>3. CASE SpaceSignaled(s) \/ SpaceTimeout(s)
    BY <1>d, <2>3 DEF SpaceSignaled, SpaceTimeout
  <2>4. CASE SendSignaled(s) \/ SendSlice(s)
    BY <1>d, <2>4 DEF SendSignaled, SendSlice
  <2>5. CASE SendPaired(s)
    BY <1>0, <2>5 DEF SendPaired
  <2>6. CASE SendWait(s)
    BY <1>0, <2>6 DEF SendWait
  <2>7. CASE SendLeave(s)
    <3>1. capacity = 0
      BY <1>0, <2>7 DEF SendLeave
    <3> QED
      BY <1>0, <2>7, <3>1 DEF SendLeave
  <2> QED
    BY <1>2, <2>1, <2>2, <2>3, <2>4, <2>5, <2>6, <2>7 DEF SendStep
<1>3. ASSUME NEW r \in Receivers, Recv(r) PROVE ByCapacity'
  BY <1>3, <1>d DEF Recv, Begin
<1>4. ASSUME NEW r \in Receivers, RecvStep(r) PROVE ByCapacity'
  <2>1. CASE RecvClosed(r) \/ RecvEmpty(r)
    BY <1>d, <2>1 DEF RecvClosed, RecvEmpty
  <2>2. CASE RecvBuffered(r)
    BY <1>0, <2>2 DEF RecvBuffered, Calls
  <2>3. CASE DataSignaled(r) \/ DataTimeout(r)
    BY <1>d, <2>3 DEF DataSignaled, DataTimeout
  <2>4. CASE RecvSignaled(r) \/ RecvExpired(r)
    BY <1>d, <2>4 DEF RecvSignaled, RecvExpired
  <2>5. CASE RecvPaired(r)
    BY <1>0, <2>5 DEF RecvPaired
  <2>6. CASE RecvWait(r)
    BY <1>0, <2>6 DEF RecvWait
  <2>7. CASE RecvLeave(r)
    <3>1. capacity = 0 /\ UNCHANGED <<capacity, queue>>
      BY <1>0, <2>7 DEF RecvLeave
    <3> QED
      BY <1>0, <3>1
  <2> QED
    BY <1>4, <2>1, <2>2, <2>3, <2>4, <2>5, <2>6, <2>7 DEF RecvStep
<1>5. ASSUME NEW c \in Closers, Close(c) PROVE ByCapacity'
  BY <1>0, <1>5 DEF Close, Calls
<1>6. ASSUME NEW x \in Senders \cup Receivers, Expire(x) PROVE ByCapacity'
  BY <1>0, <1>6 DEF Expire
<1> QED
  BY <1>1, <1>2, <1>3, <1>4, <1>5, <1>6 DEF Next

\* Every step keeps the order in which a call goes through its sections.
LEMMA StagesStep == CInv /\ Next => Stages'
<1> SUFFICES ASSUME CInv, Next PROVE Stages'
  OBVIOUS
<1> USE ChannelAssumption DEF Stages, Goto, Return
<1>0. /\ Stages /\ pc \in [Calls -> Locations] /\ result \in [Calls -> {"none", "true", "false"}]
      /\ mode \in [Calls -> {"none", "forever", "timed", "try"}] /\ expired \in [Calls -> BOOLEAN]
  BY DEF CInv, TypeOK
<1>c. Senders \subseteq Calls /\ Receivers \subseteq Calls /\ Closers \subseteq Calls
  BY DEF Calls
<1>d. ASSUME NEW x \in Senders \cup Receivers, NEW l, NEW a,
             pc' = [pc EXCEPT ![x] = l], result' = [result EXCEPT ![x] = a],
             UNCHANGED <<mode, expired>>, l \in {"late", "paired", "done"}, x \in Receivers => l = "done",
             l = "late" => mode[x] = "timed"
      PROVE  Stages'
  BY <1>0, <1>c, <1>d
<1>e. ASSUME NEW x \in Senders \cup Receivers, NEW l, pc' = [pc EXCEPT ![x] = l],
             UNCHANGED <<result, mode, expired>>, result[x] = "none" \/ l = "done", l # "none",
             l = "late" => x \in Receivers /\ mode[x] # "forever"
      PROVE  Stages'
  BY <1>0, <1>c, <1>e
<1>f. /\ \A x \in Senders : pc[x] \notin {"paired", "late", "done"} => result[x] = "none"
      /\ \A x \in Receivers : pc[x] # "done" => result[x] = "none"
  BY <1>0
<1>g. ASSUME NEW x \in Senders \cup Receivers, NEW modes, Begin(x, modes) PROVE Stages'
  <2>1. PICK m : mode' = [mode EXCEPT ![x] = m]
    BY <1>g DEF Begin
  <2>2. pc[x] = "none" /\ pc' = [pc EXCEPT ![x] = "try"] /\ UNCHANGED <<result, expired>>
    BY <1>g DEF Begin
  <2> QED
    BY <1>0, <1>c, <1>f, <2>1, <2>2
<1>1. ASSUME NEW s \in Senders, Send(s) PROVE Stages'
  BY <1>1, <1>g DEF Send
<1>2. ASSUME NEW s \in Senders, SendStep(s) PROVE Stages'
  <2>1. CASE SendClosed(s) \/ SendBuffered(s) \/ SendPaired(s)
    <3>1. PICK a : pc' = [pc EXCEPT ![s] = "done"] /\ result' = [result EXCEPT ![s] = a]
      BY <2>1 DEF SendClosed, SendBuffered, SendPaired
    <3>2. UNCHANGED <<mode, expired>>
      BY <2>1 DEF SendClosed, SendBuffered, SendPaired
    <3> QED
      BY <1>d, <3>1, <3>2
  <2>2. CASE SendFull(s) \/ SendWait(s) \/ SpaceSignaled(s)
    BY <1>e, <1>f, <2>2 DEF SendFull, SendWait, SpaceSignaled
  <2>3. CASE SpaceTimeout(s)
    BY <1>d, <1>e, <1>f, <2>3 DEF SpaceTimeout
  <2>4. CASE SendSignaled(s) \/ SendSlice(s)
    BY <1>d, <2>4 DEF SendSignaled, SendSlice
  <2>5. CASE SendLeave(s)
    BY <1>e, <2>5 DEF SendLeave
  <2> QED
    BY <1>2, <2>1, <2>2, <2>3, <2>4, <2>5 DEF SendStep
<1>3. ASSUME NEW r \in Receivers, Recv(r) PROVE Stages'
  BY <1>3, <1>g DEF Recv
<1>4. ASSUME NEW r \in Receivers, RecvStep(r) PROVE Stages'
  <2>1. CASE RecvBuffered(r) \/ RecvClosed(r) \/ RecvPaired(r) \/ DataTimeout(r) \/ RecvLeave(r)
    <3>1. PICK a : pc' = [pc EXCEPT ![r] = "done"] /\ result' = [result EXCEPT ![r] = a]
      BY <2>1 DEF RecvBuffered, RecvClosed, RecvPaired, DataTimeout, RecvLeave
    <3>2. UNCHANGED <<mode, expired>>
      BY <2>1 DEF RecvBuffered, RecvClosed, RecvPaired, DataTimeout, RecvLeave
    <3> QED
      BY <1>d, <3>1, <3>2
  <2>2. CASE RecvWait(r) \/ DataSignaled(r) \/ RecvSignaled(r)
    BY <1>e, <1>f, <2>2 DEF RecvWait, DataSignaled, RecvSignaled
  <2>3. CASE RecvEmpty(r)
    <3>1. UNCHANGED <<mode, expired>> /\ result[r] = "none"
      BY <1>f, <2>3 DEF RecvEmpty
    <3>2. CASE Return(r, FALSE)
      BY <1>d, <3>1, <3>2
    <3>3. CASE Goto(r, "data")
      BY <1>e, <3>1, <3>3
    <3> QED
      BY <2>3, <3>2, <3>3 DEF RecvEmpty
  <2>4. CASE RecvExpired(r)
    <3>1. mode[r] # "forever" /\ result[r] = "none"
      BY <1>0, <1>f, <2>4 DEF RecvExpired
    <3> QED
      BY <1>e, <2>4, <3>1 DEF RecvExpired
  <2> QED
    BY <1>4, <2>1, <2>2, <2>3, <2>4 DEF RecvStep
<1>5. ASSUME NEW c \in Closers, Close(c) PROVE Stages'
  BY <1>0, <1>c, <1>5 DEF Close
<1>6. ASSUME NEW x \in Senders \cup Receivers, Expire(x) PROVE Stages'
  BY <1>0, <1>c, <1>6 DEF Expire
<1> QED
  BY <1>1, <1>2, <1>3, <1>4, <1>5, <1>6 DEF Next

\* Every step moves a value from its one owner to the next.
LEMMA OwnerStep == CInv /\ Next => OneOwner'
<1> SUFFICES ASSUME CInv, Next PROVE OneOwner'
  OBVIOUS
<1> USE ChannelAssumption DEF OneOwner, Unseen
<1>0. TypeOK /\ OneOwner /\ Lists
  BY DEF CInv
<1>a. ToSet(sendWaiters) \subseteq Senders /\ ToSet(queue) \subseteq Senders
  BY <1>0, ListMembers
<1>b. ToSet(<<>>) = {} /\ NoRepeat(<<>>)
  BY EmptyList, <1>0 DEF TypeOK
<1>c. /\ pc \in [Calls -> Locations] /\ value \in [Receivers -> Senders \cup {None}]
      /\ queue \in Seq(Senders) /\ sendWaiters \in Seq(Senders) /\ recvWaiters \in Seq(Receivers)
      /\ Senders \subseteq Calls /\ Receivers \subseteq Calls /\ Closers \subseteq Calls
  BY <1>0 DEF TypeOK, Calls
<1>d. ASSUME NEW x \in Calls, NEW l, pc' = [pc EXCEPT ![x] = l],
             UNCHANGED <<queue, value>>, ToSet(sendWaiters') \subseteq ToSet(sendWaiters),
             l \in {"none", "try", "space"} => x \in Receivers \/ pc[x] \in {"none", "try", "space"}
      PROVE  OneOwner'
  BY <1>0, <1>c, <1>d
<1>1. ASSUME NEW s \in Senders, Send(s) PROVE OneOwner'
  BY <1>1, <1>c, <1>d DEF Send, Begin, Goto
<1>2. ASSUME NEW s \in Senders, SendStep(s) PROVE OneOwner'
  <2>1. CASE SendClosed(s) \/ SendFull(s)
    BY <1>c, <1>d, <2>1 DEF SendClosed, SendFull, Goto, Return
  <2>2. CASE SpaceSignaled(s) \/ SpaceTimeout(s)
    BY <1>c, <1>d, <2>2 DEF SpaceSignaled, SpaceTimeout, Goto, Return
  <2>3. CASE SendSignaled(s) \/ SendSlice(s)
    BY <1>c, <1>d, <2>3 DEF SendSignaled, SendSlice
  <2>4. CASE SendLeave(s)
    <3>1. ToSet(Unlist(sendWaiters, s)) \subseteq ToSet(sendWaiters)
      BY <1>0, <1>c, UnlistList DEF Lists
    <3> QED
      BY <1>c, <1>d, <2>4, <3>1 DEF SendLeave, Goto
  <2>5. CASE SendBuffered(s)
    <3>1. Unseen(s) /\ s \notin ToSet(sendWaiters) /\ s \notin ToSet(queue)
      BY <1>0, <2>5 DEF SendBuffered, Lists
    <3>2. NoRepeat(queue') /\ ToSet(queue') = ToSet(queue) \cup {s}
      BY <1>0, <1>c, <2>5, <3>1, AppendList DEF SendBuffered
    <3>3. pc' = [pc EXCEPT ![s] = "done"] /\ UNCHANGED <<value, sendWaiters>>
      BY <2>5 DEF SendBuffered, Return
    <3> QED
      BY <1>0, <1>a, <1>c, <3>1, <3>2, <3>3
  <2>6. CASE SendPaired(s)
    <3>1. Unseen(s) /\ s \notin ToSet(sendWaiters) /\ s \notin ToSet(queue)
      BY <1>0, <2>6 DEF SendPaired, Lists
    <3>2. PICK h \in Receivers : value' = [value EXCEPT ![h] = s]
      BY <1>c, <2>6, TailList DEF SendPaired
    <3>3. pc' = [pc EXCEPT ![s] = "done"] /\ UNCHANGED <<queue, sendWaiters>>
      BY <2>6 DEF SendPaired, Return
    <3> QED
      BY <1>0, <1>a, <1>c, <3>1, <3>2, <3>3
  <2>7. CASE SendWait(s)
    <3>1. Unseen(s)
      BY <1>0, <2>7 DEF SendWait
    <3>2. ToSet(sendWaiters') = ToSet(sendWaiters) \cup {s}
      BY <1>c, <2>7, AppendList DEF SendWait
    <3>3. pc' = [pc EXCEPT ![s] = "handoff"] /\ UNCHANGED <<queue, value>>
      BY <2>7 DEF SendWait, Goto
    <3> QED
      BY <1>0, <1>a, <1>c, <3>1, <3>2, <3>3
  <2> QED
    BY <1>2, <2>1, <2>2, <2>3, <2>4, <2>5, <2>6, <2>7 DEF SendStep
<1>3. ASSUME NEW r \in Receivers, Recv(r) PROVE OneOwner'
  BY <1>3, <1>c, <1>d DEF Recv, Begin, Goto
<1>4. ASSUME NEW r \in Receivers, RecvStep(r) PROVE OneOwner'
  <2>1. CASE RecvClosed(r) \/ RecvWait(r)
    BY <1>c, <1>d, <2>1 DEF RecvClosed, RecvWait, Goto, Return
  <2>2. CASE RecvEmpty(r)
    BY <1>c, <1>d, <2>2 DEF RecvEmpty, Goto, Return
  <2>3. CASE DataSignaled(r) \/ DataTimeout(r)
    BY <1>c, <1>d, <2>3 DEF DataSignaled, DataTimeout, Goto, Return
  <2>4. CASE RecvSignaled(r) \/ RecvExpired(r)
    BY <1>c, <1>d, <2>4 DEF RecvSignaled, RecvExpired, Goto
  <2>5. CASE RecvBuffered(r)
    <3> DEFINE h == Head(queue)
    <3>1. h \in Senders /\ h \in ToSet(queue) /\ NoRepeat(queue') /\ ToSet(queue') = ToSet(queue) \ {h}
      BY <1>0, <1>c, <2>5, TailList DEF RecvBuffered
    <3>2. /\ value' = [value EXCEPT ![r] = h] /\ pc' = [pc EXCEPT ![r] = "done"]
          /\ UNCHANGED sendWaiters
      BY <2>5 DEF RecvBuffered, Return
    <3> HIDE DEF h
    <3> QED
      BY <1>0, <1>a, <1>c, <3>1, <3>2
  <2>6. CASE RecvPaired(r)
    <3> DEFINE h == Head(sendWaiters)
    <3>1. h \in Senders /\ h \in ToSet(sendWaiters) /\ ToSet(sendWaiters') = ToSet(sendWaiters) \ {h}
      BY <1>0, <1>c, <2>6, TailList DEF RecvPaired, Lists
    <3>2. /\ value' = [value EXCEPT ![r] = h] /\ pc' = [pc EXCEPT ![r] = "done"]
          /\ UNCHANGED queue
      BY <2>6 DEF RecvPaired, Return
    <3> HIDE DEF h
    <3>3. Unseen(h) /\ pc[h] \in {"handoff", "late"}
      BY <1>0, <3>1 DEF Lists
    <3> QED
      BY <1>0, <1>a, <1>c, <3>1, <3>2, <3>3
  <2>7. CASE RecvLeave(r)
    <3>1. pc' = [pc EXCEPT ![r] = "done"] /\ UNCHANGED <<queue, sendWaiters>>
      BY <2>7 DEF RecvLeave, Return
    <3>2. CASE UNCHANGED value
      BY <1>c, <1>d, <3>1, <3>2
    <3>3. CASE value' = [value EXCEPT ![r] = None]
      BY <1>0, <1>a, <1>c, <3>1, <3>3
    <3> QED
      BY <2>7, <3>2, <3>3 DEF RecvLeave
  <2> QED
    BY <1>4, <2>1, <2>2, <2>3, <2>4, <2>5, <2>6, <2>7 DEF RecvStep
<1>5. ASSUME NEW c \in Closers, Close(c) PROVE OneOwner'
  <2>1. /\ pc' = [pc EXCEPT ![c] = "done"] /\ ToSet(sendWaiters') \subseteq ToSet(sendWaiters)
        /\ UNCHANGED <<queue, value>>
    BY <1>b, <1>5 DEF Close, Return
  <2> QED
    BY <1>c, <1>d, <2>1
<1>6. ASSUME NEW x \in Senders \cup Receivers, Expire(x) PROVE OneOwner'
  BY <1>0, <1>6 DEF Expire
<1> QED
  BY <1>1, <1>2, <1>3, <1>4, <1>5, <1>6 DEF Next

\* Every step gives a value only to a receiver that takes it or is woken with it.
LEMMA HandedStep == CInv /\ Next => Handed'
<1> SUFFICES ASSUME CInv, Next PROVE Handed'
  OBVIOUS
<1> USE ChannelAssumption DEF Handed
<1>0. TypeOK /\ Handed /\ Lists /\ ByCapacity
  BY DEF CInv
<1>a. ToSet(recvWaiters) \subseteq Receivers /\ ToSet(sendWaiters) \subseteq Senders
  BY <1>0, ListMembers
<1>c. /\ pc \in [Calls -> Locations] /\ value \in [Receivers -> Senders \cup {None}]
      /\ result \in [Calls -> {"none", "true", "false"}]
      /\ signal \in [Senders \cup Receivers -> BOOLEAN]
      /\ success \in [Senders \cup Receivers -> BOOLEAN]
      /\ recvWaiters \in Seq(Receivers) /\ sendWaiters \in Seq(Senders) /\ queue \in Seq(Senders)
      /\ Senders \subseteq Calls /\ Receivers \subseteq Calls /\ Closers \subseteq Calls
  BY <1>0 DEF TypeOK, Calls
<1>d. ASSUME \A r \in Receivers : /\ pc'[r] = pc[r] /\ result'[r] = result[r]
                                  /\ success'[r] = success[r] /\ signal'[r] = signal[r],
             UNCHANGED <<capacity, value>>, ToSet(recvWaiters') \subseteq ToSet(recvWaiters)
      PROVE  Handed'
  BY <1>0, <1>d
<1>e. ASSUME NEW r \in Receivers, NEW l, pc' = [pc EXCEPT ![r] = l],
             \A q \in Receivers : q # r => result'[q] = result[q],
             UNCHANGED <<capacity, value, success, signal>>,
             ToSet(recvWaiters') \subseteq ToSet(recvWaiters), pc[r] # "done",
             l \in {"none", "try", "data"} => pc[r] \in {"none", "try", "data"},
             l \in {"handoff", "paired"} => pc[r] \in {"handoff", "paired"}
      PROVE  Handed'
  BY <1>0, <1>c, <1>e
<1>1. ASSUME NEW s \in Senders, Send(s) PROVE Handed'
  BY <1>1, <1>c, <1>d DEF Send, Begin, Goto
<1>2. ASSUME NEW s \in Senders, SendStep(s) PROVE Handed'
  <2>0. \A r \in Receivers : r # s
    OBVIOUS
  <2>1. CASE SendClosed(s) \/ SendFull(s) \/ SendBuffered(s)
    BY <1>c, <1>d, <2>0, <2>1 DEF SendClosed, SendFull, SendBuffered, Goto, Return
  <2>2. CASE SpaceSignaled(s) \/ SpaceTimeout(s)
    BY <1>c, <1>d, <2>0, <2>2 DEF SpaceSignaled, SpaceTimeout, Goto, Return
  <2>3. CASE SendSignaled(s) \/ SendSlice(s) \/ SendLeave(s)
    BY <1>c, <1>d, <2>0, <2>3 DEF SendSignaled, SendSlice, SendLeave, Goto
  <2>4. CASE SendPaired(s)
    <3> DEFINE h == Head(recvWaiters)
    <3>1. /\ h \in Receivers /\ h \in ToSet(recvWaiters)
          /\ ToSet(recvWaiters') = ToSet(recvWaiters) \ {h}
      BY <1>0, <1>c, <2>4, TailList DEF SendPaired, Lists
    <3>2. /\ value' = [value EXCEPT ![h] = s] /\ success' = [success EXCEPT ![h] = TRUE]
          /\ signal' = [signal EXCEPT ![h] = TRUE] /\ pc' = [pc EXCEPT ![s] = "done"]
          /\ capacity = 0 /\ UNCHANGED capacity
      BY <2>4 DEF SendPaired, Return, Pair
    <3> HIDE DEF h
    <3>3. pc[h] \in {"handoff", "late"}
      BY <1>0, <3>1 DEF Lists
    <3> QED
      BY <1>0, <1>a, <1>c, <2>0, <3>1, <3>2, <3>3
  <2>5. CASE SendWait(s)
    BY <1>c, <1>d, <2>0, <2>5 DEF SendWait, NewWaiter, Goto
  <2> QED
    BY <1>2, <2>1, <2>2, <2>3, <2>4, <2>5 DEF SendStep
<1>3. ASSUME NEW r \in Receivers, Recv(r) PROVE Handed'
  BY <1>3, <1>c, <1>e DEF Recv, Begin, Goto
<1>4. ASSUME NEW r \in Receivers, RecvStep(r) PROVE Handed'
  <2>1. CASE RecvClosed(r) \/ RecvEmpty(r)
    BY <1>c, <1>e, <2>1 DEF RecvClosed, RecvEmpty, Goto, Return
  <2>2. CASE DataSignaled(r) \/ DataTimeout(r)
    BY <1>c, <1>e, <2>2 DEF DataSignaled, DataTimeout, Goto, Return
  <2>3. CASE RecvSignaled(r) \/ RecvExpired(r)
    BY <1>c, <1>e, <2>3 DEF RecvSignaled, RecvExpired, Goto
  <2>4. CASE RecvWait(r)
    <3>1. ToSet(recvWaiters') = ToSet(recvWaiters) \cup {r} /\ value[r] = None
      BY <1>0, <1>c, <2>4, AppendList DEF RecvWait
    <3>2. /\ pc' = [pc EXCEPT ![r] = "handoff"] /\ success' = [success EXCEPT ![r] = FALSE]
          /\ signal' = [signal EXCEPT ![r] = FALSE] /\ UNCHANGED <<capacity, value, result>>
          /\ capacity = 0
      BY <2>4 DEF RecvWait, NewWaiter, Goto
    <3> QED
      BY <1>0, <1>a, <1>c, <3>1, <3>2
  <2>5. CASE RecvBuffered(r)
    <3>1. /\ value' = [value EXCEPT ![r] = Head(queue)] /\ pc' = [pc EXCEPT ![r] = "done"]
          /\ result' = [result EXCEPT ![r] = "true"]
          /\ UNCHANGED <<capacity, recvWaiters, success, signal>> /\ pc[r] = "try"
      BY <2>5 DEF RecvBuffered, Return
    <3>2. r \notin ToSet(recvWaiters)
      BY <1>0, <3>1 DEF Lists
    <3> QED
      BY <1>0, <1>a, <1>c, <3>1, <3>2
  <2>6. CASE RecvPaired(r)
    <3> DEFINE h == Head(sendWaiters)
    <3>1. h \in Senders
      BY <1>c, <2>6, TailList DEF RecvPaired
    <3>2. /\ value' = [value EXCEPT ![r] = h] /\ pc' = [pc EXCEPT ![r] = "done"]
          /\ success' = [success EXCEPT ![h] = TRUE] /\ signal' = [signal EXCEPT ![h] = TRUE]
          /\ UNCHANGED <<capacity, recvWaiters>> /\ capacity = 0 /\ pc[r] = "try"
      BY <2>6 DEF RecvPaired, Return, Pair
    <3> HIDE DEF h
    <3>3. r \notin ToSet(recvWaiters) /\ h \notin Receivers
      BY <1>0, <3>1, <3>2 DEF Lists
    <3> QED
      BY <1>0, <1>a, <1>c, <3>1, <3>2, <3>3
  <2>7. CASE RecvLeave(r)
    <3>1. /\ pc' = [pc EXCEPT ![r] = "done"] /\ UNCHANGED <<capacity, success, signal>>
          /\ pc[r] # "done"
      BY <2>7 DEF RecvLeave, Return
    <3>2. \A q \in Receivers : q # r => result'[q] = result[q]
      BY <1>c, <2>7 DEF RecvLeave, Return
    <3>3. ToSet(recvWaiters') \subseteq ToSet(recvWaiters)
      BY <1>0, <1>c, <2>7, UnlistList DEF RecvLeave, Lists
    <3>4. CASE UNCHANGED value
      BY <1>c, <1>e, <3>1, <3>2, <3>3, <3>4
    <3>5. CASE value' = [value EXCEPT ![r] = None]
      BY <1>0, <1>a, <1>c, <3>1, <3>2, <3>3, <3>5
    <3> QED
      BY <2>7, <3>4, <3>5 DEF RecvLeave
  <2> QED
    BY <1>4, <2>1, <2>2, <2>3, <2>4, <2>5, <2>6, <2>7 DEF RecvStep
<1>5. ASSUME NEW c \in Closers, Close(c) PROVE Handed'
  <2> DEFINE W == ToSet(recvWaiters) \cup ToSet(sendWaiters)
  <2>1. /\ recvWaiters' = <<>> /\ UNCHANGED <<capacity, value>>
        /\ success' = [x \in Senders \cup Receivers |-> success[x] /\ x \notin W]
        /\ signal' = [x \in Senders \cup Receivers |-> signal[x] \/ x \in W]
        /\ pc' = [pc EXCEPT ![c] = "done"] /\ result' = [result EXCEPT ![c] = "true"]
    BY <1>5 DEF Close, Return
  <2>2. ToSet(recvWaiters') = {}
    BY <2>1, EmptyList, <1>c
  <2>3. \A r \in Receivers : pc'[r] = pc[r] /\ result'[r] = result[r]
    BY <1>c, <2>1
  <2>4. \A r \in Receivers : value[r] # None => r \notin W
    BY <1>0, <1>a
  <2> HIDE DEF W
  <2>5. \A r \in Receivers : value[r] # None => success'[r] = success[r] /\ signal'[r] = signal[r]
    BY <1>c, <2>1, <2>4
  <2> QED
    BY <1>0, <2>1, <2>2, <2>3, <2>5
<1>6. ASSUME NEW x \in Senders \cup Receivers, Expire(x) PROVE Handed'
  BY <1>0, <1>6 DEF Expire
<1> QED
  BY <1>1, <1>2, <1>3, <1>4, <1>5, <1>6 DEF Next

\* The capacity is set by Create and by nobody else.
LEMMA CapacityFixed == Next => UNCHANGED capacity
<1> SUFFICES ASSUME Next PROVE UNCHANGED capacity
  OBVIOUS
<1>1. ASSUME NEW s \in Senders, Send(s) \/ SendStep(s) PROVE UNCHANGED capacity
  BY <1>1
     DEF Send, Begin, SendStep, SendClosed, SendBuffered, SendFull, SendPaired, SendWait,
         SpaceSignaled, SpaceTimeout, SendSignaled, SendSlice, SendLeave
<1>2. ASSUME NEW r \in Receivers, Recv(r) \/ RecvStep(r) PROVE UNCHANGED capacity
  BY <1>2
     DEF Recv, Begin, RecvStep, RecvBuffered, RecvClosed, RecvPaired, RecvWait, RecvEmpty,
         DataSignaled, DataTimeout, RecvSignaled, RecvExpired, RecvLeave
<1> QED
  BY <1>1, <1>2 DEF Next, Close, Expire

\* Every step keeps the buffer the end of what was accepted.
LEMMA OrderStep == CInv /\ Next => Order'
<1> SUFFICES ASSUME CInv, Next, capacity > 0 PROVE Order'
  BY CapacityFixed DEF Order
<1>0. TypeOK /\ Order /\ ByCapacity /\ Handed
  BY DEF CInv
<1>1. CASE UNCHANGED <<queue, sent, value, capacity>>
  BY <1>0, <1>1 DEF Order
<1>a. /\ Len(queue) \in Nat /\ Len(sent) \in Nat /\ capacity \in Nat
      /\ queue \in Seq(Senders) /\ sent \in Seq(Senders)
      /\ Len(queue) <= Len(sent) /\ Len(queue) <= capacity
      /\ value \in [Receivers -> Senders \cup {None}]
  BY <1>0, LenProperties DEF TypeOK, Order, ByCapacity
<1>b. /\ \A i \in 1 .. Len(queue) : queue[i] = sent[Len(sent) - Len(queue) + i]
      /\ \A i \in 1 .. (Len(sent) - Len(queue)) : \E r \in Receivers : value[r] = sent[i]
  BY <1>0 DEF Order
<1>2. ASSUME NEW s \in Senders, SendBuffered(s) PROVE Order'
  <2>1. /\ queue' = Append(queue, s) /\ sent' = Append(sent, s) /\ UNCHANGED <<capacity, value>>
        /\ Len(queue) < capacity
    BY <1>2 DEF SendBuffered
  <2>2. /\ Len(queue') = Len(queue) + 1 /\ queue'[Len(queue) + 1] = s
        /\ \A i \in 1 .. Len(queue) : queue'[i] = queue[i]
    BY <1>a, <2>1, AppendProperties
  <2>3. /\ Len(sent') = Len(sent) + 1 /\ sent'[Len(sent) + 1] = s
        /\ \A i \in 1 .. Len(sent) : sent'[i] = sent[i]
    BY <1>a, <2>1, AppendProperties
  <2> DEFINE k == Len(queue)  n == Len(sent)
  <2>4. k \in Nat /\ n \in Nat /\ k <= n /\ capacity \in Nat /\ k < capacity
    BY <1>a, <2>1
  <2>5. ASSUME NEW i \in 1 .. (k + 1) PROVE queue'[i] = sent'[(n + 1) - (k + 1) + i]
    <3>1. CASE i = k + 1
      <4>1. (n + 1) - (k + 1) + i = n + 1
        BY <2>4, <3>1
      <4> QED
        BY <2>2, <2>3, <3>1, <4>1
    <3>2. CASE i # k + 1
      <4>1. i \in 1 .. k /\ (n + 1) - (k + 1) + i = n - k + i /\ n - k + i \in 1 .. n
        BY <2>4, <3>2
      <4> QED
        BY <1>b, <2>2, <2>3, <4>1
    <3> QED
      BY <3>1, <3>2
  <2>6. ASSUME NEW i \in 1 .. ((n + 1) - (k + 1)) PROVE \E r \in Receivers : value'[r] = sent'[i]
    <3>1. i \in 1 .. (n - k) /\ i \in 1 .. n
      BY <2>4
    <3> QED
      BY <1>b, <2>1, <2>3, <3>1
  <2>7. k + 1 <= n + 1 /\ k + 1 <= capacity
    BY <2>4
  <2> QED
    BY <2>1, <2>2, <2>3, <2>5, <2>6, <2>7 DEF Order
<1>3. ASSUME NEW r \in Receivers, RecvBuffered(r) PROVE Order'
  <2>1. /\ queue # <<>> /\ queue' = Tail(queue) /\ UNCHANGED <<capacity, sent>>
        /\ value' = [value EXCEPT ![r] = Head(queue)] /\ value[r] = None
    BY <1>0, <1>3 DEF RecvBuffered, Handed
  <2>2. /\ Len(queue') = Len(queue) - 1 /\ Len(queue) # 0
        /\ \A i \in 1 .. Len(queue') : queue'[i] = queue[i + 1]
    BY <1>a, <2>1, HeadTailProperties, EmptySeq
  <2>3. Head(queue) = queue[1]
    BY <2>1 DEF Head
  <2> DEFINE k == Len(queue)  n == Len(sent)
  <2>4. k \in Nat /\ n \in Nat /\ k <= n /\ k # 0 /\ capacity \in Nat /\ k <= capacity
    BY <1>a, <2>2
  <2>5. ASSUME NEW i \in 1 .. (k - 1) PROVE queue'[i] = sent[n - (k - 1) + i]
    <3>1. i + 1 \in 1 .. k /\ n - k + (i + 1) = n - (k - 1) + i
      BY <2>4
    <3>2. queue[i + 1] = sent[n - k + (i + 1)]
      BY <1>b, <3>1
    <3> QED
      BY <2>2, <3>1, <3>2
  <2>6. ASSUME NEW i \in 1 .. (n - (k - 1)) PROVE \E q \in Receivers : value'[q] = sent[i]
    <3>1. CASE i \in 1 .. (n - k)
      <4>1. PICK q \in Receivers : value[q] = sent[i]
        BY <1>b, <3>1
      <4>2. sent[i] \in Senders
        <5>1. i \in 1 .. Len(sent)
          BY <2>4, <3>1
        <5> QED
          BY <1>a, <5>1, ElementOfSeq
      <4>3. q # r
        BY <2>1, <4>1, <4>2, ChannelAssumption
      <4> QED
        BY <1>a, <2>1, <4>1, <4>3
    <3>2. CASE i \notin 1 .. (n - k)
      <4>1. i = n - k + 1 /\ 1 \in 1 .. k
        BY <2>4, <3>2
      <4>2. sent[i] = Head(queue)
        BY <1>b, <2>3, <4>1
      <4>3. value'[r] = Head(queue)
        BY <1>a, <2>1
      <4> QED
        BY <4>2, <4>3
    <3> QED
      BY <3>1, <3>2
  <2>7. k - 1 <= n /\ k - 1 <= capacity
    BY <2>4
  <2> QED
    BY <2>1, <2>2, <2>5, <2>6, <2>7 DEF Order
<1>4. ASSUME NEW s \in Senders PROVE ~SendPaired(s) /\ ~SendLeave(s)
  BY <1>0 DEF ByCapacity, SendPaired, SendLeave
<1>5. ASSUME NEW r \in Receivers PROVE ~RecvPaired(r) /\ ~RecvLeave(r)
  BY <1>0 DEF ByCapacity, RecvPaired, RecvLeave
<1>6. ASSUME NEW s \in Senders, Send(s) \/ SendStep(s) PROVE Order'
  BY <1>1, <1>2, <1>4, <1>6
     DEF SendStep, Send, Begin, SendClosed, SendFull, SendWait, SpaceSignaled, SpaceTimeout,
         SendSignaled, SendSlice
<1>7. ASSUME NEW r \in Receivers, Recv(r) \/ RecvStep(r) PROVE Order'
  BY <1>1, <1>3, <1>5, <1>7
     DEF RecvStep, Recv, Begin, RecvClosed, RecvWait, RecvEmpty, DataSignaled, DataTimeout,
         RecvSignaled, RecvExpired
<1> QED
  BY <1>1, <1>6, <1>7 DEF Next, Close, Expire

\* What the calls of a buffered channel are told.
LEMMA BufferedTold ==
  ASSUME CInv, Next, capacity > 0
  PROVE  \A s \in Senders :
           /\ result'[s] = "true" => s \in ToSet(queue') \/ \E r \in Receivers : value'[r] = s
           /\ result'[s] = "false" => Unseen(s)' /\ (expired'[s] \/ closed')
<1> DEFINE Goal == \A s \in Senders :
             /\ result'[s] = "true" => s \in ToSet(queue') \/ \E r \in Receivers : value'[r] = s
             /\ result'[s] = "false" => Unseen(s)' /\ (expired'[s] \/ closed')
<1> USE ChannelAssumption DEF Unseen
<1>0. TypeOK /\ Told /\ ByCapacity /\ Handed /\ OneOwner
  BY DEF CInv
<1>a. \A s \in Senders :
        /\ result[s] = "true" => s \in ToSet(queue) \/ \E r \in Receivers : value[r] = s
        /\ result[s] = "false" => Unseen(s) /\ (expired[s] \/ closed)
  BY <1>0 DEF Told
<1>b. \A s \in Senders : pc[s] \in {"try", "space"} => Unseen(s)
  BY <1>0 DEF OneOwner
<1>c. /\ result \in [Calls -> {"none", "true", "false"}] /\ expired \in [Calls -> BOOLEAN]
      /\ closed \in BOOLEAN /\ value \in [Receivers -> Senders \cup {None}] /\ queue \in Seq(Senders)
      /\ Senders \subseteq Calls /\ Receivers \subseteq Calls /\ Closers \subseteq Calls
  BY <1>0 DEF TypeOK, Calls
<1>d. ASSUME UNCHANGED <<queue, value>>, closed => closed',
             \A s \in Senders : result'[s] = result[s] /\ (expired[s] => expired'[s])
      PROVE  Goal
  BY <1>a, <1>d
<1>e. ASSUME NEW s \in Senders, UNCHANGED <<queue, value, closed, expired>>,
             result' = [result EXCEPT ![s] = "false"], pc[s] \in {"try", "space"}, expired[s] \/ closed
      PROVE  Goal
  BY <1>a, <1>b, <1>c, <1>e
<1>1. ASSUME NEW s \in Senders, Send(s) PROVE Goal
  BY <1>1, <1>d DEF Send, Begin, Goto
<1>2. ASSUME NEW s \in Senders, SendStep(s) PROVE Goal
  <2>1. CASE SendClosed(s)
    BY <1>e, <2>1 DEF SendClosed, Return
  <2>2. CASE SendFull(s) \/ SpaceSignaled(s)
    BY <1>d, <2>2 DEF SendFull, SpaceSignaled, Goto
  <2>3. CASE SpaceTimeout(s)
    BY <1>d, <1>e, <2>3 DEF SpaceTimeout, Goto, Return
  <2>4. CASE SendBuffered(s)
    <3>1. ToSet(queue') = ToSet(queue) \cup {s}
      BY <1>c, <2>4, AppendList DEF SendBuffered
    <3>2. result' = [result EXCEPT ![s] = "true"] /\ UNCHANGED <<value, closed, expired>>
      BY <2>4 DEF SendBuffered, Return
    <3> QED
      BY <1>a, <1>c, <3>1, <3>2
  <2>5. ~SendPaired(s) /\ ~SendWait(s) /\ ~SendSignaled(s) /\ ~SendSlice(s) /\ ~SendLeave(s)
    BY <1>0 DEF ByCapacity, SendPaired, SendWait, SendSignaled, SendSlice, SendLeave
  <2> QED
    BY <1>2, <2>1, <2>2, <2>3, <2>4, <2>5 DEF SendStep
<1>3. ASSUME NEW r \in Receivers, Recv(r) PROVE Goal
  BY <1>3, <1>d DEF Recv, Begin, Goto
<1>4. ASSUME NEW r \in Receivers, RecvStep(r) PROVE Goal
  <2>0. \A s \in Senders : s # r
    OBVIOUS
  <2>1. CASE RecvClosed(r) \/ RecvEmpty(r)
    BY <1>c, <1>d, <2>0, <2>1 DEF RecvClosed, RecvEmpty, Goto, Return
  <2>2. CASE DataSignaled(r) \/ DataTimeout(r)
    BY <1>c, <1>d, <2>0, <2>2 DEF DataSignaled, DataTimeout, Goto, Return
  <2>3. CASE RecvBuffered(r)
    <3> DEFINE h == Head(queue)
    <3>1. h \in Senders /\ h \in ToSet(queue) /\ ToSet(queue') = ToSet(queue) \ {h}
      BY <1>0, <1>c, <2>3, TailList DEF RecvBuffered, OneOwner
    <3>2. /\ value' = [value EXCEPT ![r] = h] /\ value[r] = None /\ UNCHANGED <<closed, expired>>
      BY <1>0, <2>3 DEF RecvBuffered, Handed
    <3>3. \A s \in Senders : result'[s] = result[s]
      BY <1>c, <2>0, <2>3 DEF RecvBuffered, Return
    <3> HIDE DEF h
    <3> QED
      BY <1>a, <1>c, <3>1, <3>2, <3>3
  <2>4. ~RecvPaired(r) /\ ~RecvWait(r) /\ ~RecvSignaled(r) /\ ~RecvExpired(r) /\ ~RecvLeave(r)
    <3>1. pc[r] \notin {"handoff", "paired", "late"} /\ capacity # 0
      BY <1>0 DEF ByCapacity
    <3>2. RecvSignaled(r) \/ RecvExpired(r) => pc[r] = "handoff"
      BY DEF RecvSignaled, RecvExpired
    <3>3. RecvLeave(r) => pc[r] \in {"paired", "late"}
      BY DEF RecvLeave
    <3> QED
      BY <3>1, <3>2, <3>3 DEF RecvPaired, RecvWait
  <2> QED
    BY <1>4, <2>1, <2>2, <2>3, <2>4 DEF RecvStep
<1>5. ASSUME NEW c \in Closers, Close(c) PROVE Goal
  BY <1>5, <1>c, <1>d DEF Close, Return
<1>6. ASSUME NEW x \in Senders \cup Receivers, Expire(x) PROVE Goal
  BY <1>6, <1>c, <1>d DEF Expire
<1> QED
  BY <1>1, <1>2, <1>3, <1>4, <1>5, <1>6 DEF Next

\* What the calls of a rendezvous are told.
LEMMA RendezvousTold ==
  ASSUME CInv, Next, capacity = 0
  PROVE  \A s \in Senders :
           /\ result'[s] = "false" /\ mode'[s] = "forever" => Unseen(s)'
           /\ pc'[s] = "handoff" /\ ~success'[s] => Unseen(s)'
           /\ result'[s] = "true" \/ (pc'[s] = "handoff" /\ success'[s]) => Arrived(s)' \/ Missed'
<1> DEFINE Goal(s) ==
             /\ result'[s] = "false" /\ mode'[s] = "forever" => Unseen(s)'
             /\ pc'[s] = "handoff" /\ ~success'[s] => Unseen(s)'
             /\ result'[s] = "true" \/ (pc'[s] = "handoff" /\ success'[s]) => Arrived(s)' \/ Missed'
<1> USE ChannelAssumption
<1>0. TypeOK /\ Told /\ ByCapacity /\ Handed /\ OneOwner /\ Stages /\ Lists
  BY DEF CInv
<1>a. \A s \in Senders :
        /\ result[s] = "false" /\ mode[s] = "forever" => Unseen(s)
        /\ pc[s] = "handoff" /\ ~success[s] => Unseen(s)
        /\ result[s] = "true" \/ (pc[s] = "handoff" /\ success[s]) => Arrived(s) \/ Missed
  BY <1>0 DEF Told
<1>b. \A s \in Senders : pc[s] \in {"none", "try", "space"} => Unseen(s) /\ result[s] = "none"
  BY <1>0 DEF OneOwner, Stages
<1>c. /\ result \in [Calls -> {"none", "true", "false"}] /\ pc \in [Calls -> Locations]
      /\ mode \in [Calls -> {"none", "forever", "timed", "try"}]
      /\ success \in [Senders \cup Receivers -> BOOLEAN]
      /\ value \in [Receivers -> Senders \cup {None}]
      /\ recvWaiters \in Seq(Receivers) /\ sendWaiters \in Seq(Senders)
      /\ Senders \subseteq Calls /\ Receivers \subseteq Calls /\ Closers \subseteq Calls
  BY <1>0 DEF TypeOK, Calls
<1>q. queue = <<>> /\ ToSet(queue) = {}
  BY <1>0, EmptyList DEF ByCapacity, TypeOK
<1>r. \A r \in Receivers :
        /\ pc[r] \in {"none", "try", "data"} => value[r] = None /\ result[r] = "none"
        /\ pc[r] # "done" => result[r] = "none"
  BY <1>0 DEF Handed, Stages
\* A step of a sender that does not touch a receiver
<1>d. ASSUME NEW s \in Senders, UNCHANGED <<queue, value>>,
             \A r \in Receivers : pc'[r] = pc[r] /\ mode'[r] = mode[r] /\ result'[r] = result[r],
             \A t \in Senders : t # s => /\ pc'[t] = pc[t] /\ mode'[t] = mode[t]
                                         /\ result'[t] = result[t] /\ success'[t] = success[t],
             Goal(s)
      PROVE  \A t \in Senders : Goal(t)
  BY <1>a, <1>d DEF Unseen, Arrived, Missed
<1>e. ASSUME UNCHANGED <<queue, value>>,
             \A r \in Receivers : pc'[r] = pc[r] /\ mode'[r] = mode[r] /\ result'[r] = result[r]
      PROVE  \A t \in Senders : (Unseen(t) => Unseen(t)') /\ (Arrived(t) => Arrived(t)') /\ (Missed => Missed')
  BY <1>e DEF Unseen, Arrived, Missed
\* A step of a receiver that keeps or drops what it has
<1>f. ASSUME NEW r \in Receivers, UNCHANGED queue,
             \A q \in Receivers : q # r => /\ pc'[q] = pc[q] /\ mode'[q] = mode[q]
                                           /\ result'[q] = result[q] /\ value'[q] = value[q],
             \A t \in Senders : /\ pc'[t] = pc[t] /\ mode'[t] = mode[t]
                                /\ result'[t] = result[t] /\ success'[t] = success[t],
             value'[r] = value[r] \/ value'[r] = None,
             \/ value[r] = None
             \/ value'[r] = value[r] /\ pc'[r] # "late" /\ result'[r] # "false"
             \/ Missed',
             (mode[r] # "forever" /\ (pc[r] = "late" \/ result[r] = "false")) => Missed'
      PROVE  \A t \in Senders : Goal(t)
  <2>1. \A t \in Senders : Unseen(t) => Unseen(t)'
    BY <1>f DEF Unseen
  <2>2. Missed => Missed'
    BY <1>f DEF Missed
  <2>3. \A t \in Senders : Arrived(t) => Arrived(t)' \/ Missed'
    BY <1>f DEF Arrived
  <2> QED
    BY <1>a, <1>f, <2>1, <2>2, <2>3
<1>1. ASSUME NEW s \in Senders, Send(s) PROVE \A t \in Senders : Goal(t)
  <2>1. PICK m : mode' = [mode EXCEPT ![s] = m]
    BY <1>1 DEF Send, Begin
  <2>2. /\ pc[s] = "none" /\ pc' = [pc EXCEPT ![s] = "try"]
        /\ UNCHANGED <<result, queue, value, success>>
    BY <1>1 DEF Send, Begin, Goto
  <2>3. Goal(s)
    BY <1>b, <1>c, <2>1, <2>2
  <2> QED
    BY <1>c, <1>d, <2>1, <2>2, <2>3
<1>2. ASSUME NEW s \in Senders, SendStep(s) PROVE \A t \in Senders : Goal(t)
  <2>0. \A r \in Receivers : r # s
    OBVIOUS
  <2>1. ASSUME pc[s] \in {"try", "space"}, Return(s, FALSE), UNCHANGED <<queue, value, mode, success>>
        PROVE  \A t \in Senders : Goal(t)
    <3>1. pc' = [pc EXCEPT ![s] = "done"] /\ result' = [result EXCEPT ![s] = "false"]
      BY <2>1 DEF Return
    <3>2. Goal(s)
      BY <1>b, <1>c, <2>1, <3>1 DEF Unseen
    <3> QED
      BY <1>c, <1>d, <2>0, <2>1, <3>1, <3>2
  <2>2. ASSUME NEW l \in {"try", "space"}, pc[s] \in {"try", "space"}, Goto(s, l),
               UNCHANGED <<queue, value, mode, success>>
        PROVE  \A t \in Senders : Goal(t)
    <3>1. pc' = [pc EXCEPT ![s] = l] /\ result' = result
      BY <2>2 DEF Goto
    <3>2. Goal(s)
      BY <1>b, <1>c, <2>2, <3>1
    <3> QED
      BY <1>c, <1>d, <2>0, <2>2, <3>1, <3>2
  <2>3. CASE SendClosed(s) \/ SendFull(s)
    BY <2>1, <2>2, <2>3 DEF SendClosed, SendFull
  <2>4. CASE SpaceSignaled(s) \/ SpaceTimeout(s)
    BY <2>1, <2>2, <2>4 DEF SpaceSignaled, SpaceTimeout
  <2>5. ~SendBuffered(s)
    BY DEF SendBuffered
  <2>6. CASE SendPaired(s)
    <3> DEFINE h == Head(recvWaiters)
    <3>1. h \in Receivers /\ h \in ToSet(recvWaiters)
      BY <1>c, <2>6, TailList DEF SendPaired
    <3>2. /\ value' = [value EXCEPT ![h] = s] /\ success' = [success EXCEPT ![h] = TRUE]
          /\ pc' = [pc EXCEPT ![s] = "done"] /\ result' = [result EXCEPT ![s] = "true"]
          /\ UNCHANGED <<mode, queue>>
      BY <2>6 DEF SendPaired, Return, Pair
    <3> HIDE DEF h
    <3>3. /\ pc[h] \in {"handoff", "late"} /\ value[h] = None /\ result[h] = "none"
          /\ pc[h] = "late" => mode[h] # "forever"
      BY <1>0, <1>r, <3>1 DEF Lists, Handed, Stages
    <3>4. \A r \in Receivers : pc'[r] = pc[r] /\ result'[r] = result[r] /\ mode'[r] = mode[r]
      BY <1>c, <2>0, <3>2
    <3>5. \A t \in Senders : t # s => /\ (Unseen(t) => Unseen(t)')
                                      /\ (Arrived(t) => Arrived(t)')
      BY <1>c, <3>1, <3>2, <3>3, <3>4 DEF Unseen, Arrived
    <3>6. Missed => Missed'
      BY <3>4 DEF Missed
    <3>7. Arrived(s)' \/ Missed'
      <4>1. CASE pc[h] = "late"
        BY <3>1, <3>3, <3>4, <4>1 DEF Missed
      <4>2. CASE pc[h] = "handoff"
        BY <1>c, <3>1, <3>2, <3>3, <3>4, <4>2 DEF Arrived
      <4> QED
        BY <3>3, <4>1, <4>2
    <3>8. Goal(s)
      BY <1>c, <3>2, <3>7
    <3>9. ASSUME NEW t \in Senders, t # s PROVE Goal(t)
      <4>1. pc'[t] = pc[t] /\ mode'[t] = mode[t] /\ result'[t] = result[t] /\ success'[t] = success[t]
        BY <1>c, <3>1, <3>2, <3>9
      <4> QED
        BY <1>a, <3>5, <3>6, <3>9, <4>1
    <3> QED
      BY <3>8, <3>9
  <2>7. CASE SendWait(s)
    <3>1. /\ pc[s] = "try" /\ pc' = [pc EXCEPT ![s] = "handoff"] /\ success' = [success EXCEPT ![s] = FALSE]
          /\ UNCHANGED <<queue, value, mode, result>>
      BY <2>7 DEF SendWait, NewWaiter, Goto
    <3>2. Goal(s)
      BY <1>b, <1>c, <3>1 DEF Unseen
    <3> QED
      BY <1>c, <1>d, <2>0, <3>1, <3>2
  <2>8. CASE SendSignaled(s)
    <3>1. /\ pc[s] = "handoff" /\ pc' = [pc EXCEPT ![s] = "paired"]
          /\ result' = [result EXCEPT ![s] = IF success[s] THEN "true" ELSE "false"]
          /\ UNCHANGED <<queue, value, mode, success>>
      BY <2>8 DEF SendSignaled
    <3>2. (Unseen(s) => Unseen(s)') /\ (Arrived(s) => Arrived(s)') /\ (Missed => Missed')
      BY <1>c, <1>e, <2>0, <3>1
    <3>3. Goal(s)
      BY <1>a, <1>c, <3>1, <3>2
    <3> QED
      BY <1>c, <1>d, <2>0, <3>1, <3>3
  <2>9. CASE SendSlice(s)
    <3>1. /\ mode[s] = "timed" /\ pc' = [pc EXCEPT ![s] = "late"]
          /\ result' = [result EXCEPT ![s] = "false"]
          /\ UNCHANGED <<queue, value, mode, success>>
      BY <2>9 DEF SendSlice
    <3>2. Goal(s)
      BY <1>c, <3>1
    <3> QED
      BY <1>c, <1>d, <2>0, <3>1, <3>2
  <2>10. CASE SendLeave(s)
    <3>1. pc' = [pc EXCEPT ![s] = "done"] /\ UNCHANGED <<queue, value, mode, success, result>>
      BY <2>10 DEF SendLeave, Goto
    <3>2. (Unseen(s) => Unseen(s)') /\ (Arrived(s) => Arrived(s)') /\ (Missed => Missed')
      BY <1>c, <1>e, <2>0, <3>1
    <3>3. Goal(s)
      BY <1>a, <1>c, <3>1, <3>2
    <3> QED
      BY <1>c, <1>d, <2>0, <3>1, <3>3
  <2> QED
    BY <1>2, <2>3, <2>4, <2>5, <2>6, <2>7, <2>8, <2>9, <2>10 DEF SendStep
<1>3. ASSUME NEW r \in Receivers, Recv(r) PROVE \A t \in Senders : Goal(t)
  <2>1. PICK m : mode' = [mode EXCEPT ![r] = m]
    BY <1>3 DEF Recv, Begin
  <2>2. /\ pc[r] = "none" /\ pc' = [pc EXCEPT ![r] = "try"]
        /\ UNCHANGED <<result, queue, value, success>>
    BY <1>3 DEF Recv, Begin, Goto
  <2>3. value[r] = None /\ result[r] = "none" /\ \A t \in Senders : t # r
    BY <1>r, <2>2
  <2> QED
    BY <1>c, <1>f, <2>1, <2>2, <2>3
<1>4. ASSUME NEW r \in Receivers, RecvStep(r) PROVE \A t \in Senders : Goal(t)
  <2>0. \A s \in Senders : s # r
    OBVIOUS
  <2>1. ASSUME pc[r] \in {"try", "data"}, UNCHANGED <<queue, value, mode>>,
               \A t \in Senders : success'[t] = success[t],
               Return(r, FALSE) \/ Goto(r, "try") \/ Goto(r, "handoff")
        PROVE  \A t \in Senders : Goal(t)
    <3>1. value[r] = None /\ result[r] = "none"
      BY <1>r, <2>1
    <3>2. /\ \A x \in Calls : x # r => pc'[x] = pc[x] /\ result'[x] = result[x]
      BY <1>c, <2>1 DEF Return, Goto
    <3> QED
      BY <1>c, <1>f, <2>0, <2>1, <3>1, <3>2
  <2>2. CASE RecvClosed(r)
    BY <2>1, <2>2 DEF RecvClosed
  <2>3. CASE DataSignaled(r) \/ DataTimeout(r)
    BY <2>1, <2>3 DEF DataSignaled, DataTimeout
  <2>4. CASE RecvWait(r)
    <3>1. \A t \in Senders : success'[t] = success[t]
      BY <1>c, <2>0, <2>4 DEF RecvWait, NewWaiter
    <3> QED
      BY <2>1, <2>4, <3>1 DEF RecvWait
  <2>5. ~RecvBuffered(r) /\ ~RecvEmpty(r)
    BY <1>q DEF RecvBuffered, RecvEmpty
  <2>6. CASE RecvPaired(r)
    <3>1. PICK h \in Senders : h \in ToSet(sendWaiters) /\ h = Head(sendWaiters)
      BY <1>c, <2>6, TailList DEF RecvPaired
    <3>2. /\ value' = [value EXCEPT ![r] = h] /\ success' = [success EXCEPT ![h] = TRUE]
          /\ pc' = [pc EXCEPT ![r] = "done"] /\ result' = [result EXCEPT ![r] = "true"]
          /\ UNCHANGED <<mode, queue>> /\ pc[r] = "try"
      BY <2>6, <3>1 DEF RecvPaired, Return, Pair
    <3>3. value[r] = None /\ result[r] = "none"
      BY <1>r, <3>2
    <3>4. /\ pc[h] \in {"handoff", "late"} /\ (pc[h] = "handoff" => result[h] = "none")
          /\ pc[h] = "late" => mode[h] = "timed"
      <4>1. pc[h] \in {"handoff", "late"} /\ (pc[h] = "handoff" => result[h] = "none")
        BY <1>0, <3>1 DEF Lists, Stages
      <4>2. pc[h] = "late" => mode[h] = "timed"
        BY <1>0, <3>1 DEF Stages
      <4> QED
        BY <4>1, <4>2
    <3>5. \A t \in Senders : t # h => (Unseen(t) => Unseen(t)')
      BY <1>c, <3>1, <3>2 DEF Unseen
    <3>6. \A t \in Senders : Arrived(t) => Arrived(t)'
      BY <1>c, <3>2, <3>3 DEF Arrived
    <3>7. Missed => Missed'
      BY <1>c, <3>2, <3>3 DEF Missed
    <3>8. Arrived(h)'
      BY <1>c, <3>1, <3>2 DEF Arrived
    <3>9. \A t \in Senders : pc'[t] = pc[t] /\ mode'[t] = mode[t] /\ result'[t] = result[t]
      BY <1>c, <2>0, <3>2
    <3>10. success'[h] /\ \A t \in Senders : t # h => success'[t] = success[t]
      BY <1>c, <3>1, <3>2
    <3>11. Goal(h)
      BY <3>1, <3>4, <3>8, <3>9, <3>10
    <3>12. ASSUME NEW t \in Senders, t # h PROVE Goal(t)
      BY <1>a, <3>5, <3>6, <3>7, <3>9, <3>10, <3>12
    <3> QED
      BY <3>11, <3>12
  <2>7. CASE RecvSignaled(r)
    <3>1. pc[r] = "handoff" /\ pc' = [pc EXCEPT ![r] = "paired"] /\ UNCHANGED <<result, queue, value, mode, success>>
      BY <2>7 DEF RecvSignaled, Goto
    <3>2. result[r] = "none"
      BY <1>r, <3>1
    <3> QED
      BY <1>c, <1>f, <2>0, <3>1, <3>2
  <2>8. CASE RecvExpired(r)
    <3>1. pc[r] = "handoff" /\ pc' = [pc EXCEPT ![r] = "late"] /\ UNCHANGED <<result, queue, value, mode, success>>
      BY <2>8 DEF RecvExpired, Goto
    <3>2. mode[r] # "forever"
      BY <1>0, <2>8 DEF RecvExpired, Stages
    <3>3. Missed'
      BY <1>c, <3>1, <3>2 DEF Missed
    <3> QED
      BY <1>c, <1>f, <2>0, <3>1, <3>3
  <2>9. CASE RecvLeave(r)
    <3>1. pc' = [pc EXCEPT ![r] = "done"] /\ UNCHANGED <<queue, mode, success>>
      BY <2>9 DEF RecvLeave, Return
    <3>2. \A x \in Calls : x # r => pc'[x] = pc[x] /\ result'[x] = result[x]
      BY <1>c, <2>9 DEF RecvLeave, Return
    <3>3. CASE pc[r] = "paired" /\ Return(r, success[r]) /\ UNCHANGED value
      <4>1. value[r] # None => success[r]
        BY <1>0, <3>3 DEF Handed
      <4>2. result'[r] = IF success[r] THEN "true" ELSE "false"
        BY <1>c, <3>3 DEF Return
      <4>3. result[r] = "none" /\ pc'[r] # "late"
        BY <1>c, <1>r, <3>1, <3>3
      <4> QED
        BY <1>c, <1>f, <2>0, <3>1, <3>2, <3>3, <4>1, <4>2, <4>3
    <3>4. CASE pc[r] = "late" /\ Return(r, FALSE) /\ value' = [value EXCEPT ![r] = None]
      <4>1. result'[r] = "false" /\ mode'[r] # "forever"
        BY <1>0, <1>c, <3>1, <3>4 DEF Return, Stages
      <4>2. Missed'
        BY <4>1 DEF Missed
      <4> QED
        BY <1>c, <1>f, <2>0, <3>1, <3>2, <3>4, <4>2, SMTT(30)
    <3> QED
      BY <2>9, <3>3, <3>4 DEF RecvLeave
  <2> QED
    BY <1>4, <2>2, <2>3, <2>4, <2>5, <2>6, <2>7, <2>8, <2>9 DEF RecvStep
<1>5. ASSUME NEW c \in Closers, Close(c) PROVE \A t \in Senders : Goal(t)
  <2> DEFINE W == ToSet(recvWaiters) \cup ToSet(sendWaiters)
  <2>1. /\ UNCHANGED <<queue, value, mode>> /\ pc' = [pc EXCEPT ![c] = "done"]
        /\ result' = [result EXCEPT ![c] = "true"]
        /\ success' = [x \in Senders \cup Receivers |-> success[x] /\ x \notin W]
    BY <1>5 DEF Close, Return
  <2>2. \A x \in Senders \cup Receivers : pc'[x] = pc[x] /\ mode'[x] = mode[x] /\ result'[x] = result[x]
    BY <1>c, <2>1
  <2>3. \A t \in Senders : (Unseen(t) => Unseen(t)') /\ (Arrived(t) => Arrived(t)') /\ (Missed => Missed')
    BY <1>e, <2>1, <2>2
  <2>4. \A t \in Senders : (success'[t] => success[t]) /\ (~success'[t] => ~success[t] \/ Unseen(t))
    <3>1. \A t \in Senders : t \in W => t \in ToSet(sendWaiters)
      BY <1>0, ListMembers
    <3>2. \A t \in ToSet(sendWaiters) : Unseen(t)
      BY <1>0 DEF OneOwner
    <3> HIDE DEF W
    <3> QED
      BY <1>c, <2>1, <3>1, <3>2
  <2> QED
    BY <1>a, <2>2, <2>3, <2>4
<1>6. ASSUME NEW x \in Senders \cup Receivers, Expire(x) PROVE \A t \in Senders : Goal(t)
  BY <1>a, <1>6 DEF Expire, Unseen, Arrived, Missed
<1> QED
  BY <1>1, <1>2, <1>3, <1>4, <1>5, <1>6 DEF Next

\* Every step keeps what calls are told true.
LEMMA ToldStep == CInv /\ Next => Told'
<1> SUFFICES ASSUME CInv, Next PROVE Told'
  OBVIOUS
<1>1. capacity' = capacity /\ capacity \in Nat
  BY CapacityFixed DEF CInv, ByCapacity
<1>2. CASE capacity > 0
  BY <1>1, <1>2, BufferedTold DEF Told
<1>3. CASE capacity = 0
  BY <1>1, <1>3, RendezvousTold DEF Told
<1> QED
  BY <1>1, <1>2, <1>3

\* A new channel satisfies the invariant.
LEMMA CInitially == Init => CInv
<1> SUFFICES ASSUME Init PROVE CInv
  OBVIOUS
<1> USE ChannelAssumption
<1>1. /\ capacity \in Nat /\ queue = <<>> /\ sent = <<>> /\ recvWaiters = <<>> /\ sendWaiters = <<>>
      /\ <<>> \in Seq(Senders) /\ <<>> \in Seq(Receivers)
  BY DEF Init
<1>2. TypeOK
  BY <1>1 DEF Init, TypeOK, Locations
<1>3. ToSet(<<>>) = {} /\ NoRepeat(<<>>)
  BY <1>1, EmptyList
<1>4. \A x \in Senders \cup Receivers :
        pc[x] = "none" /\ mode[x] = "none" /\ result[x] = "none" /\ ~expired[x]
  BY DEF Init, Calls
<1>5. Lists /\ ByCapacity /\ Stages
  BY <1>1, <1>3, <1>4 DEF Lists, ByCapacity, Stages
<1>6. \A r \in Receivers : value[r] = None
  BY DEF Init
<1>7. OneOwner /\ Handed
  BY <1>1, <1>3, <1>4, <1>6 DEF OneOwner, Handed, Unseen
<1>8. Order /\ Told
  <2>1. Len(queue) = 0 /\ Len(sent) = 0
    BY <1>1
  <2> QED
    BY <1>1, <1>4, <2>1 DEF Order, Told
<1> QED
  BY <1>2, <1>5, <1>7, <1>8 DEF CInv

\* Stuttering keeps the invariant.
LEMMA CUnchanged == CInv /\ UNCHANGED vars => CInv'
<1> SUFFICES ASSUME CInv, UNCHANGED vars PROVE CInv'
  OBVIOUS
<1> USE DEF vars
<1>1. TypeOK' /\ Lists' /\ ByCapacity' /\ Stages'
  BY DEF CInv, TypeOK, Lists, ByCapacity, Stages
<1>2. OneOwner' /\ Handed' /\ Order' /\ Told'
  BY DEF CInv, OneOwner, Unseen, Handed, Order, Told, Arrived, Missed
<1> QED
  BY <1>1, <1>2 DEF CInv

\* Every step keeps the invariant.
LEMMA CStep == CInv /\ [Next]_vars => CInv'
BY TypeStep, ListsStep, CapacityStep, StagesStep, OwnerStep, HandedStep, OrderStep, ToldStep,
   CUnchanged DEF CInv

\* The invariant holds in every reachable state.
LEMMA CAlways == Spec => []CInv
BY CInitially, CStep, PTL DEF Spec

-----------------------------------------------------------------------------
(* The theorems *)

\* No pairing writes to a waiter record that was disposed, no record is woken
\* twice, and a sender and a receiver never wait for each other in the lists.
THEOREM WaitersAlwaysTrue == Spec => []WaitersTrue
<1>1. CInv => WaitersTrue
  BY DEF CInv, Lists, WaitersTrue
<1> QED
  BY <1>1, CAlways, PTL

\* No value is received twice, whichever sends, receives, timeouts and Closes race.
THEOREM NeverDuplicated == Spec => []NoDuplicate
<1>1. CInv => NoDuplicate
  <2> SUFFICES ASSUME CInv, NEW s \in Senders PROVE Cardinality(Got(s)) <= 1
    BY DEF NoDuplicate
  <2>1. CASE Got(s) = {}
    BY <2>1, FS_EmptySet
  <2>2. CASE Got(s) # {}
    <3>1. PICK r \in Receivers : value[r] = s
      BY <2>2 DEF Got
    <3>2. Got(s) = {r}
      BY <3>1, ChannelAssumption DEF Got, CInv, OneOwner
    <3>3. Cardinality({r}) = 1
      BY FS_Singleton
    <3> QED
      BY <3>2, <3>3
  <2> QED
    BY <2>1, <2>2
<1> QED
  BY <1>1, CAlways, PTL

\* Reading two sequences backwards: a suffix in terms of positions.
LEMMA SuffixByPosition ==
  ASSUME NEW S, NEW q \in Seq(S), NEW s \in Seq(S), Len(q) <= Len(s),
         \A i \in 1 .. Len(q) : q[i] = s[Len(s) - Len(q) + i]
  PROVE  IsSuffix(q, s)
<1> DEFINE a == Reverse(q)  b == Reverse(s)
<1>1. Len(q) \in Nat /\ Len(s) \in Nat
  BY LenProperties
<1>2. /\ a = [i \in 1 .. Len(q) |-> q[Len(q) - i + 1]]
      /\ b = [i \in 1 .. Len(s) |-> s[Len(s) - i + 1]]
  BY DEF Reverse
<1> HIDE DEF a, b
<1>3. \A i \in 1 .. Len(q) : q[i] \in S
  BY ElementOfSeq
<1>4. \A i \in 1 .. Len(s) : s[i] \in S
  BY ElementOfSeq
<1>5. \A i \in 1 .. Len(q) : Len(q) - i + 1 \in 1 .. Len(q)
  BY <1>1
<1>6. \A i \in 1 .. Len(s) : Len(s) - i + 1 \in 1 .. Len(s)
  BY <1>1
<1>7. a \in Seq(S) /\ Len(a) = Len(q)
  <2>1. \A i \in 1 .. Len(q) : q[Len(q) - i + 1] \in S
    BY <1>3, <1>5
  <2> QED
    BY <1>1, <1>2, <2>1, IsASeq
<1>8. b \in Seq(S) /\ Len(b) = Len(s)
  <2>1. \A i \in 1 .. Len(s) : s[Len(s) - i + 1] \in S
    BY <1>4, <1>6
  <2> QED
    BY <1>1, <1>2, <2>1, IsASeq
<1>9. ASSUME NEW i \in 1 .. Len(q) PROVE a[i] = b[i]
  <2>1. /\ i \in 1 .. Len(s) /\ Len(q) - i + 1 \in 1 .. Len(q)
        /\ Len(s) - Len(q) + (Len(q) - i + 1) = Len(s) - i + 1
    BY <1>1
  <2>2. q[Len(q) - i + 1] = s[Len(s) - i + 1]
    BY <2>1
  <2> QED
    BY <1>2, <2>1, <2>2
<1>10. SubSeq(a, 1, Len(a)) = SubSeq(b, 1, Len(a))
  <2>1. 1 \in Int /\ Len(q) \in Int /\ \A i \in 1 .. Len(q) : a[i] \in S /\ b[i] \in S
    BY <1>1, <1>7, <1>9, ElementOfSeq
  <2>2. /\ SubSeq(a, 1, Len(q)) \in Seq(S) /\ SubSeq(b, 1, Len(q)) \in Seq(S)
        /\ Len(SubSeq(a, 1, Len(q))) = Len(SubSeq(b, 1, Len(q)))
        /\ Len(SubSeq(a, 1, Len(q))) = IF 1 <= Len(q) THEN Len(q) - 1 + 1 ELSE 0
        /\ \A i \in 1 .. (Len(q) - 1 + 1) : SubSeq(a, 1, Len(q))[i] = a[1 + i - 1]
        /\ \A i \in 1 .. (Len(q) - 1 + 1) : SubSeq(b, 1, Len(q))[i] = b[1 + i - 1]
    BY <2>1, SubSeqProperties
  <2>3. Len(SubSeq(a, 1, Len(q))) = Len(q)
    BY <1>1, <2>2
  <2>4. ASSUME NEW i \in 1 .. Len(q) PROVE SubSeq(a, 1, Len(q))[i] = SubSeq(b, 1, Len(q))[i]
    <3>1. i \in 1 .. (Len(q) - 1 + 1) /\ 1 + i - 1 = i
      BY <1>1
    <3> QED
      BY <1>9, <2>2, <3>1
  <2>5. SubSeq(a, 1, Len(q)) = SubSeq(b, 1, Len(q))
    BY <2>2, <2>3, <2>4, SeqEqual
  <2> QED
    BY <1>7, <2>5
<1> QED
  BY <1>7, <1>8, <1>10 DEF IsSuffix, IsPrefix, a, b

\* A buffered channel of any capacity is a queue: what it accepted was received or
\* is buffered in the order of acceptance, and the buffer never overflows.
THEOREM BufferedAlwaysFIFO == Spec => []BufferedFIFO
<1>1. CInv => BufferedFIFO
  <2> SUFFICES ASSUME CInv, capacity > 0
               PROVE  /\ IsSuffix(queue, sent)
                      /\ \A i \in 1..(Len(sent) - Len(queue)) : Got(sent[i]) # {}
                      /\ Len(queue) <= capacity
    BY DEF BufferedFIFO
  <2>1. queue \in Seq(Senders) /\ sent \in Seq(Senders)
    BY DEF CInv, TypeOK
  <2>2. /\ Len(queue) <= Len(sent) /\ Len(queue) <= capacity
        /\ \A i \in 1 .. Len(queue) : queue[i] = sent[Len(sent) - Len(queue) + i]
        /\ \A i \in 1 .. (Len(sent) - Len(queue)) : \E r \in Receivers : value[r] = sent[i]
    BY DEF CInv, Order
  <2>3. IsSuffix(queue, sent)
    BY <2>1, <2>2, SuffixByPosition
  <2> QED
    BY <2>2, <2>3 DEF Got
<1> QED
  BY <1>1, CAlways, PTL

\* Buffered, a sender told True has delivered, one told False keeps its value and
\* was late or met a Close.  Rendezvous, only a timeout makes the two sides disagree.
THEOREM AnswersAlwaysTrue == Spec => []AnswersTrue
<1>1. CInv => AnswersTrue
  <2> SUFFICES ASSUME CInv PROVE AnswersTrue
    OBVIOUS
  <2>0. Told /\ Handed /\ ByCapacity
    BY DEF CInv
  <2>1. \A s \in Senders : Unseen(s) => Kept(s)
    BY DEF Unseen, Kept, Got
  <2>2. \A s \in Senders : Arrived(s) => Delivered(s)
    BY DEF Arrived, Delivered, Got
  <2>3. ASSUME capacity > 0 PROVE TrueMeansDelivered /\ FalseMeansKept /\ FalseMeansLate
    <3>1. \A r \in Receivers : \A s \in Senders :
            value[r] = s => pc[r] # "late" /\ result[r] # "false"
      BY <2>0, <2>3, ChannelAssumption DEF Handed
    <3>2. \A s \in Senders : result[s] = "true" => Delivered(s)
      BY <2>0, <2>3, <3>1 DEF Told, Delivered, Got
    <3>3. \A s \in Senders : result[s] = "false" => Kept(s) /\ (expired[s] \/ closed)
      BY <2>0, <2>1, <2>3 DEF Told
    <3> QED
      BY <3>2, <3>3 DEF TrueMeansDelivered, FalseMeansKept, FalseMeansLate
  <2>4. ASSUME capacity = 0, NEW s \in Senders
        PROVE  /\ result[s] = "false" /\ mode[s] = "forever" => Kept(s)
               /\ result[s] = "true" =>
                    \/ Delivered(s)
                    \/ \E r \in Receivers :
                         mode[r] # "forever" /\ (pc[r] = "late" \/ result[r] = "false")
    BY <2>0, <2>1, <2>2, <2>4 DEF Told, Missed
  <2> QED
    BY <2>3, <2>4 DEF AnswersTrue
<1> QED
  BY <1>1, CAlways, PTL
=============================================================================
