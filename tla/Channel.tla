------------------------------ MODULE Channel ------------------------------
(***************************************************************************)
(* TChannel (fafafa.core.thread.channel.pas): a buffered channel for       *)
(* FCapacity > 0, a rendezvous channel for FCapacity = 0.                  *)
(*                                                                         *)
(* Each section under FLock is one step, each wait on an event another.    *)
(* Every call is an element of Senders, Receivers or Closers.  A setup is  *)
(* a capacity, the calls that are made (the domain of before) and their    *)
(* program order: before[x] are the calls that return before x is made.    *)
(* The value a call sends is named after the call.                         *)
(***************************************************************************)
EXTENDS Naturals, Sequences, FiniteSets, SequencesExt

CONSTANTS
  Senders, Receivers, Closers,
  Setups,     \* the records [capacity, before] to start from
  SendModes,  \* Send ("forever") and SendTimeout ("timed")
  RecvModes,  \* Recv ("forever"), RecvTimeout ("timed"), TryRecv ("try")
  None        \* no value

Calls == Senders \cup Receivers \cup Closers

ASSUME ChannelAssumption ==
  /\ \A u \in Setups : /\ u.capacity \in Nat /\ DOMAIN u.before \subseteq Calls
                        /\ \A x \in DOMAIN u.before : u.before[x] \subseteq DOMAIN u.before
  /\ SendModes \subseteq {"forever", "timed"}
  /\ RecvModes \subseteq {"forever", "timed", "try"}
  /\ Senders \cap Receivers = {} /\ Senders \cap Closers = {}
  /\ Receivers \cap Closers = {}
  /\ None \notin Senders

VARIABLES
  capacity,     \* FCapacity
  before,       \* the calls that are made, and those that each of them follows
  queue,        \* FQueue
  closed,       \* FClosed
  dataEvent,    \* FDataAvailableEvent (auto-reset)
  spaceEvent,   \* FSpaceAvailableEvent (auto-reset)
  recvWaiters,  \* FRecvWaiters
  sendWaiters,  \* FSendWaiters
  signal,       \* the event of a call's waiter record
  success,      \* Success^ of a call's waiter record
  pc, mode,     \* where each call stands, and its timeout
  expired,      \* whether the deadline of a timed call has passed
  result,       \* what the call returned
  value,        \* TReceiver.Value, then AValue of a receiving call
  sent          \* history: the values accepted by the channel, in order

setup   == <<capacity, before>>
waiters == <<recvWaiters, sendWaiters, signal, success>>
events  == <<dataEvent, spaceEvent>>
vars    == <<setup, queue, closed, events, waiters, pc, mode, expired, result, value, sent>>

Locations == {"none", "try", "space", "data", "handoff", "paired", "late", "done"}

TypeOK ==
  /\ queue \in Seq(Senders) /\ sent \in Seq(Senders)
  /\ closed \in BOOLEAN /\ dataEvent \in BOOLEAN /\ spaceEvent \in BOOLEAN
  /\ recvWaiters \in Seq(Receivers) /\ sendWaiters \in Seq(Senders)
  /\ signal \in [Senders \cup Receivers -> BOOLEAN]
  /\ success \in [Senders \cup Receivers -> BOOLEAN]
  /\ pc \in [Calls -> Locations]
  /\ mode \in [Calls -> {"none", "forever", "timed", "try"}]
  /\ expired \in [Calls -> BOOLEAN]
  /\ result \in [Calls -> {"none", "true", "false"}]
  /\ value \in [Receivers -> Senders \cup {None}]

\* TChannel.Create
Init ==
  /\ \E u \in Setups : capacity = u.capacity /\ before = u.before
  /\ queue = <<>> /\ sent = <<>>
  /\ closed = FALSE /\ dataEvent = FALSE /\ spaceEvent = FALSE
  /\ recvWaiters = <<>> /\ sendWaiters = <<>>
  /\ signal = [x \in Senders \cup Receivers |-> FALSE]
  /\ success = [x \in Senders \cup Receivers |-> FALSE]
  /\ pc = [x \in Calls |-> "none"]
  /\ mode = [x \in Calls |-> "none"]
  /\ expired = [x \in Calls |-> FALSE]
  /\ result = [x \in Calls |-> "none"]
  /\ value = [r \in Receivers |-> None]

-----------------------------------------------------------------------------
(* Control *)

Goto(x, l) == pc' = [pc EXCEPT ![x] = l] /\ UNCHANGED result

Return(x, ok) ==
  /\ pc' = [pc EXCEPT ![x] = "done"]
  /\ result' = [result EXCEPT ![x] = IF ok THEN "true" ELSE "false"]

\* A call begins once the calls before it in its thread have returned.
Begin(x, modes) ==
  /\ pc[x] = "none"
  /\ x \in DOMAIN before /\ \A y \in before[x] : pc[y] = "done"
  /\ \E m \in modes : mode' = [mode EXCEPT ![x] = m]
  /\ Goto(x, "try")
  /\ UNCHANGED <<setup, queue, closed, events, waiters, expired, value, sent>>

\* Time passes until the deadline of a timed call.
Expire(x) ==
  /\ mode[x] = "timed" /\ pc[x] # "done" /\ ~expired[x]
  /\ expired' = [expired EXCEPT ![x] = TRUE]
  /\ UNCHANGED <<setup, queue, closed, events, waiters, pc, mode, result, value, sent>>

\* The first waiter of the other side is taken from its list, told of the
\* success and woken, all under FLock.
Pair(x) ==
  /\ success' = [success EXCEPT ![x] = TRUE]
  /\ signal' = [signal EXCEPT ![x] = TRUE]

\* A new waiter record at the end of its list.
NewWaiter(x) ==
  /\ success' = [success EXCEPT ![x] = FALSE]
  /\ signal' = [signal EXCEPT ![x] = FALSE]

\* Find, then Remove at its index: the record is unlisted if it is still listed.
Unlist(list, x) ==
  IF x \in ToSet(list) THEN RemoveAt(list, CHOOSE i \in DOMAIN list : list[i] = x) ELSE list

-----------------------------------------------------------------------------
(* SendTimeout; Send is SendTimeout(INFINITE) *)

Send(s) == Begin(s, SendModes)

\* One round of the loop, under FLock.
SendClosed(s) ==
  /\ pc[s] = "try" /\ closed
  /\ Return(s, FALSE)
  /\ UNCHANGED <<setup, queue, closed, events, waiters, mode, expired, value, sent>>

\* Mutant: one value more than the capacity.
SendBufferedOver(s) ==
  /\ pc[s] = "try" /\ ~closed
  /\ capacity > 0 /\ Len(queue) <= capacity
  /\ queue' = Append(queue, s)
  /\ sent' = Append(sent, s)
  /\ dataEvent' = TRUE
  /\ Return(s, TRUE)
  /\ UNCHANGED <<setup, closed, spaceEvent, waiters, mode, expired, value>>

\* Mutant: the result is never set to True.
SendBufferedDenied(s) ==
  /\ pc[s] = "try" /\ ~closed
  /\ capacity > 0 /\ Len(queue) < capacity
  /\ queue' = Append(queue, s)
  /\ sent' = Append(sent, s)
  /\ dataEvent' = TRUE
  /\ Return(s, FALSE)
  /\ UNCHANGED <<setup, closed, spaceEvent, waiters, mode, expired, value>>

\* Mutant: no event.
SendBufferedQuiet(s) ==
  /\ pc[s] = "try" /\ ~closed
  /\ capacity > 0 /\ Len(queue) < capacity
  /\ queue' = Append(queue, s)
  /\ sent' = Append(sent, s)
  /\ UNCHANGED dataEvent
  /\ Return(s, TRUE)
  /\ UNCHANGED <<setup, closed, spaceEvent, waiters, mode, expired, value>>

SendBuffered(s) ==
  /\ pc[s] = "try" /\ ~closed
  /\ capacity > 0 /\ Len(queue) < capacity
  /\ queue' = Append(queue, s)
  /\ sent' = Append(sent, s)
  /\ dataEvent' = TRUE
  /\ Return(s, TRUE)
  /\ UNCHANGED <<setup, closed, spaceEvent, waiters, mode, expired, value>>

SendFull(s) ==
  /\ pc[s] = "try" /\ ~closed
  /\ capacity > 0 /\ Len(queue) >= capacity
  /\ Goto(s, "space")
  /\ UNCHANGED <<setup, queue, closed, events, waiters, mode, expired, value, sent>>

SendPaired(s) ==
  /\ pc[s] = "try" /\ ~closed
  /\ capacity = 0 /\ recvWaiters # <<>>
  /\ recvWaiters' = Tail(recvWaiters)
  /\ Pair(Head(recvWaiters))
  /\ value' = [value EXCEPT ![Head(recvWaiters)] = s]
  /\ sent' = Append(sent, s)
  /\ Return(s, TRUE)
  /\ UNCHANGED <<setup, queue, closed, events, sendWaiters, mode, expired>>

SendWait(s) ==
  /\ pc[s] = "try" /\ ~closed
  /\ capacity = 0 /\ recvWaiters = <<>>
  /\ sendWaiters' = Append(sendWaiters, s)
  /\ NewWaiter(s)
  /\ Goto(s, "handoff")
  /\ UNCHANGED <<setup, queue, closed, events, recvWaiters, mode, expired, value, sent>>

\* The wait for space: the auto-reset event, one slice of 10 ms, or the deadline.
SpaceSignaled(s) ==
  /\ pc[s] = "space" /\ spaceEvent
  /\ spaceEvent' = FALSE
  /\ Goto(s, "try")
  /\ UNCHANGED <<setup, queue, closed, dataEvent, waiters, mode, expired, value, sent>>

\* Mutant: the deadline is not looked at.
SpaceOneSlice(s) ==
  /\ pc[s] = "space" /\ mode[s] = "timed"
  /\ Return(s, FALSE)
  /\ UNCHANGED <<setup, queue, closed, events, waiters, mode, expired, value, sent>>

SpaceTimeout(s) ==
  /\ pc[s] = "space" /\ mode[s] = "timed"
  /\ \/ ~expired[s] /\ Goto(s, "try")
     \/ expired[s] /\ Return(s, FALSE)
  /\ UNCHANGED <<setup, queue, closed, events, waiters, mode, expired, value, sent>>

\* Mutant: Success^ is not read.
SendSignaledTrue(s) ==
  /\ pc[s] = "handoff" /\ signal[s]
  /\ pc' = [pc EXCEPT ![s] = "paired"]
  /\ result' = [result EXCEPT ![s] = "true"]
  /\ UNCHANGED <<setup, queue, closed, events, waiters, mode, expired, value, sent>>

\* The wait of a rendezvous sender ends with its event or after one slice,
\* which for INFINITE never ends; the result is fixed here.
SendSignaled(s) ==
  /\ pc[s] = "handoff" /\ signal[s]
  /\ pc' = [pc EXCEPT ![s] = "paired"]
  /\ result' = [result EXCEPT ![s] = IF success[s] THEN "true" ELSE "false"]
  /\ UNCHANGED <<setup, queue, closed, events, waiters, mode, expired, value, sent>>

SendSlice(s) ==
  /\ pc[s] = "handoff" /\ mode[s] = "timed"
  /\ pc' = [pc EXCEPT ![s] = "late"]
  /\ result' = [result EXCEPT ![s] = "false"]
  /\ UNCHANGED <<setup, queue, closed, events, waiters, mode, expired, value, sent>>

\* Back under FLock the record is removed if it is still listed.
SendLeave(s) ==
  /\ pc[s] \in {"paired", "late"}
  /\ sendWaiters' = Unlist(sendWaiters, s)
  /\ Goto(s, "done")
  /\ UNCHANGED <<setup, queue, closed, events, recvWaiters, signal, success, mode,
                 expired, value, sent>>

-----------------------------------------------------------------------------
(* RecvTimeout; Recv is RecvTimeout(INFINITE), TryRecv is RecvTimeout(0) *)

Recv(r) == Begin(r, RecvModes)

\* Mutant: the front is read but not popped.
RecvPeek(r) ==
  /\ pc[r] = "try" /\ queue # <<>>
  /\ value' = [value EXCEPT ![r] = Head(queue)]
  /\ queue' = queue
  /\ spaceEvent' = TRUE
  /\ Return(r, TRUE)
  /\ UNCHANGED <<setup, closed, dataEvent, waiters, mode, expired, sent>>

\* Mutant: the buffer is a stack.
RecvLast(r) ==
  /\ pc[r] = "try" /\ queue # <<>>
  /\ value' = [value EXCEPT ![r] = Last(queue)]
  /\ queue' = Front(queue)
  /\ spaceEvent' = TRUE
  /\ Return(r, TRUE)
  /\ UNCHANGED <<setup, closed, dataEvent, waiters, mode, expired, sent>>

\* The buffer is drained even after Close.
RecvBuffered(r) ==
  /\ pc[r] = "try" /\ queue # <<>>
  /\ value' = [value EXCEPT ![r] = Head(queue)]
  /\ queue' = Tail(queue)
  /\ spaceEvent' = TRUE
  /\ Return(r, TRUE)
  /\ UNCHANGED <<setup, closed, dataEvent, waiters, mode, expired, sent>>

RecvClosed(r) ==
  /\ pc[r] = "try" /\ queue = <<>> /\ closed
  /\ Return(r, FALSE)
  /\ UNCHANGED <<setup, queue, closed, events, waiters, mode, expired, value, sent>>

RecvPaired(r) ==
  /\ pc[r] = "try" /\ queue = <<>> /\ ~closed
  /\ capacity = 0 /\ sendWaiters # <<>>
  /\ sendWaiters' = Tail(sendWaiters)
  /\ Pair(Head(sendWaiters))
  /\ value' = [value EXCEPT ![r] = Head(sendWaiters)]
  /\ sent' = Append(sent, Head(sendWaiters))
  /\ Return(r, TRUE)
  /\ UNCHANGED <<setup, queue, closed, events, recvWaiters, mode, expired>>

\* Mutant: waiting senders are not looked for.
RecvWaitBlind(r) ==
  /\ pc[r] = "try" /\ queue = <<>> /\ ~closed
  /\ capacity = 0
  /\ recvWaiters' = Append(recvWaiters, r)
  /\ NewWaiter(r)
  /\ Goto(r, "handoff")
  /\ UNCHANGED <<setup, queue, closed, events, sendWaiters, mode, expired, value, sent>>

RecvWait(r) ==
  /\ pc[r] = "try" /\ queue = <<>> /\ ~closed
  /\ capacity = 0 /\ sendWaiters = <<>>
  /\ recvWaiters' = Append(recvWaiters, r)
  /\ NewWaiter(r)
  /\ Goto(r, "handoff")
  /\ UNCHANGED <<setup, queue, closed, events, sendWaiters, mode, expired, value, sent>>

\* An empty buffer: TryRecv gives up, the others wait for data.
RecvEmpty(r) ==
  /\ pc[r] = "try" /\ queue = <<>> /\ ~closed
  /\ capacity > 0
  /\ \/ mode[r] = "try" /\ Return(r, FALSE)
     \/ mode[r] # "try" /\ Goto(r, "data")
  /\ UNCHANGED <<setup, queue, closed, events, waiters, mode, expired, value, sent>>

DataSignaled(r) ==
  /\ pc[r] = "data" /\ dataEvent
  /\ dataEvent' = FALSE
  /\ Goto(r, "try")
  /\ UNCHANGED <<setup, queue, closed, spaceEvent, waiters, mode, expired, value, sent>>

DataTimeout(r) ==
  /\ pc[r] = "data" /\ expired[r]
  /\ Return(r, FALSE)
  /\ UNCHANGED <<setup, queue, closed, events, waiters, mode, expired, value, sent>>

RecvSignaled(r) ==
  /\ pc[r] = "handoff" /\ signal[r]
  /\ Goto(r, "paired")
  /\ UNCHANGED <<setup, queue, closed, events, waiters, mode, expired, value, sent>>

\* The timeout of a rendezvous receiver.  TryRecv waits for 0 ms and looks at
\* the event; TEvent reports a timed wait that ran out without looking again.
RecvExpired(r) ==
  /\ pc[r] = "handoff"
  /\ expired[r] \/ (mode[r] = "try" /\ ~signal[r])
  /\ Goto(r, "late")
  /\ UNCHANGED <<setup, queue, closed, events, waiters, mode, expired, value, sent>>

\* Mutant: the record is not removed.
RecvLeaveListed(r) ==
  /\ pc[r] \in {"paired", "late"}
  /\ UNCHANGED recvWaiters
  /\ \/ pc[r] = "paired" /\ Return(r, success[r]) /\ UNCHANGED value
     \/ pc[r] = "late" /\ Return(r, FALSE) /\ value' = [value EXCEPT ![r] = None]
  /\ UNCHANGED <<setup, queue, closed, events, sendWaiters, signal, success, mode,
                 expired, sent>>

\* Back under FLock: a signalled receiver reads its record, one that timed out
\* reports False and drops the record.
RecvLeave(r) ==
  /\ pc[r] \in {"paired", "late"}
  /\ recvWaiters' = Unlist(recvWaiters, r)
  /\ \/ pc[r] = "paired" /\ Return(r, success[r]) /\ UNCHANGED value
     \/ pc[r] = "late" /\ Return(r, FALSE) /\ value' = [value EXCEPT ![r] = None]
  /\ UNCHANGED <<setup, queue, closed, events, sendWaiters, signal, success, mode,
                 expired, sent>>

-----------------------------------------------------------------------------
(* Close *)

\* Mutant: the buffer is thrown away.
CloseDiscards(c) ==
  /\ pc[c] = "none"
  /\ c \in DOMAIN before /\ \A y \in before[c] : pc[y] = "done"
  /\ closed' = TRUE
  /\ dataEvent' = TRUE /\ spaceEvent' = TRUE
  /\ LET W == ToSet(recvWaiters) \cup ToSet(sendWaiters) IN
       /\ success' = [x \in Senders \cup Receivers |-> success[x] /\ x \notin W]
       /\ signal' = [x \in Senders \cup Receivers |-> signal[x] \/ x \in W]
  /\ recvWaiters' = <<>> /\ sendWaiters' = <<>>
  /\ Return(c, TRUE)
  /\ queue' = <<>>
  /\ UNCHANGED <<setup, mode, expired, value, sent>>

\* Mutant: the two events are not set.
CloseNoEvents(c) ==
  /\ pc[c] = "none"
  /\ c \in DOMAIN before /\ \A y \in before[c] : pc[y] = "done"
  /\ closed' = TRUE
  /\ UNCHANGED events
  /\ LET W == ToSet(recvWaiters) \cup ToSet(sendWaiters) IN
       /\ success' = [x \in Senders \cup Receivers |-> success[x] /\ x \notin W]
       /\ signal' = [x \in Senders \cup Receivers |-> signal[x] \/ x \in W]
  /\ recvWaiters' = <<>> /\ sendWaiters' = <<>>
  /\ Return(c, TRUE)
  /\ UNCHANGED <<setup, queue, mode, expired, value, sent>>

\* The waiters of both lists are told of the failure and woken.
Close(c) ==
  /\ pc[c] = "none"
  /\ c \in DOMAIN before /\ \A y \in before[c] : pc[y] = "done"
  /\ closed' = TRUE
  /\ dataEvent' = TRUE /\ spaceEvent' = TRUE
  /\ LET W == ToSet(recvWaiters) \cup ToSet(sendWaiters) IN
       /\ success' = [x \in Senders \cup Receivers |-> success[x] /\ x \notin W]
       /\ signal' = [x \in Senders \cup Receivers |-> signal[x] \/ x \in W]
  /\ recvWaiters' = <<>> /\ sendWaiters' = <<>>
  /\ Return(c, TRUE)
  /\ UNCHANGED <<setup, queue, mode, expired, value, sent>>

-----------------------------------------------------------------------------
SendStep(s) ==
  \/ SendClosed(s) \/ SendBuffered(s) \/ SendFull(s) \/ SendPaired(s) \/ SendWait(s)
  \/ SpaceSignaled(s) \/ SpaceTimeout(s)
  \/ SendSignaled(s) \/ SendSlice(s) \/ SendLeave(s)

RecvStep(r) ==
  \/ RecvBuffered(r) \/ RecvClosed(r) \/ RecvPaired(r) \/ RecvWait(r) \/ RecvEmpty(r)
  \/ DataSignaled(r) \/ DataTimeout(r)
  \/ RecvSignaled(r) \/ RecvExpired(r) \/ RecvLeave(r)

Next ==
  \/ \E s \in Senders : Send(s) \/ SendStep(s)
  \/ \E r \in Receivers : Recv(r) \/ RecvStep(r)
  \/ \E c \in Closers : Close(c)
  \/ \E x \in Senders \cup Receivers : Expire(x)

Spec == Init /\ [][Next]_vars

\* Calls under way make progress, time passes, and an event that stays set
\* reaches one of its waiters.
FairSpec ==
  /\ Spec
  /\ \A s \in Senders : WF_vars(SendStep(s)) /\ WF_vars(Expire(s))
  /\ \A r \in Receivers : WF_vars(RecvStep(r)) /\ WF_vars(Expire(r))

-----------------------------------------------------------------------------
(* Safety *)

\* Rendezvous: a waiter record is listed only while its call is waiting or about
\* to remove it, so no pairing ever writes to a record that was disposed; and a
\* sender and a receiver are never both listed, although calls that give up
\* remove themselves later: who comes second pairs.
WaitersTrue ==
  /\ TypeOK
  /\ \A x \in ToSet(recvWaiters) \cup ToSet(sendWaiters) :
       pc[x] \in {"handoff", "late"} /\ ~signal[x]
  /\ recvWaiters = <<>> \/ sendWaiters = <<>>

\* The calls that hold, or are about to return, a given value.
Got(s) == {r \in Receivers : value[r] = s}

\* No value is received by two calls, whatever races with it.
NoDuplicate == \A s \in Senders : Cardinality(Got(s)) <= 1

\* Buffered: what was accepted is what was received and what is buffered, the
\* buffer holds the latest values in the order in which they were accepted,
\* and it never exceeds the capacity.  Nothing is lost by timeouts or Close.
BufferedFIFO ==
  capacity > 0 =>
    /\ IsSuffix(queue, sent)
    /\ \A i \in 1..(Len(sent) - Len(queue)) : Got(sent[i]) # {}
    /\ Len(queue) <= capacity

\* The value of a sender is in the buffer or with a receiver that returns True.
Delivered(s) ==
  \/ s \in ToSet(queue)
  \/ \E r \in Got(s) : pc[r] # "late" /\ result[r] # "false"

\* The value of a sender is nowhere.
Kept(s) == Got(s) = {} /\ s \notin ToSet(queue)

\* Every sender that was told True has delivered its value.
TrueMeansDelivered == \A s \in Senders : result[s] = "true" => Delivered(s)

\* A value whose sender was told False (timeout or Close) is never received.
FalseMeansKept == \A s \in Senders : result[s] = "false" => Kept(s)

\* SendTimeout reports a failure only after its deadline or after Close.
FalseMeansLate == \A s \in Senders : result[s] = "false" => expired[s] \/ closed

\* What a call is told is true, whatever races.  On a buffered channel all three
\* hold.  On a rendezvous only timeouts make the two sides disagree: an untimed
\* Send told False by Close keeps its value, and a value whose sender was told
\* True misses its receiver only if a receiver gave up after a timeout.
AnswersTrue ==
  /\ capacity > 0 => TrueMeansDelivered /\ FalseMeansKept /\ FalseMeansLate
  /\ capacity = 0 =>
       \A s \in Senders :
         /\ result[s] = "false" /\ mode[s] = "forever" => Kept(s)
         /\ result[s] = "true" =>
              \/ Delivered(s)
              \/ \E r \in Receivers : mode[r] # "forever" /\ (pc[r] = "late" \/ result[r] = "false")

(* Liveness *)

\* A receiver does not sleep on the event while values are buffered, nor a
\* sender while there is room.
NoLostWakeup ==
  /\ \A r \in Receivers : (pc[r] = "data" /\ queue # <<>>) ~> (pc[r] # "data" \/ queue = <<>>)
  /\ \A s \in Senders : (pc[s] = "space" /\ Len(queue) < capacity)
                          ~> (pc[s] # "space" \/ Len(queue) >= capacity)

\* Close releases every call that is under way.
CloseReleases ==
  \A x \in Senders \cup Receivers : (closed /\ pc[x] # "none") ~> pc[x] = "done"
=============================================================================
