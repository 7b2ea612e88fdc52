---------------------------- MODULE TimerProofs ----------------------------
(***************************************************************************)
(* Proofs about the timer scheduler, for any number of timers, periods,    *)
(* delays, limits, capacities and plans.                                   *)
(*                                                                         *)
(* A step touches one timer, or those the thread discards; every invariant *)
(* below but the one on the thread's local variable is therefore stated    *)
(* for one timer, and a timer that a step leaves alone keeps it.           *)
(***************************************************************************)
EXTENDS Timer, FiniteSetTheorems, TLAPS

-----------------------------------------------------------------------------
(* The next point of the grid *)

\* What the division of the delay by the period tells.
LEMMA Division ==
  ASSUME NEW n \in Nat, NEW p \in Nat \ {0}
  PROVE  n \div p \in Nat /\ p * (n \div p) <= n /\ n < p * (n \div p) + p
BY SMTT(30)

\* Whole periods.
LEMMA Periods ==
  ASSUME NEW p \in Nat \ {0}, NEW k \in Nat
  PROVE  p * k \in Nat /\ p * (k + 1) = p * k + p /\ (p * k) % p = 0
BY SMTT(30)

\* Fewer periods end no later.
LEMMA FewerPeriods ==
  ASSUME NEW p \in Nat \ {0}, NEW k \in Nat, NEW j \in Nat, j <= k
  PROVE  p * j <= p * k
BY SMTT(30)

\* The next deadline of a fixed-rate timer is the first point of its grid after
\* now, whatever the limit on catching up.
LEMMA NextOnGrid ==
  ASSUME NEW d \in Nat, NEW now \in Nat, d <= now, NEW p \in Nat \ {0}
  PROVE  /\ NextRate(d, now, p) \in Nat
         /\ now < NextRate(d, now, p) /\ NextRate(d, now, p) <= now + p
         /\ (NextRate(d, now, p) - d) % p = 0
<1>1. PICK q \in Nat : q = (now - d) \div p /\ p * q <= now - d /\ now - d < p * q + p
  <2>1. now - d \in Nat
    OBVIOUS
  <2> QED
    BY <2>1, Division
<1>2. p * (q + 1) = p * q + p /\ p * q \in Nat /\ p * (q + 1) \in Nat /\ (p * (q + 1)) % p = 0
  BY Periods
<1>3. PICK m \in Nat : /\ NextRate(d, now, p) = d + p * m
                       /\ m <= q + 1
                       /\ now < d + p * m
  <2> DEFINE limited == IF CatchUp > 0 /\ q + 1 > CatchUp THEN CatchUp ELSE q + 1
  <2>1. NextRate(d, now, p) = IF d + p * limited > now THEN d + p * limited ELSE d + p * (q + 1)
    BY <1>1 DEF NextRate
  <2>2. limited \in Nat /\ limited <= q + 1
    BY TimerAssumption
  <2>3. p * limited \in Nat
    BY <2>2, Periods
  <2>4. now < d + p * (q + 1)
    BY <1>1, <1>2
  <2> HIDE DEF limited
  <2>5. CASE d + p * limited > now
    BY <2>1, <2>2, <2>5
  <2>6. CASE ~(d + p * limited > now)
    <3>1. NextRate(d, now, p) = d + p * (q + 1) /\ q + 1 \in Nat /\ q + 1 <= q + 1
      BY <2>1, <2>6
    <3> QED
      BY <3>1, <2>4
  <2> QED
    BY <2>5, <2>6
<1>4. p * m <= p * (q + 1)
  BY <1>3, FewerPeriods
<1>5. p * m \in Nat /\ (p * m) % p = 0
  BY Periods
<1>6. d + p * m \in Nat /\ d + p * m <= now + p /\ (d + p * m) - d = p * m
  BY <1>1, <1>2, <1>4, <1>5
<1> QED
  BY <1>3, <1>5, <1>6

-----------------------------------------------------------------------------
(* Types *)

USE DEF history, sched, ctl

\* The fields of an entry; how many references it has is counted below.
EntryFields ==
  [deadline : Nat, cancelled : BOOLEAN, fired : BOOLEAN, dead : BOOLEAN,
   paused : BOOLEAN, inHeap : BOOLEAN, refs : Int, count : Nat, max : Nat]

JobStages == {"idle", "check", "call", "count", "finish", "skip", "test", "free", "lost"}

EntryTyped == entry \in [Timers -> EntryFields]

MapsTyped ==
  /\ heap \in [Timers -> Int]
  /\ mem \in [Timers -> {"none", "live", "freed"}]
  /\ handle \in [Timers -> BOOLEAN] /\ token \in [Timers -> BOOLEAN]
  /\ job \in [Timers -> JobStages]
  /\ runs \in [Timers -> Nat] /\ ended \in [Timers -> Nat] /\ late \in [Timers -> Nat]

RestTyped ==
  /\ plan \in Plans /\ clock \in Nat /\ clock <= plan.horizon
  /\ shuttingDown \in BOOLEAN /\ wakeup \in BOOLEAN /\ async \in BOOLEAN
  /\ thread \in {"top", "scan", "sleep", "nap", "due", "submit", "callback", "exit"}
  /\ best \subseteq Timers /\ until \in Nat /\ quiet \subseteq Timers
  /\ closer \in {"open", "flagged", "joining", "down", "destroyed"}

Typed == EntryTyped /\ MapsTyped /\ RestTyped

\* The constants, in the form the proofs use them.
LEMMA Constants ==
  /\ Kind \in [Timers -> {"once", "fixedRate", "fixedDelay"}]
  /\ \A t \in Timers : Period[t] \in Nat \ {0}
  /\ \A p \in Plans : /\ p.horizon \in Nat /\ p.async \in BOOLEAN
                      /\ \A t \in Timers : p.calls[t] \subseteq Operations
  /\ \A d \in Delays : d \in Nat
  /\ \A n \in Limits : n \in Nat \ {0}
BY TimerAssumption DEF PlanType

\* The steps that change at most one entry.
OneEntry(t) ==
  \/ Schedule(t) \/ Cancel(t) \/ Drop(t) \/ ResetAt(t) \/ Pause(t) \/ Resume(t)
  \/ SetMaxExecutions(t) \/ Hold(t) \/ SubmitRaises(t)
  \/ Skip(t) \/ Count(t) \/ FinishAgain(t) \/ FinishLast(t) \/ FinishOnce(t)

\* A step that changes one entry replaces it by an entry.
LEMMA EntryReplaced ==
  ASSUME Typed, NEW t \in Timers, OneEntry(t)
  PROVE  \E e \in EntryFields : entry' = [entry EXCEPT ![t] = e]
<1>a. /\ entry \in [Timers -> EntryFields] /\ entry[t] \in EntryFields /\ clock \in Nat
      /\ Period[t] \in Nat /\ plan \in Plans
  BY Constants DEF Typed, EntryTyped, RestTyped
<1>b. RefsAfter(t) \in Int
  <2>1. entry[t].refs \in Int
    BY <1>a DEF EntryFields
  <2> QED
    BY <2>1 DEF RefsAfter
<1>c. Rearmed(t) \in Nat
  BY <1>a DEF Rearmed, EntryFields
<1>1. CASE Schedule(t)
  <2>1. PICK d \in Delays :
          entry' = [entry EXCEPT ![t] = [Blank EXCEPT !.deadline = clock + d,
                                                      !.refs = 1, !.inHeap = TRUE]]
    BY <1>1 DEF Schedule
  <2>2. PICK n \in Nat : n = clock + d
    BY <1>a, Constants
  <2>3. Blank \in EntryFields
    BY DEF Blank, EntryFields
  <2>4. PICK r \in Int : r = 1
    OBVIOUS
  <2>5. [Blank EXCEPT !.deadline = n, !.refs = r, !.inHeap = TRUE] \in EntryFields
    BY <2>3, Zenon DEF EntryFields
  <2> QED
    BY <2>1, <2>2, <2>4, <2>5
<1>2. CASE Cancel(t)
  <2>1. entry' = [entry EXCEPT ![t] = [entry[t] EXCEPT !.cancelled = TRUE, !.dead = TRUE]]
    BY <1>2, <1>a DEF Cancel
  <2>2. [entry[t] EXCEPT !.cancelled = TRUE, !.dead = TRUE] \in EntryFields
    BY <1>a DEF EntryFields
  <2> QED
    BY <2>1, <2>2
<1>3. CASE Drop(t) \/ SubmitRaises(t)
  <2>1. entry' = [entry EXCEPT ![t] = [entry[t] EXCEPT !.refs = @ - 1]]
    BY <1>3, <1>a DEF Drop, SubmitRaises
  <2>2. [entry[t] EXCEPT !.refs = @ - 1] \in EntryFields
    BY <1>a DEF EntryFields
  <2> QED
    BY <2>1, <2>2
<1>4. CASE ResetAt(t)
  <2>1. PICK d \in 0 .. plan.horizon : entry' = [entry EXCEPT ![t] = [entry[t] EXCEPT !.deadline = d]]
    BY <1>4, <1>a DEF ResetAt
  <2>2. [entry[t] EXCEPT !.deadline = d] \in EntryFields
    BY <1>a, Constants DEF EntryFields
  <2> QED
    BY <2>1, <2>2
<1>5. CASE Pause(t)
  <2>1. entry' = [entry EXCEPT ![t] = [entry[t] EXCEPT !.paused = TRUE, !.inHeap = FALSE]]
    BY <1>5, <1>a DEF Pause
  <2>2. [entry[t] EXCEPT !.paused = TRUE, !.inHeap = FALSE] \in EntryFields
    BY <1>a DEF EntryFields
  <2> QED
    BY <2>1, <2>2
<1>6. CASE Resume(t)
  <2>1. PICK b \in BOOLEAN : b = (entry[t].inHeap \/ HasRoom)
    BY Zenon
  <2>2. entry' = [entry EXCEPT ![t] = [entry[t] EXCEPT !.paused = FALSE, !.deadline = clock + Period[t],
                                                       !.inHeap = b]]
    BY <1>6, <1>a, <2>1 DEF Resume
  <2>3. clock + Period[t] \in Nat
    BY <1>a
  <2>4. [entry[t] EXCEPT !.paused = FALSE, !.deadline = clock + Period[t], !.inHeap = b] \in EntryFields
    BY <1>a, <2>3, Zenon DEF EntryFields
  <2> QED
    BY <2>2, <2>4
<1>7. CASE SetMaxExecutions(t)
  <2>1. PICK n \in Limits : entry' = [entry EXCEPT ![t] = [entry[t] EXCEPT !.max = n]]
    BY <1>7, <1>a DEF SetMaxExecutions
  <2>2. [entry[t] EXCEPT !.max = n] \in EntryFields
    BY <1>a, Constants DEF EntryFields
  <2> QED
    BY <2>1, <2>2
<1>8. CASE Hold(t)
  <2>1. entry' = [entry EXCEPT ![t] = [entry[t] EXCEPT !.refs = @ + 1]]
    BY <1>8, <1>a DEF Hold
  <2>2. [entry[t] EXCEPT !.refs = @ + 1] \in EntryFields
    BY <1>a DEF EntryFields
  <2> QED
    BY <2>1, <2>2
<1>9. CASE Skip(t)
  <2>1. entry' = [entry EXCEPT ![t] = [entry[t] EXCEPT !.cancelled = TRUE, !.dead = TRUE, !.refs = RefsAfter(t)]]
    BY <1>9, <1>a DEF Skip
  <2>2. [entry[t] EXCEPT !.cancelled = TRUE, !.dead = TRUE, !.refs = RefsAfter(t)] \in EntryFields
    BY <1>a, <1>b DEF EntryFields
  <2> QED
    BY <2>1, <2>2
<1>10. CASE Count(t)
  <2>1. PICK b, c \in BOOLEAN :
          b = (entry[t].cancelled \/ LimitReached(t)) /\ c = (entry[t].dead \/ LimitReached(t))
    BY Zenon
  <2>2. PICK n \in Nat : n = entry[t].count + 1
    BY <1>a DEF EntryFields
  <2>3. entry' = [entry EXCEPT ![t] = [entry[t] EXCEPT !.count = n, !.cancelled = b, !.dead = c]]
    BY <1>10, <1>a, <2>1, <2>2 DEF Count
  <2>4. [entry[t] EXCEPT !.count = n, !.cancelled = b, !.dead = c] \in EntryFields
    BY <1>a, Zenon DEF EntryFields
  <2> QED
    BY <2>3, <2>4
<1>11. CASE FinishAgain(t)
  <2>1. entry' = [entry EXCEPT ![t] = [entry[t] EXCEPT !.refs = RefsAfter(t), !.inHeap = TRUE, !.deadline = Rearmed(t)]]
    BY <1>11, <1>a DEF FinishAgain
  <2>2. [entry[t] EXCEPT !.refs = RefsAfter(t), !.inHeap = TRUE, !.deadline = Rearmed(t)] \in EntryFields
    BY <1>a, <1>b, <1>c DEF EntryFields
  <2> QED
    BY <2>1, <2>2
<1>12. CASE FinishLast(t)
  <2>0. PICK d \in Nat : d = IF entry[t].cancelled \/ shuttingDown THEN entry[t].deadline ELSE Rearmed(t)
    BY <1>a, <1>c DEF EntryFields
  <2>1. entry' = [entry EXCEPT ![t] = [entry[t] EXCEPT !.refs = RefsAfter(t), !.dead = TRUE, !.deadline = d]]
    BY <1>12, <1>a, <2>0 DEF FinishLast
  <2>2. [entry[t] EXCEPT !.refs = RefsAfter(t), !.dead = TRUE, !.deadline = d] \in EntryFields
    BY <1>a, <1>b DEF EntryFields
  <2> QED
    BY <2>1, <2>2
<1>13. CASE FinishOnce(t)
  <2>1. entry' = [entry EXCEPT ![t] = [entry[t] EXCEPT !.refs = RefsAfter(t), !.dead = TRUE]]
    BY <1>13, <1>a DEF FinishOnce
  <2>2. [entry[t] EXCEPT !.refs = RefsAfter(t), !.dead = TRUE] \in EntryFields
    BY <1>a, <1>b DEF EntryFields
  <2> QED
    BY <2>1, <2>2
<1> QED
  BY <1>1, <1>2, <1>3, <1>4, <1>5, <1>6, <1>7, <1>8, <1>9, <1>10, <1>11, <1>12, <1>13 DEF OneEntry

\* The entries after ThreadProc discarded some of the queue.
LEMMA DiscardTyped ==
  ASSUME Typed, NEW D \in SUBSET Timers
  PROVE  AfterDiscard(D) \in [Timers -> EntryFields]
<1>1. ASSUME NEW t \in Timers
      PROVE  [entry[t] EXCEPT !.inHeap = FALSE, !.dead = @ \/ ~entry[t].paused] \in EntryFields
  <2>1. PICK b \in BOOLEAN : b = (entry[t].dead \/ ~entry[t].paused)
    BY Zenon
  <2>2. entry[t] \in EntryFields
    BY DEF Typed, EntryTyped
  <2>3. [entry[t] EXCEPT !.inHeap = FALSE, !.dead = b] \in EntryFields
    BY <2>2, Zenon DEF EntryFields
  <2> QED
    BY <2>1, <2>3
<1> QED
  BY <1>1 DEF AfterDiscard, Typed, EntryTyped

\* The entries after Destroy has emptied the queue.
LEMMA ClearTyped ==
  ASSUME Typed PROVE Cleared \in [Timers -> EntryFields]
<1>1. ASSUME NEW t \in Timers
      PROVE  [entry[t] EXCEPT !.inHeap = FALSE, !.dead = TRUE, !.cancelled = TRUE] \in EntryFields
  <2>1. entry[t] \in EntryFields
    BY DEF Typed, EntryTyped
  <2> QED
    BY <2>1, Zenon DEF EntryFields
<1> QED
  BY <1>1 DEF Cleared, Typed, EntryTyped

\* The entry of a timer that is due.
LEMMA TakenTyped ==
  ASSUME Typed, NEW t \in Timers, entry[t].deadline <= clock
  PROVE  Taken(t) \in EntryFields
<1>1. entry[t] \in EntryFields /\ entry[t].deadline \in Nat /\ clock \in Nat /\ Period[t] \in Nat \ {0}
  BY Constants DEF Typed, EntryTyped, RestTyped, EntryFields
<1>2. PICK b \in BOOLEAN : b = (Kind[t] = "once")
  BY Zenon
<1>3. PICK d \in Nat : d = IF Kind[t] = "fixedRate" THEN NextRate(entry[t].deadline, clock, Period[t])
                                                    ELSE entry[t].deadline
  BY <1>1, NextOnGrid
<1>4. [entry[t] EXCEPT !.inHeap = FALSE, !.fired = b, !.deadline = d] \in EntryFields
  BY <1>1, Zenon DEF EntryFields
<1> QED
  BY <1>2, <1>3, <1>4 DEF Taken

\* Every step keeps the entries entries.
LEMMA EntryStep == Typed /\ [Next]_vars => EntryTyped'
<1> SUFFICES ASSUME Typed, [Next]_vars PROVE EntryTyped'
  OBVIOUS
<1>a. entry \in [Timers -> EntryFields]
  BY DEF Typed, EntryTyped
<1>1. ASSUME NEW t \in Timers, OneEntry(t) PROVE EntryTyped'
  BY <1>1, <1>a, EntryReplaced DEF EntryTyped
<1>2. ASSUME UNCHANGED entry PROVE EntryTyped'
  BY <1>2, <1>a DEF EntryTyped
<1>3. ASSUME ScanEmpty PROVE EntryTyped'
  BY <1>3, DiscardTyped DEF ScanEmpty, EntryTyped, Queued
<1>4. ASSUME NEW t \in Timers, ScanEarly(t) PROVE EntryTyped'
  <2>1. PICK D \in SUBSET Queued : entry' = AfterDiscard(D)
    BY <1>4 DEF ScanEarly
  <2> QED
    BY <2>1, DiscardTyped DEF EntryTyped, Queued
<1>5. ASSUME NEW t \in Timers, ScanDue(t) PROVE EntryTyped'
  <2>1. PICK D \in SUBSET Queued : entry' = [AfterDiscard(D) EXCEPT ![t] = Taken(t)]
    BY <1>5 DEF ScanDue
  <2>2. AfterDiscard(D) \in [Timers -> EntryFields]
    BY DiscardTyped DEF Queued
  <2>3. Taken(t) \in EntryFields
    BY <1>5, TakenTyped DEF ScanDue
  <2> QED
    BY <2>1, <2>2, <2>3 DEF EntryTyped
<1>6. ASSUME Destroy PROVE EntryTyped'
  BY <1>6, ClearTyped DEF Destroy, EntryTyped
<1>7. ASSUME \/ Tick \/ Top \/ Woken \/ Shutdown \/ Closing \/ SetCallbackExecutor
             \/ \E t \in Timers : \/ Direct(t) \/ Submit(t) \/ SubmitDiscarded(t)
                                  \/ Check(t) \/ Return(t) \/ Test(t) \/ Free(t) \/ CancelToken(t)
             \/ UNCHANGED vars
      PROVE  UNCHANGED entry
  BY <1>7 DEF Tick, Top, Woken, Shutdown, Closing, ShutdownSignal, ShutdownJoin, SetCallbackExecutor,
     Direct, Submit, SubmitDiscarded, Check, Return, Test, Free, CancelToken, vars
<1> QED
  BY <1>1, <1>2, <1>3, <1>4, <1>5, <1>6, <1>7
  DEF Next, ThreadStep, Scan, Dispatch, JobStep, HandleCall, OneEntry

\* The moves of a callback.
LEMMA StageTyped ==
  ASSUME Typed, NEW t \in Timers, NEW s \in JobStages, Stage(t, s)
  PROVE  /\ job' \in [Timers -> JobStages]
         /\ thread' \in {thread, "top"} /\ best' \in {best, {}} /\ UNCHANGED until
BY DEF Stage, Typed, MapsTyped, RestTyped

\* Freeing some entries.
LEMMA DisposeTyped ==
  ASSUME Typed, NEW S, Dispose(S)
  PROVE  mem' \in [Timers -> {"none", "live", "freed"}]
BY DEF Dispose, Typed, MapsTyped

\* Every step keeps the other variables typed.
LEMMA MapsStep == Typed /\ [Next]_vars => MapsTyped' /\ RestTyped'
<1> SUFFICES ASSUME Typed, [Next]_vars PROVE MapsTyped' /\ RestTyped'
  OBVIOUS
<1>a. MapsTyped /\ RestTyped
  BY DEF Typed
<1>b. \A t \in Timers : entry[t].deadline \in Nat /\ entry[t].count \in Nat
  BY DEF Typed, EntryTyped, EntryFields
<1> USE DEF MapsTyped, RestTyped
<1>1. ASSUME Tick PROVE MapsTyped' /\ RestTyped'
  BY <1>1, <1>a, Constants DEF Tick
<1>2. ASSUME NEW t \in Timers, Schedule(t) PROVE MapsTyped' /\ RestTyped'
  BY <1>2, <1>a DEF Schedule, Enqueue, Wake
<1>3. ASSUME NEW t \in Timers, Cancel(t) \/ ResetAt(t) \/ CancelToken(t) PROVE MapsTyped' /\ RestTyped'
  <2>1. CASE Cancel(t)
    BY <2>1, <1>a DEF Cancel
  <2>2. CASE ResetAt(t)
    BY <2>2, <1>a DEF ResetAt, Wake
  <2>3. CASE CancelToken(t)
    BY <2>3, <1>a DEF CancelToken
  <2> QED
    BY <1>3, <2>1, <2>2, <2>3
<1>4. ASSUME NEW t \in Timers, Drop(t) PROVE MapsTyped' /\ RestTyped'
  <2>1. mem' \in [Timers -> {"none", "live", "freed"}]
    BY <1>4, DisposeTyped DEF Drop
  <2> QED
    BY <1>4, <1>a, <2>1 DEF Drop
<1>5. ASSUME NEW t \in Timers, Pause(t) PROVE MapsTyped' /\ RestTyped'
  <2>1. heap' \in [Timers -> Int]
    BY <1>5, <1>a DEF Pause, Remove
  <2> QED
    BY <1>5, <1>a, <2>1 DEF Pause
<1>6. ASSUME NEW t \in Timers, Resume(t) PROVE MapsTyped' /\ RestTyped'
  <2>1. heap' \in [Timers -> Int] /\ wakeup' \in BOOLEAN
    <3>1. (Enqueue(t) /\ Wake) \/ UNCHANGED <<heap, wakeup>>
      BY <1>6 DEF Resume
    <3>2. CASE Enqueue(t) /\ Wake
      <4>1. heap' = [heap EXCEPT ![t] = @ + 1] /\ wakeup' = TRUE
        BY <3>2 DEF Enqueue, Wake
      <4> QED
        BY <4>1, <1>a
    <3>3. CASE UNCHANGED <<heap, wakeup>>
      BY <3>3, <1>a
    <3> QED
      BY <3>1, <3>2, <3>3
  <2> QED
    BY <1>6, <1>a, <2>1 DEF Resume
<1>7. ASSUME NEW t \in Timers, SetMaxExecutions(t) PROVE MapsTyped' /\ RestTyped'
  BY <1>7, <1>a, <1>b DEF SetMaxExecutions
<1>8. ASSUME Top \/ Woken PROVE MapsTyped' /\ RestTyped'
  BY <1>8, <1>a DEF Top, Woken
<1>9. ASSUME ScanEmpty PROVE MapsTyped' /\ RestTyped'
  <2>1. mem' \in [Timers -> {"none", "live", "freed"}]
    BY <1>9, DisposeTyped DEF ScanEmpty, Discard
  <2>2. heap' \in [Timers -> Int]
    BY <1>9, <1>a DEF ScanEmpty, Discard
  <2> QED
    BY <1>9, <1>a, <2>1, <2>2 DEF ScanEmpty
<1>10. ASSUME NEW t \in Timers, ScanEarly(t) PROVE MapsTyped' /\ RestTyped'
  <2>0. PICK D \in SUBSET Queued : Discard(D)
    BY <1>10 DEF ScanEarly
  <2>1. mem' \in [Timers -> {"none", "live", "freed"}]
    BY <2>0, DisposeTyped DEF Discard
  <2>2. heap' \in [Timers -> Int]
    BY <2>0, <1>a DEF Discard
  <2> QED
    BY <1>10, <1>a, <1>b, <2>1, <2>2 DEF ScanEarly
<1>11. ASSUME NEW t \in Timers, ScanDue(t) PROVE MapsTyped' /\ RestTyped'
  <2>0. PICK D \in SUBSET Queued :
          /\ Dispose({u \in D : Disposable(entry'[u])})
          /\ heap' = [u \in Timers |-> IF u \in D THEN 0 ELSE IF u = t THEN heap[u] - 1 ELSE heap[u]]
    BY <1>11 DEF ScanDue
  <2>1. mem' \in [Timers -> {"none", "live", "freed"}]
    BY <2>0, DisposeTyped
  <2>2. heap' \in [Timers -> Int]
    BY <2>0, <1>a
  <2> QED
    BY <1>11, <1>a, <2>1, <2>2 DEF ScanDue
<1>12. ASSUME NEW t \in Timers, Direct(t) \/ Hold(t) \/ Submit(t) \/ SubmitRaises(t) \/ SubmitDiscarded(t)
       PROVE  MapsTyped' /\ RestTyped'
  <2>1. /\ job' \in [Timers -> JobStages]
        /\ thread' \in {"submit", "callback", "top"} /\ best' \in {best, {}}
        /\ UNCHANGED <<plan, clock, heap, mem, handle, token, wakeup, until, ctl, history>>
    BY <1>12, <1>a DEF Direct, Hold, Submit, SubmitRaises, SubmitDiscarded, JobStages
  <2> QED
    BY <1>a, <2>1
<1>13. ASSUME NEW t \in Timers, Check(t) PROVE MapsTyped' /\ RestTyped'
  <2>1. \E s \in JobStages : Stage(t, s)
    BY <1>13 DEF Check, JobStages
  <2>2. runs' \in [Timers -> Nat]
    BY <1>13, <1>a DEF Check
  <2> QED
    BY <1>13, <1>a, <2>1, <2>2, StageTyped DEF Check
<1>14. ASSUME NEW t \in Timers, Return(t) PROVE MapsTyped' /\ RestTyped'
  <2>1. \E s \in JobStages : Stage(t, s)
    BY <1>14 DEF Return, JobStages
  <2>2. ended' \in [Timers -> Nat]
    BY <1>14, <1>a DEF Return
  <2> QED
    BY <1>14, <1>a, <2>1, <2>2, StageTyped DEF Return
<1>15. ASSUME NEW t \in Timers, Skip(t) \/ Count(t) \/ FinishOnce(t) \/ Test(t) PROVE MapsTyped' /\ RestTyped'
  <2>1. \E s \in JobStages : Stage(t, s)
    BY <1>15 DEF Skip, Count, FinishOnce, Test, JobStages
  <2>2. UNCHANGED <<plan, clock, heap, mem, handle, token, wakeup, ctl, history>>
    BY <1>15 DEF Skip, Count, FinishOnce, Test
  <2> QED
    BY <1>a, <2>1, <2>2, StageTyped
<1>16. ASSUME NEW t \in Timers, FinishAgain(t) PROVE MapsTyped' /\ RestTyped'
  <2>1. \E s \in JobStages : Stage(t, s)
    BY <1>16 DEF FinishAgain, JobStages
  <2>2. heap' \in [Timers -> Int] /\ wakeup' = TRUE
        /\ UNCHANGED <<plan, clock, mem, handle, token, ctl, history>>
    BY <1>16, <1>a DEF FinishAgain, Enqueue, Wake
  <2> QED
    BY <1>a, <2>1, <2>2, StageTyped
<1>17. ASSUME NEW t \in Timers, FinishLast(t) \/ Free(t) PROVE MapsTyped' /\ RestTyped'
  <2>1. \E s \in JobStages : Stage(t, s)
    BY <1>17 DEF FinishLast, Free, JobStages
  <2>2. mem' \in [Timers -> {"none", "live", "freed"}]
    BY <1>17, <1>a, DisposeTyped DEF FinishLast, Free
  <2>3. UNCHANGED <<plan, clock, heap, handle, token, wakeup, ctl, history>>
    BY <1>17 DEF FinishLast, Free
  <2> QED
    BY <1>a, <2>1, <2>2, <2>3, StageTyped
<1>18. ASSUME Shutdown \/ Closing \/ SetCallbackExecutor PROVE MapsTyped' /\ RestTyped'
  BY <1>18, <1>a DEF Shutdown, Closing, ShutdownSignal, ShutdownJoin, SetCallbackExecutor, Wake
<1>19. ASSUME Destroy PROVE MapsTyped' /\ RestTyped'
  <2>1. mem' \in [Timers -> {"none", "live", "freed"}]
    BY <1>19, DisposeTyped DEF Destroy
  <2> QED
    BY <1>19, <1>a, <2>1 DEF Destroy
<1>20. CASE UNCHANGED vars
  BY <1>20, <1>a DEF vars
<1> QED
  BY <1>1, <1>2, <1>3, <1>4, <1>5, <1>6, <1>7, <1>8, <1>9, <1>10, <1>11, <1>12, <1>13, <1>14, <1>15,
     <1>16, <1>17, <1>18, <1>19, <1>20
  DEF Next, ThreadStep, Scan, Dispatch, JobStep, HandleCall

\* Every step keeps the types.
LEMMA TypedStep == Typed /\ [Next]_vars => Typed'
BY EntryStep, MapsStep DEF Typed

-----------------------------------------------------------------------------
(* One timer at a time *)

\* The timer thread has taken t from the queue and not passed it on.
InHand(t) == t \in best /\ thread \in {"due", "submit"}

\* A task in the pool, which holds a reference.
InPool(t) == job[t] \in {"check", "call", "count", "finish", "skip", "lost"} /\ ~OnThread(t)

\* The thread has one timer at most, and one exactly between taking it and the
\* end of its dispatch.
OneBest ==
  /\ \A t, u \in best : t = u
  /\ best # {} <=> thread \in {"due", "submit", "callback"}

\* A timer is in the queue, in the hand of the thread or has a callback, but never
\* two of these; InHeap tells whether it is in the queue.
Exclusive(t) ==
  /\ heap[t] = (IF entry[t].inHeap THEN 1 ELSE 0)
  /\ entry[t].inHeap => t \notin best /\ job[t] = "idle"
  /\ InHand(t) => job[t] = "idle"
  /\ OnThread(t) => job[t] \notin {"idle", "lost"}
  /\ job[t] = "test" => OnThread(t)

\* The reference count: the handle, the task about to be submitted, the task in
\* the pool.
Counted(t) ==
  entry[t].refs = (IF handle[t] THEN 1 ELSE 0)
                  + (IF InPool(t) \/ (t \in best /\ thread = "submit") THEN 1 ELSE 0)

\* An entry that was not scheduled yet is blank and nowhere.
Unscheduled(t) ==
  mem[t] = "none" =>
    entry[t] = Blank /\ ~handle[t] /\ job[t] = "idle" /\ t \notin best /\ runs[t] = 0

\* A paused timer is periodic, and was paused in the queue if it may be resumed.
PausedApart(t) ==
  entry[t].paused =>
    /\ Kind[t] # "once"
    /\ "Resume" \in plan.calls[t] => ~entry[t].inHeap /\ job[t] = "idle" /\ t \notin best

Placed(t) == Exclusive(t) /\ Counted(t) /\ Unscheduled(t) /\ PausedApart(t)

\* What PausesInQueue says of one timer.
Regular(t) == Kind[t] = "once" \/ ~({"Pause", "Resume"} \subseteq plan.calls[t])

HInv == Typed /\ OneBest /\ \A t \in Timers : Regular(t) => Placed(t)

\* The step leaves timer u alone.
Alike(u) ==
  /\ entry'[u] = entry[u] /\ heap'[u] = heap[u] /\ mem'[u] = mem[u]
  /\ handle'[u] = handle[u] /\ job'[u] = job[u]
  /\ runs'[u] = runs[u] /\ ended'[u] = ended[u] /\ late'[u] = late[u]
  /\ u \in quiet' <=> u \in quiet
  /\ u \in best' <=> u \in best
  /\ u \in best => thread' = thread
  /\ plan' = plan /\ clock' = clock

\* A timer that a step leaves alone stays where it is.
LEMMA AlikePlaced ==
  ASSUME NEW u \in Timers, Placed(u), Alike(u)
  PROVE  Placed(u)'
BY DEF Placed, Exclusive, Counted, Unscheduled, PausedApart, Alike, InHand, InPool, OnThread, Blank

\* What each step does to the timer it is about, and that it leaves the others
\* alone.
Others(t) == \A u \in Timers : u # t => Alike(u)

DoesSchedule(t) ==
  /\ mem[t] = "none" /\ mem'[t] = "live" /\ handle'[t] = TRUE /\ heap'[t] = heap[t] + 1
  /\ \E d \in Nat : clock <= d /\ entry'[t] = [Blank EXCEPT !.deadline = d, !.refs = 1, !.inHeap = TRUE]
  /\ wakeup' = TRUE /\ ~shuttingDown
  /\ UNCHANGED <<plan, clock, sched, ctl, job, history>>

DoesCancel(t) ==
  /\ handle[t] /\ ~entry[t].cancelled
  /\ "Cancel" \in plan.calls[t] \/ entry[t].inHeap
  /\ entry'[t] = [entry[t] EXCEPT !.cancelled = TRUE, !.dead = TRUE]
  /\ t \in quiet' <=> t \in quiet \/ entry[t].inHeap
  /\ UNCHANGED <<plan, clock, heap, mem, handle, wakeup, sched, ctl, job, runs, ended, late>>

DoesDrop(t) ==
  /\ handle[t] /\ ~handle'[t] /\ "Destroy" \in plan.calls[t]
  /\ entry'[t] = [entry[t] EXCEPT !.refs = @ - 1]
  /\ mem'[t] = IF Disposable(entry'[t]) THEN "freed" ELSE mem[t]
  /\ UNCHANGED <<plan, clock, heap, wakeup, sched, ctl, job, history>>

DoesResetAt(t) ==
  /\ handle[t] /\ CanReset(t)
  /\ \E d \in Nat : entry'[t] = [entry[t] EXCEPT !.deadline = d]
  /\ wakeup' = TRUE
  /\ UNCHANGED <<plan, clock, heap, mem, handle, sched, ctl, job, history>>

DoesPause(t) ==
  /\ handle[t] /\ Kind[t] # "once" /\ ~entry[t].cancelled /\ ~entry[t].dead /\ ~entry[t].paused
  /\ "Pause" \in plan.calls[t] \/ ("PauseQueued" \in plan.calls[t] /\ entry[t].inHeap)
  /\ entry'[t] = [entry[t] EXCEPT !.paused = TRUE, !.inHeap = FALSE]
  /\ heap'[t] = IF entry[t].inHeap THEN heap[t] - 1 ELSE heap[t]
  /\ UNCHANGED <<plan, clock, mem, handle, wakeup, sched, ctl, job, history>>

DoesResume(t) ==
  /\ handle[t] /\ Kind[t] # "once" /\ closer # "destroyed" /\ "Resume" \in plan.calls[t]
  /\ ~entry[t].cancelled /\ ~entry[t].dead /\ entry[t].paused
  /\ \E b \in BOOLEAN :
       /\ entry[t].inHeap => b
       /\ entry'[t] = [entry[t] EXCEPT !.paused = FALSE, !.deadline = clock + Period[t], !.inHeap = b]
       /\ IF ~entry[t].inHeap /\ b THEN heap'[t] = heap[t] + 1 /\ wakeup' = TRUE
                                   ELSE heap'[t] = heap[t] /\ UNCHANGED wakeup
  /\ UNCHANGED <<plan, clock, mem, handle, sched, ctl, job, history>>

DoesSetMax(t) ==
  /\ handle[t] /\ Kind[t] # "once" /\ ~entry[t].cancelled
  /\ \E n \in Nat \ {0} : entry'[t] = [entry[t] EXCEPT !.max = n]
  /\ late'[t] = entry[t].count
  /\ UNCHANGED <<plan, clock, heap, mem, handle, wakeup, sched, ctl, job, runs, ended, quiet>>

\* The handle calls do that.
LEMMA HandleEffects ==
  ASSUME Typed, NEW t \in Timers
  PROVE  /\ Schedule(t) => DoesSchedule(t) /\ Others(t)
         /\ Cancel(t) => DoesCancel(t) /\ Others(t)
         /\ Drop(t) => DoesDrop(t) /\ Others(t)
         /\ ResetAt(t) => DoesResetAt(t) /\ Others(t)
         /\ Pause(t) => DoesPause(t) /\ Others(t)
         /\ Resume(t) => DoesResume(t) /\ Others(t)
         /\ SetMaxExecutions(t) => DoesSetMax(t) /\ Others(t)
         /\ CancelToken(t) => Alike(t) /\ Others(t)
<1>a. /\ entry \in [Timers -> EntryFields] /\ heap \in [Timers -> Int]
      /\ mem \in [Timers -> {"none", "live", "freed"}] /\ handle \in [Timers -> BOOLEAN]
      /\ late \in [Timers -> Nat] /\ clock \in Nat /\ plan \in Plans
  BY DEF Typed, EntryTyped, MapsTyped, RestTyped
<1> USE DEF Others, Alike
<1>1. ASSUME Schedule(t) PROVE DoesSchedule(t) /\ Others(t)
  <2>1. PICK d \in Delays : entry' = [entry EXCEPT ![t] = [Blank EXCEPT !.deadline = clock + d,
                                                                     !.refs = 1, !.inHeap = TRUE]]
    BY <1>1 DEF Schedule
  <2>2. clock + d \in Nat /\ clock <= clock + d
    BY <1>a, Constants
  <2> QED
    BY <1>1, <1>a, <2>1, <2>2 DEF Schedule, DoesSchedule, Enqueue, Wake
<1>2. ASSUME Cancel(t) PROVE DoesCancel(t) /\ Others(t)
  BY <1>2, <1>a DEF Cancel, DoesCancel, May
<1>3. ASSUME Drop(t) PROVE DoesDrop(t) /\ Others(t)
  <2>1. mem'[t] = IF Disposable(entry'[t]) THEN "freed" ELSE mem[t]
    BY <1>3 DEF Drop, Dispose
  <2>2. \A u \in Timers : u # t => mem'[u] = mem[u]
    BY <1>3 DEF Drop, Dispose
  <2> QED
    BY <1>3, <1>a, <2>1, <2>2 DEF Drop, DoesDrop, May
<1>4. ASSUME ResetAt(t) PROVE DoesResetAt(t) /\ Others(t)
  <2>1. PICK d \in 0 .. plan.horizon : entry' = [entry EXCEPT ![t].deadline = d]
    BY <1>4 DEF ResetAt
  <2>2. d \in Nat
    BY <1>a, Constants
  <2> QED
    BY <1>4, <1>a, <2>1, <2>2 DEF ResetAt, DoesResetAt, May, Wake
<1>5. ASSUME Pause(t) PROVE DoesPause(t) /\ Others(t)
  BY <1>5, <1>a DEF Pause, DoesPause, May, Remove
<1>6. ASSUME Resume(t) PROVE DoesResume(t) /\ Others(t)
  <2>1. PICK b \in BOOLEAN : b = (entry[t].inHeap \/ HasRoom)
    BY Zenon
  <2>2. entry' = [entry EXCEPT ![t] = [entry[t] EXCEPT !.paused = FALSE, !.deadline = clock + Period[t],
                                                       !.inHeap = b]]
    BY <1>6, <1>a, <2>1 DEF Resume
  <2>3. IF ~entry[t].inHeap /\ b THEN heap' = [heap EXCEPT ![t] = heap[t] + 1] /\ wakeup' = TRUE
                                 ELSE heap' = heap /\ UNCHANGED wakeup
    BY <1>6, <2>1 DEF Resume, Enqueue, Wake
  <2>4. entry[t].inHeap => b
    BY <2>1
  <2>5. /\ handle[t] /\ Kind[t] # "once" /\ closer # "destroyed" /\ "Resume" \in plan.calls[t]
        /\ ~entry[t].cancelled /\ ~entry[t].dead /\ entry[t].paused
        /\ UNCHANGED <<plan, clock, mem, handle, sched, ctl, job, history>>
    BY <1>6 DEF Resume, May
  <2> QED
    BY <1>a, <2>2, <2>3, <2>4, <2>5 DEF DoesResume
<1>7. ASSUME SetMaxExecutions(t) PROVE DoesSetMax(t) /\ Others(t)
  <2>1. PICK n \in Limits : entry' = [entry EXCEPT ![t].max = n]
    BY <1>7 DEF SetMaxExecutions
  <2>2. n \in Nat \ {0}
    BY Constants
  <2> QED
    BY <1>7, <1>a, <2>1, <2>2 DEF SetMaxExecutions, DoesSetMax, May
<1>8. ASSUME CancelToken(t) PROVE Alike(t) /\ Others(t)
  BY <1>8 DEF CancelToken
<1> QED
  BY <1>1, <1>2, <1>3, <1>4, <1>5, <1>6, <1>7, <1>8

\* The dispatch of the timer in hand.
DoesDirect(t) ==
  /\ thread = "due" /\ t \in best /\ ~async
  /\ thread' = "callback" /\ job'[t] = "check"
  /\ UNCHANGED <<plan, clock, heap, entry, mem, handle, wakeup, best, until, ctl, history>>

DoesHold(t) ==
  /\ thread = "due" /\ t \in best /\ async
  /\ entry'[t] = [entry[t] EXCEPT !.refs = @ + 1] /\ thread' = "submit"
  /\ UNCHANGED <<plan, clock, heap, mem, handle, wakeup, best, until, ctl, job, history>>

DoesSubmit(t) ==
  /\ thread = "submit" /\ t \in best
  /\ thread' = "top" /\ best' = {} /\ job'[t] \in {"check", "lost"}
  /\ UNCHANGED <<plan, clock, heap, entry, mem, handle, wakeup, until, ctl, history>>

DoesRaise(t) ==
  /\ thread = "submit" /\ t \in best /\ (plan.refusal = "Abort" \/ ~async)
  /\ entry'[t] = [entry[t] EXCEPT !.refs = @ - 1]
  /\ thread' = "callback" /\ job'[t] = "check"
  /\ UNCHANGED <<plan, clock, heap, mem, handle, wakeup, best, until, ctl, history>>

\* The dispatch does that.
LEMMA DispatchEffects ==
  ASSUME Typed, OneBest, NEW t \in Timers
  PROVE  /\ Direct(t) => DoesDirect(t) /\ Others(t)
         /\ Hold(t) => DoesHold(t) /\ Others(t)
         /\ Submit(t) \/ SubmitDiscarded(t) => DoesSubmit(t) /\ Others(t)
         /\ SubmitRaises(t) => DoesRaise(t) /\ Others(t)
<1>a. entry \in [Timers -> EntryFields] /\ job \in [Timers -> JobStages]
  BY DEF Typed, EntryTyped, MapsTyped
<1>b. t \in best => \A u \in Timers : u # t => u \notin best
  BY DEF OneBest
<1> USE DEF Others, Alike
<1>1. ASSUME Direct(t) PROVE DoesDirect(t) /\ Others(t)
  BY <1>1, <1>a, <1>b DEF Direct, DoesDirect
<1>2. ASSUME Hold(t) PROVE DoesHold(t) /\ Others(t)
  BY <1>2, <1>a, <1>b DEF Hold, DoesHold
<1>3. ASSUME Submit(t) \/ SubmitDiscarded(t) PROVE DoesSubmit(t) /\ Others(t)
  BY <1>3, <1>a, <1>b DEF Submit, SubmitDiscarded, DoesSubmit
<1>4. ASSUME SubmitRaises(t) PROVE DoesRaise(t) /\ Others(t)
  BY <1>4, <1>a, <1>b DEF SubmitRaises, DoesRaise
<1> QED
  BY <1>1, <1>2, <1>3, <1>4

\* The callback goes on to stage s.
Moves(t, s) ==
  /\ job'[t] = s /\ until' = until
  /\ IF s = "idle" /\ OnThread(t) THEN thread' = "top" /\ best' = {}
                                  ELSE thread' = thread /\ best' = best

DoesCheck(t) ==
  /\ job[t] = "check"
  /\ \/ Moves(t, "skip") /\ runs'[t] = runs[t]
     \/ Moves(t, "call") /\ runs'[t] = runs[t] + 1
  /\ UNCHANGED <<plan, clock, heap, entry, mem, handle, wakeup, ctl, ended, quiet, late>>

DoesSkip(t) ==
  /\ job[t] = "skip"
  /\ entry'[t] = [entry[t] EXCEPT !.cancelled = TRUE, !.dead = TRUE, !.refs = RefsAfter(t)]
  /\ Moves(t, IF OnThread(t) THEN "test" ELSE IF Disposable(entry'[t]) THEN "free" ELSE "idle")
  /\ UNCHANGED <<plan, clock, heap, mem, handle, wakeup, ctl, history>>

DoesReturn(t) ==
  /\ job[t] = "call"
  /\ Moves(t, "count") \/ Moves(t, "finish")
  /\ ended'[t] = IF Kind[t] = "fixedDelay" THEN clock ELSE ended[t]
  /\ UNCHANGED <<plan, clock, heap, entry, mem, handle, wakeup, ctl, runs, quiet, late>>

DoesCount(t) ==
  /\ job[t] = "count"
  /\ \E b, c \in BOOLEAN :
       /\ b = (entry[t].cancelled \/ LimitReached(t)) /\ c = (entry[t].dead \/ LimitReached(t))
       /\ entry'[t] = [entry[t] EXCEPT !.count = @ + 1, !.cancelled = b, !.dead = c]
  /\ Moves(t, "finish")
  /\ UNCHANGED <<plan, clock, heap, mem, handle, wakeup, ctl, history>>

DoesFinishAgain(t) ==
  /\ job[t] = "finish" /\ Kind[t] # "once" /\ ~entry[t].cancelled
  /\ entry'[t] = [entry[t] EXCEPT !.refs = RefsAfter(t), !.inHeap = TRUE, !.deadline = Rearmed(t)]
  /\ heap'[t] = heap[t] + 1 /\ wakeup' = TRUE /\ ~shuttingDown
  /\ Moves(t, "idle")
  /\ UNCHANGED <<plan, clock, mem, handle, ctl, history>>

DoesFinishLast(t) ==
  /\ job[t] = "finish" /\ Kind[t] # "once"
  /\ \E d \in Nat : entry'[t] = [entry[t] EXCEPT !.refs = RefsAfter(t), !.dead = TRUE, !.deadline = d]
  /\ IF OnThread(t)
     THEN Moves(t, "idle") /\ mem'[t] = IF Disposable(entry'[t]) THEN "freed" ELSE mem[t]
     ELSE Moves(t, IF Disposable(entry'[t]) THEN "free" ELSE "idle") /\ mem'[t] = mem[t]
  /\ UNCHANGED <<plan, clock, heap, handle, wakeup, ctl, history>>

DoesFinishOnce(t) ==
  /\ job[t] = "finish" /\ Kind[t] = "once"
  /\ entry'[t] = [entry[t] EXCEPT !.refs = RefsAfter(t), !.dead = TRUE]
  /\ Moves(t, IF OnThread(t) THEN "test" ELSE IF Disposable(entry'[t]) THEN "free" ELSE "idle")
  /\ UNCHANGED <<plan, clock, heap, mem, handle, wakeup, ctl, history>>

DoesTest(t) ==
  /\ job[t] = "test"
  /\ Moves(t, IF Disposable(entry[t]) THEN "free" ELSE "idle")
  /\ UNCHANGED <<plan, clock, heap, entry, mem, handle, wakeup, ctl, history>>

DoesFree(t) ==
  /\ job[t] = "free" /\ mem'[t] = "freed" /\ Moves(t, "idle")
  /\ UNCHANGED <<plan, clock, heap, entry, handle, wakeup, ctl, history>>

\* A stage concerns one callback.
LEMMA StageEffect ==
  ASSUME Typed, OneBest, NEW t \in Timers, NEW s, Stage(t, s)
  PROVE  /\ Moves(t, s)
         /\ \A u \in Timers : u # t => /\ job'[u] = job[u] /\ (u \in best' <=> u \in best)
                                       /\ u \in best => thread' = thread
<1>1. job \in [Timers -> JobStages]
  BY DEF Typed, MapsTyped
<1>2. OnThread(t) => \A u \in Timers : u # t => u \notin best
  BY DEF OneBest, OnThread
<1> QED
  BY <1>1, <1>2 DEF Stage, Moves

\* The callbacks do that.
LEMMA JobEffects ==
  ASSUME Typed, OneBest, NEW t \in Timers
  PROVE  /\ Check(t) => DoesCheck(t) /\ Others(t)
         /\ Skip(t) => DoesSkip(t) /\ Others(t)
         /\ Return(t) => DoesReturn(t) /\ Others(t)
         /\ Count(t) => DoesCount(t) /\ Others(t)
         /\ FinishAgain(t) => DoesFinishAgain(t) /\ Others(t)
         /\ FinishLast(t) => DoesFinishLast(t) /\ Others(t)
         /\ FinishOnce(t) => DoesFinishOnce(t) /\ Others(t)
         /\ Test(t) => DoesTest(t) /\ Others(t)
         /\ Free(t) => DoesFree(t) /\ Others(t)
<1>a. /\ entry \in [Timers -> EntryFields] /\ heap \in [Timers -> Int] /\ clock \in Nat
      /\ runs \in [Timers -> Nat] /\ ended \in [Timers -> Nat] /\ Period[t] \in Nat
      /\ mem \in [Timers -> {"none", "live", "freed"}]
  BY Constants DEF Typed, EntryTyped, MapsTyped, RestTyped
<1> DEFINE Rest == \A u \in Timers : u # t => /\ job'[u] = job[u] /\ (u \in best' <=> u \in best)
                                              /\ u \in best => thread' = thread
<1>b. ASSUME NEW s, Stage(t, s) PROVE Moves(t, s) /\ Rest
  BY <1>b, StageEffect
<1> HIDE DEF Rest
<1>1. ASSUME Check(t) PROVE DoesCheck(t) /\ Others(t)
  <2>1. CASE token[t]
    <3>1. Moves(t, "skip") /\ Rest
      BY <1>1, <1>b, <2>1 DEF Check
    <3> QED
      BY <1>1, <1>a, <2>1, <3>1 DEF Check, DoesCheck, Others, Alike, Rest
  <2>2. CASE ~token[t]
    <3>1. Moves(t, "call") /\ Rest
      BY <1>1, <1>b, <2>2 DEF Check
    <3> QED
      BY <1>1, <1>a, <2>2, <3>1 DEF Check, DoesCheck, Others, Alike, Rest
  <2> QED
    BY <2>1, <2>2
<1>2. ASSUME Skip(t) PROVE DoesSkip(t) /\ Others(t)
  <2>1. Moves(t, IF OnThread(t) THEN "test" ELSE IF Disposable(entry'[t]) THEN "free" ELSE "idle") /\ Rest
    BY <1>2, <1>b DEF Skip
  <2> QED
    BY <1>2, <1>a, <2>1 DEF Skip, DoesSkip, Others, Alike, Rest
<1>3. ASSUME Return(t) PROVE DoesReturn(t) /\ Others(t)
  <2>1. (Moves(t, "count") \/ Moves(t, "finish")) /\ Rest
    BY <1>3, <1>b DEF Return
  <2> QED
    BY <1>3, <1>a, <2>1 DEF Return, DoesReturn, Others, Alike, Rest
<1>4. ASSUME Count(t) PROVE DoesCount(t) /\ Others(t)
  <2>1. Moves(t, "finish") /\ Rest
    BY <1>4, <1>b DEF Count
  <2>2. PICK b, c \in BOOLEAN :
          b = (entry[t].cancelled \/ LimitReached(t)) /\ c = (entry[t].dead \/ LimitReached(t))
    BY Zenon
  <2>3. entry' = [entry EXCEPT ![t] = [entry[t] EXCEPT !.count = @ + 1, !.cancelled = b, !.dead = c]]
    BY <1>4, <1>a, <2>2 DEF Count
  <2>4. UNCHANGED <<plan, clock, heap, mem, handle, wakeup, ctl, history>> /\ job[t] = "count"
    BY <1>4 DEF Count
  <2>5. entry'[t] = [entry[t] EXCEPT !.count = @ + 1, !.cancelled = b, !.dead = c]
    BY <1>a, <2>3
  <2>6. DoesCount(t)
    BY <2>1, <2>2, <2>4, <2>5, Zenon DEF DoesCount
  <2>7. Others(t)
    BY <1>a, <2>1, <2>3, <2>4 DEF Others, Alike, Rest
  <2> QED
    BY <2>6, <2>7
<1>5. ASSUME FinishAgain(t) PROVE DoesFinishAgain(t) /\ Others(t)
  <2>1. Moves(t, "idle") /\ Rest
    BY <1>5, <1>b DEF FinishAgain
  <2> QED
    BY <1>5, <1>a, <2>1 DEF FinishAgain, DoesFinishAgain, Others, Alike, Rest, Enqueue, Wake
<1>6. ASSUME FinishLast(t) PROVE DoesFinishLast(t) /\ Others(t)
  <2>1. PICK d \in Nat : d = IF entry[t].cancelled \/ shuttingDown THEN entry[t].deadline ELSE Rearmed(t)
    BY <1>a DEF EntryFields, Rearmed
  <2>2. entry' = [entry EXCEPT ![t] = [entry[t] EXCEPT !.refs = RefsAfter(t), !.dead = TRUE, !.deadline = d]]
    BY <1>6, <1>a, <2>1 DEF FinishLast
  <2>3. /\ UNCHANGED <<plan, clock, heap, handle, token, wakeup, ctl, history>>
        /\ job[t] = "finish" /\ Kind[t] # "once"
    BY <1>6 DEF FinishLast
  <2>4. CASE OnThread(t)
    <3>1. Moves(t, "idle") /\ Rest
      BY <1>6, <1>b, <2>4 DEF FinishLast
    <3>2. mem'[t] = IF Disposable(entry'[t]) THEN "freed" ELSE mem[t]
      BY <1>6, <2>4 DEF FinishLast, Dispose
    <3>3. \A u \in Timers : u # t => mem'[u] = mem[u]
      BY <1>6, <2>4 DEF FinishLast, Dispose
    <3> QED
      BY <1>a, <2>2, <2>3, <2>4, <3>1, <3>2, <3>3 DEF DoesFinishLast, Others, Alike, Rest
  <2>5. CASE ~OnThread(t)
    <3>1. Moves(t, IF Disposable(entry'[t]) THEN "free" ELSE "idle") /\ Rest /\ mem' = mem
      BY <1>6, <1>b, <2>5 DEF FinishLast
    <3> QED
      BY <1>a, <2>2, <2>3, <2>5, <3>1 DEF DoesFinishLast, Others, Alike, Rest
  <2> QED
    BY <2>4, <2>5
<1>7. ASSUME FinishOnce(t) PROVE DoesFinishOnce(t) /\ Others(t)
  <2>1. Moves(t, IF OnThread(t) THEN "test" ELSE IF Disposable(entry'[t]) THEN "free" ELSE "idle") /\ Rest
    BY <1>7, <1>b DEF FinishOnce
  <2> QED
    BY <1>7, <1>a, <2>1 DEF FinishOnce, DoesFinishOnce, Others, Alike, Rest
<1>8. ASSUME Test(t) PROVE DoesTest(t) /\ Others(t)
  <2>1. Moves(t, IF Disposable(entry[t]) THEN "free" ELSE "idle") /\ Rest
    BY <1>8, <1>b DEF Test
  <2> QED
    BY <1>8, <2>1 DEF Test, DoesTest, Others, Alike, Rest
<1>9. ASSUME Free(t) PROVE DoesFree(t) /\ Others(t)
  <2>1. Moves(t, "idle") /\ Rest
    BY <1>9, <1>b DEF Free
  <2>2. mem'[t] = "freed" /\ \A u \in Timers : u # t => mem'[u] = mem[u]
    BY <1>9 DEF Free, Dispose
  <2> QED
    BY <1>9, <2>1, <2>2 DEF Free, DoesFree, Others, Alike, Rest
<1> QED
  BY <1>1, <1>2, <1>3, <1>4, <1>5, <1>6, <1>7, <1>8, <1>9

\* ThreadProc discards u, takes t, or Destroy takes u from the queue.
Leaves(u) ==
  /\ thread = "scan" /\ heap[u] > 0 /\ Invalid(u)
  /\ \E b \in BOOLEAN : /\ b = (entry[u].dead \/ ~entry[u].paused)
                        /\ entry'[u] = [entry[u] EXCEPT !.inHeap = FALSE, !.dead = b]
  /\ heap'[u] = 0 /\ mem'[u] = IF Disposable(entry'[u]) THEN "freed" ELSE mem[u]
  /\ u \notin best /\ u \notin best'
  /\ UNCHANGED <<plan, clock, handle, ctl, job, history>>

DoesTake(t) ==
  /\ thread = "scan" /\ heap[t] > 0 /\ ~Invalid(t) /\ entry[t].deadline <= clock /\ best = {}
  /\ entry'[t] = Taken(t) /\ heap'[t] = heap[t] - 1 /\ mem'[t] = mem[t]
  /\ thread' = "due" /\ best' = {t}
  /\ UNCHANGED <<plan, clock, handle, wakeup, until, ctl, job, history>>

DoesClear(u) ==
  /\ closer = "down" /\ heap[u] > 0 /\ job[u] = "idle"
  /\ entry'[u] = [entry[u] EXCEPT !.inHeap = FALSE, !.dead = TRUE, !.cancelled = TRUE]
  /\ heap'[u] = 0 /\ mem'[u] = IF Disposable(entry'[u]) THEN "freed" ELSE mem[u]
  /\ UNCHANGED <<plan, clock, handle, wakeup, sched, shuttingDown, async, job, history>>

Ticks(u) ==
  /\ clock' = clock + 1
  /\ UNCHANGED <<plan, heap, entry, mem, handle, wakeup, sched, ctl, job, history>>

\* What a scan does to the entries it discards and to those it does not.
LEMMA DiscardEffect ==
  ASSUME Typed, OneBest, thread = "scan", NEW D \in SUBSET Queued, Discarded(D), NEW u \in Timers,
         entry'[u] = AfterDiscard(D)[u], mem'[u] = IF u \in D /\ Disposable(entry'[u]) THEN "freed" ELSE mem[u],
         heap'[u] = (IF u \in D THEN 0 ELSE heap[u]), u \notin best',
         UNCHANGED <<plan, clock, handle, ctl, job, history>>
  PROVE  Leaves(u) \/ Alike(u)
<1>1. best = {}
  BY DEF OneBest
<1>2. CASE u \in D
  <2>1. heap[u] > 0 /\ Invalid(u)
    BY <1>2 DEF Discarded, Valid, Queued
  <2>2. PICK b \in BOOLEAN : b = (entry[u].dead \/ ~entry[u].paused)
    BY Zenon
  <2>3. entry'[u] = [entry[u] EXCEPT !.inHeap = FALSE, !.dead = b]
    BY <1>2, <2>2 DEF AfterDiscard
  <2>4. heap'[u] = 0 /\ mem'[u] = (IF Disposable(entry'[u]) THEN "freed" ELSE mem[u])
    BY <1>2
  <2> QED
    BY <1>1, <2>1, <2>2, <2>3, <2>4, Zenon DEF Leaves
<1>3. CASE u \notin D
  BY <1>1, <1>3 DEF AfterDiscard, Alike
<1> QED
  BY <1>2, <1>3

\* The scans do that.
LEMMA ScanEffects ==
  ASSUME Typed, OneBest, NEW t \in Timers
  PROVE  /\ ScanEmpty \/ ScanEarly(t) => \A u \in Timers : Leaves(u) \/ Alike(u)
         /\ ScanDue(t) => DoesTake(t) /\ \A u \in Timers : u # t => Leaves(u) \/ Alike(u)
<1>1. ASSUME ScanEmpty, NEW u \in Timers PROVE Leaves(u) \/ Alike(u)
  <2>1. Queued \in SUBSET Queued /\ Discarded(Queued)
    BY <1>1 DEF ScanEmpty, Discarded, Valid, Queued
  <2>2. /\ thread = "scan" /\ best = {} /\ u \notin best' /\ entry'[u] = AfterDiscard(Queued)[u]
        /\ UNCHANGED <<plan, clock, handle, ctl, job, history>>
    BY <1>1 DEF ScanEmpty, OneBest
  <2>3. mem'[u] = IF u \in Queued /\ Disposable(entry'[u]) THEN "freed" ELSE mem[u]
    BY <1>1 DEF ScanEmpty, Discard, Dispose
  <2>4. heap'[u] = (IF u \in Queued THEN 0 ELSE heap[u])
    BY <1>1 DEF ScanEmpty, Discard
  <2> QED
    BY <2>1, <2>2, <2>3, <2>4, DiscardEffect
<1>2. ASSUME ScanEarly(t), NEW u \in Timers PROVE Leaves(u) \/ Alike(u)
  <2>1. PICK D \in SUBSET Queued : Discarded(D) /\ entry' = AfterDiscard(D) /\ Discard(D)
    BY <1>2 DEF ScanEarly
  <2>2. /\ thread = "scan" /\ best = {} /\ u \notin best' /\ entry'[u] = AfterDiscard(D)[u]
        /\ UNCHANGED <<plan, clock, handle, ctl, job, history>>
    BY <1>2, <2>1 DEF ScanEarly, OneBest
  <2>3. mem'[u] = IF u \in D /\ Disposable(entry'[u]) THEN "freed" ELSE mem[u]
    BY <2>1 DEF Discard, Dispose
  <2>4. heap'[u] = (IF u \in D THEN 0 ELSE heap[u])
    BY <2>1 DEF Discard
  <2> QED
    BY <2>1, <2>2, <2>3, <2>4, DiscardEffect
<1>3. ASSUME ScanDue(t) PROVE DoesTake(t) /\ \A u \in Timers : u # t => Leaves(u) \/ Alike(u)
  <2>1. PICK D \in SUBSET Queued :
          /\ Discarded(D)
          /\ entry' = [AfterDiscard(D) EXCEPT ![t] = Taken(t)]
          /\ Dispose({u \in D : Disposable(entry'[u])})
          /\ heap' = [u \in Timers |-> IF u \in D THEN 0 ELSE IF u = t THEN heap[u] - 1 ELSE heap[u]]
    BY <1>3 DEF ScanDue
  <2>2. /\ thread = "scan" /\ best = {} /\ thread' = "due" /\ best' = {t} /\ entry[t].deadline <= clock
        /\ UNCHANGED <<plan, clock, handle, wakeup, until, ctl, job, history>>
        /\ t \in Valid
    BY <1>3 DEF ScanDue, OneBest, Earliest
  <2>3. heap[t] > 0 /\ ~Invalid(t) /\ t \notin D
    BY <2>1, <2>2 DEF Discarded, Valid, Queued
  <2>4. entry'[t] = Taken(t) /\ heap'[t] = heap[t] - 1 /\ mem'[t] = mem[t]
    <3>1. AfterDiscard(D) \in [Timers -> EntryFields]
      BY DiscardTyped DEF Queued
    <3> QED
      BY <2>1, <2>3, <3>1 DEF Dispose
  <2>5. DoesTake(t)
    BY <2>2, <2>3, <2>4 DEF DoesTake
  <2>6. ASSUME NEW u \in Timers, u # t PROVE Leaves(u) \/ Alike(u)
    <3>1. entry'[u] = AfterDiscard(D)[u] /\ u \notin best'
      BY <2>1, <2>2, <2>6 DEF AfterDiscard
    <3>2. mem'[u] = IF u \in D /\ Disposable(entry'[u]) THEN "freed" ELSE mem[u]
      BY <2>1 DEF Dispose
    <3>3. heap'[u] = (IF u \in D THEN 0 ELSE heap[u])
      BY <2>1, <2>6
    <3> QED
      BY <2>1, <2>2, <3>1, <3>2, <3>3, DiscardEffect
  <2> QED
    BY <2>5, <2>6
<1> QED
  BY <1>1, <1>2, <1>3

\* So does Destroy.
LEMMA DestroyEffect ==
  ASSUME HInv, Destroy, NEW u \in Timers, Regular(u)
  PROVE  DoesClear(u) \/ Alike(u)
<1>1. heap[u] \in {0, 1}
  BY DEF HInv, Placed, Exclusive
<1>2. mem'[u] = IF u \in Queued /\ Disposable(entry'[u]) THEN "freed" ELSE mem[u]
  BY DEF Destroy, Dispose
<1>3. CASE heap[u] > 0
  BY <1>2, <1>3 DEF Destroy, DoesClear, Cleared, Queued
<1>4. CASE heap[u] = 0
  <2>1. u \notin Queued
    BY <1>4 DEF Queued
  <2>2. entry'[u] = entry[u] /\ heap'[u] = heap[u] /\ mem'[u] = mem[u]
    BY <1>2, <1>4, <2>1 DEF Destroy, Cleared
  <2> QED
    BY <2>2 DEF Destroy, Alike
<1> QED
  BY <1>1, <1>3, <1>4

\* All that a step can do to a timer.
TimerStep(t) ==
  \/ Alike(t) \/ Ticks(t)
  \/ DoesSchedule(t) \/ DoesCancel(t) \/ DoesDrop(t) \/ DoesResetAt(t) \/ DoesPause(t) \/ DoesResume(t)
  \/ DoesSetMax(t)
  \/ Leaves(t) \/ DoesTake(t) \/ DoesClear(t)
  \/ DoesDirect(t) \/ DoesHold(t) \/ DoesSubmit(t) \/ DoesRaise(t)
  \/ DoesCheck(t) \/ DoesSkip(t) \/ DoesReturn(t) \/ DoesCount(t) \/ DoesFinishAgain(t)
  \/ DoesFinishLast(t) \/ DoesFinishOnce(t) \/ DoesTest(t) \/ DoesFree(t)

\* There is nothing else.
LEMMA EveryStep ==
  ASSUME HInv, [Next]_vars, NEW u \in Timers, Regular(u)
  PROVE  TimerStep(u)
<1>a. Typed /\ OneBest
  BY DEF HInv
<1>1. ASSUME NEW t \in Timers, HandleCall(t) PROVE TimerStep(u)
  <2>1. Others(t) => u = t \/ Alike(u)
    BY DEF Others
  <2> QED
    BY <1>1, <1>a, <2>1, HandleEffects DEF HandleCall, TimerStep
<1>2. ASSUME NEW t \in Timers, JobStep(t) PROVE TimerStep(u)
  <2>1. Others(t) => u = t \/ Alike(u)
    BY DEF Others
  <2> QED
    BY <1>2, <1>a, <2>1, JobEffects DEF JobStep, TimerStep
<1>3. ASSUME Dispatch PROVE TimerStep(u)
  <2>1. PICK t \in Timers : Direct(t) \/ Hold(t) \/ Submit(t) \/ SubmitRaises(t) \/ SubmitDiscarded(t)
    BY <1>3 DEF Dispatch
  <2>2. Others(t) => u = t \/ Alike(u)
    BY DEF Others
  <2> QED
    BY <1>a, <2>1, <2>2, DispatchEffects DEF TimerStep
<1>4. ASSUME Scan PROVE TimerStep(u)
  <2>1. ASSUME ScanEmpty PROVE TimerStep(u)
    BY <2>1, <1>a, ScanEffects DEF TimerStep
  <2>2. ASSUME NEW t \in Timers, ScanEarly(t) \/ ScanDue(t) PROVE TimerStep(u)
    BY <2>2, <1>a, ScanEffects DEF TimerStep
  <2> QED
    BY <1>4, <2>1, <2>2 DEF Scan
<1>5. ASSUME Destroy PROVE TimerStep(u)
  BY <1>5, DestroyEffect DEF TimerStep
<1>6. ASSUME Tick PROVE TimerStep(u)
  BY <1>6 DEF Tick, Ticks, TimerStep
<1>7. ASSUME Top \/ Woken PROVE TimerStep(u)
  <2>1. u \notin best
    BY <1>7, <1>a DEF OneBest, Top, Woken
  <2>2. Alike(u)
    BY <1>7, <2>1 DEF Top, Woken, Alike
  <2> QED
    BY <2>2 DEF TimerStep
<1>8. ASSUME Shutdown \/ Closing \/ SetCallbackExecutor \/ UNCHANGED vars PROVE TimerStep(u)
  <2>1. Alike(u)
    BY <1>8 DEF Shutdown, Closing, ShutdownSignal, ShutdownJoin, SetCallbackExecutor, vars, Alike
  <2> QED
    BY <2>1 DEF TimerStep
<1> QED
  BY <1>1, <1>2, <1>3, <1>4, <1>5, <1>6, <1>7, <1>8 DEF Next, ThreadStep

-----------------------------------------------------------------------------
(* Where a timer is, and the queue *)

\* Timers are paused as they should be.
ResumesOnlyQueued == \A p \in Plans : PausesInQueue(p)

\* A timer stays in one place, with its references counted.
LEMMA PlacedStep ==
  ASSUME HInv, [Next]_vars, NEW t \in Timers, Regular(t)
  PROVE  Placed(t)'
<1>a. /\ entry[t] \in EntryFields /\ Placed(t) /\ heap[t] \in Int /\ OneBest /\ clock \in Nat
      /\ handle[t] \in BOOLEAN /\ job[t] \in JobStages /\ Period[t] \in Nat
      /\ thread \in {"top", "scan", "sleep", "nap", "due", "submit", "callback", "exit"}
  BY Constants DEF HInv, Typed, EntryTyped, MapsTyped, RestTyped
<1>b. Kind[t] = "once" \/ ~({"Pause", "Resume"} \subseteq plan.calls[t])
  BY DEF Regular
<1>0. TimerStep(t)
  BY EveryStep
<1>1. CASE Alike(t)
  BY <1>a, <1>1, AlikePlaced
<1> USE DEF Placed, Exclusive, Counted, Unscheduled, PausedApart, InHand, InPool, OnThread
<1>2. CASE Ticks(t)
  BY <1>a, <1>2 DEF Ticks
<1>3. CASE DoesSchedule(t)
  BY <1>a, <1>3 DEF DoesSchedule, Blank
<1>4. CASE DoesCancel(t)
  BY <1>a, <1>4 DEF DoesCancel, EntryFields
<1>5. CASE DoesDrop(t)
  BY <1>a, <1>5 DEF DoesDrop, EntryFields
<1>6. CASE DoesResetAt(t)
  BY <1>a, <1>6 DEF DoesResetAt, EntryFields
<1>7. CASE DoesPause(t)
  BY <1>a, <1>b, <1>7 DEF DoesPause, EntryFields
<1>8. CASE DoesResume(t)
  BY <1>a, <1>8 DEF DoesResume, EntryFields
<1>9. CASE DoesSetMax(t)
  BY <1>a, <1>9 DEF DoesSetMax, EntryFields
<1>10. CASE Leaves(t)
  <2>1. /\ entry'[t].inHeap = FALSE /\ entry'[t].refs = entry[t].refs /\ entry'[t].paused = entry[t].paused
    BY <1>a, <1>10 DEF Leaves, EntryFields
  <2>2. entry[t].inHeap /\ job[t] = "idle" /\ mem[t] # "none" /\ t \notin best
    BY <1>a, <1>10 DEF Leaves, Blank
  <2>3. heap'[t] = 0 /\ mem'[t] # "none" /\ t \notin best' /\ UNCHANGED <<plan, handle, job>>
    BY <2>2, <1>10 DEF Leaves
  <2> QED
    BY <1>a, <2>1, <2>2, <2>3
<1>11. CASE DoesTake(t)
  <2>1. entry[t].inHeap /\ heap[t] = 1 /\ job[t] = "idle" /\ mem[t] # "none" /\ ~entry[t].paused
    BY <1>a, <1>11 DEF DoesTake, Blank, Invalid
  <2>2. /\ entry'[t].inHeap = FALSE /\ entry'[t].refs = entry[t].refs /\ entry'[t].paused = entry[t].paused
    BY <1>a, <1>11 DEF DoesTake, EntryFields, Taken
  <2>3. /\ heap'[t] = 0 /\ mem'[t] # "none" /\ thread' = "due" /\ best' = {t} /\ best = {}
        /\ UNCHANGED <<plan, handle, job>>
    BY <2>1, <1>11 DEF DoesTake
  <2> QED
    BY <1>a, <2>1, <2>2, <2>3
<1>12. CASE DoesClear(t)
  <2>1. /\ entry'[t].inHeap = FALSE /\ entry'[t].refs = entry[t].refs /\ entry'[t].paused = entry[t].paused
    BY <1>a, <1>12 DEF DoesClear, EntryFields
  <2>2. entry[t].inHeap /\ job[t] = "idle" /\ mem[t] # "none" /\ t \notin best
    BY <1>a, <1>12 DEF DoesClear, Blank
  <2>3. heap'[t] = 0 /\ mem'[t] # "none" /\ UNCHANGED <<plan, handle, job, sched>>
    BY <2>2, <1>12 DEF DoesClear
  <2> QED
    BY <1>a, <2>1, <2>2, <2>3
<1>13. CASE DoesDirect(t)
  BY <1>a, <1>13 DEF DoesDirect
<1>14. CASE DoesHold(t)
  BY <1>a, <1>14 DEF DoesHold, EntryFields
<1>15. CASE DoesSubmit(t)
  BY <1>a, <1>15 DEF DoesSubmit
<1>16. CASE DoesRaise(t)
  BY <1>a, <1>16 DEF DoesRaise, EntryFields
<1>17. CASE DoesCheck(t)
  BY <1>a, <1>17 DEF DoesCheck, Moves
<1>18. CASE DoesSkip(t)
  BY <1>a, <1>18 DEF DoesSkip, Moves, RefsAfter, EntryFields
<1>19. CASE DoesReturn(t)
  BY <1>a, <1>19 DEF DoesReturn, Moves
<1>20. CASE DoesCount(t)
  BY <1>a, <1>20 DEF DoesCount, Moves, EntryFields
<1>21. CASE DoesFinishAgain(t)
  <2>1. job[t] = "finish" /\ ~entry[t].inHeap /\ heap[t] = 0 /\ mem[t] # "none"
    BY <1>a, <1>21 DEF DoesFinishAgain
  <2>2. /\ entry'[t].inHeap = TRUE /\ entry'[t].refs = RefsAfter(t) /\ entry'[t].paused = entry[t].paused
    BY <1>a, <1>21 DEF DoesFinishAgain, EntryFields
  <2>3. heap'[t] = 1 /\ mem'[t] = mem[t] /\ job'[t] = "idle" /\ t \notin best' /\ UNCHANGED <<plan, handle>>
    <3>1. t \in best => OnThread(t)
      BY <1>a, <2>1 DEF OneBest
    <3> QED
      BY <1>a, <2>1, <3>1, <1>21 DEF DoesFinishAgain, Moves
  <2>4. Counted(t)'
    BY <1>a, <2>1, <2>2, <2>3 DEF RefsAfter, EntryFields
  <2> QED
    BY <1>a, <2>1, <2>2, <2>3, <2>4
<1>22. CASE DoesFinishLast(t)
  BY <1>a, <1>22 DEF DoesFinishLast, Moves, RefsAfter, EntryFields
<1>23. CASE DoesFinishOnce(t)
  BY <1>a, <1>23 DEF DoesFinishOnce, Moves, RefsAfter, EntryFields
<1>24. CASE DoesTest(t)
  BY <1>a, <1>24 DEF DoesTest, Moves
<1>25. CASE DoesFree(t)
  BY <1>a, <1>25 DEF DoesFree, Moves
<1> QED
  BY <1>0, <1>1, <1>2, <1>3, <1>4, <1>5, <1>6, <1>7, <1>8, <1>9, <1>10, <1>11, <1>12, <1>13, <1>14, <1>15,
     <1>16, <1>17, <1>18, <1>19, <1>20, <1>21, <1>22, <1>23, <1>24, <1>25 DEF TimerStep

\* The thread has at most one timer.
LEMMA OneBestStep ==
  ASSUME HInv, [Next]_vars
  PROVE  OneBest'
<1>a. Typed /\ OneBest
  BY DEF HInv
<1>1. CASE best' = best /\ thread' = thread
  BY <1>1, <1>a DEF OneBest
<1>2. CASE best' = {} /\ thread' \notin {"due", "submit", "callback"}
  BY <1>2 DEF OneBest
<1>3. CASE best' = best /\ best # {} /\ thread' \in {"due", "submit", "callback"}
  BY <1>3, <1>a DEF OneBest
<1>4. ASSUME NEW t \in Timers, best' = {t}, thread' = "due" PROVE OneBest'
  BY <1>4 DEF OneBest
<1>5. ASSUME NEW t \in Timers, JobStep(t) PROVE OneBest'
  <2>1. \E s : Stage(t, s)
    BY <1>5 DEF JobStep, Check, Skip, Return, Count, FinishAgain, FinishLast, FinishOnce, Test, Free
  <2> QED
    BY <1>1, <1>2, <2>1 DEF Stage
<1>6. ASSUME NEW t \in Timers, HandleCall(t) PROVE OneBest'
  BY <1>6, <1>1 DEF HandleCall, Schedule, Cancel, Drop, ResetAt, Pause, Resume, SetMaxExecutions, CancelToken
<1>7. ASSUME Dispatch PROVE OneBest'
  BY <1>7, <1>2, <1>3 DEF Dispatch, Direct, Hold, Submit, SubmitRaises, SubmitDiscarded
<1>8. ASSUME Scan PROVE OneBest'
  <2>1. best = {} /\ thread = "scan"
    BY <1>8, <1>a DEF Scan, ScanEmpty, ScanEarly, ScanDue, OneBest
  <2>2. CASE ScanEmpty
    BY <1>2, <2>1, <2>2 DEF ScanEmpty
  <2>3. ASSUME NEW t \in Timers, ScanEarly(t) PROVE OneBest'
    BY <1>2, <2>1, <2>3 DEF ScanEarly
  <2>4. ASSUME NEW t \in Timers, ScanDue(t) PROVE OneBest'
    BY <1>4, <2>4 DEF ScanDue
  <2> QED
    BY <1>8, <2>2, <2>3, <2>4 DEF Scan
<1>9. ASSUME Top \/ Woken PROVE OneBest'
  BY <1>9, <1>2, <1>a DEF Top, Woken, OneBest
<1>10. ASSUME Tick \/ Shutdown \/ Closing \/ Destroy \/ SetCallbackExecutor \/ UNCHANGED vars PROVE OneBest'
  BY <1>10, <1>1 DEF Tick, Shutdown, Closing, ShutdownSignal, ShutdownJoin, Destroy, SetCallbackExecutor, vars
<1> QED
  BY <1>5, <1>6, <1>7, <1>8, <1>9, <1>10 DEF Next, ThreadStep

\* The program is what it is.
LEMMA PlanKept == [Next]_vars => plan' = plan
<1>1. ThreadStep => plan' = plan
  BY Zenon DEF ThreadStep, Top, Scan, ScanEmpty, ScanEarly, ScanDue, Woken, Dispatch, Direct, Hold, Submit,
     SubmitRaises, SubmitDiscarded
<1>2. ASSUME NEW t \in Timers PROVE JobStep(t) => plan' = plan
  BY Zenon DEF JobStep, Check, Skip, Return, Count, FinishAgain, FinishLast, FinishOnce, Test, Free
<1>3. ASSUME NEW t \in Timers PROVE HandleCall(t) => plan' = plan
  BY Zenon DEF HandleCall, Schedule, Cancel, Drop, ResetAt, Pause, Resume, SetMaxExecutions, CancelToken
<1>4. Tick \/ Shutdown \/ Closing \/ Destroy \/ SetCallbackExecutor \/ UNCHANGED vars => plan' = plan
  BY Zenon DEF Tick, Shutdown, Closing, ShutdownSignal, ShutdownJoin, Destroy, SetCallbackExecutor, vars
<1> QED
  BY <1>1, <1>2, <1>3, <1>4, Zenon DEF Next

\* Nothing is scheduled yet.
LEMMA PlacedInit == Init => HInv
<1> SUFFICES ASSUME Init PROVE HInv
  OBVIOUS
<1>1. Blank \in EntryFields
  BY DEF Blank, EntryFields
<1>2. EntryTyped
  BY <1>1 DEF Init, EntryTyped
<1>3. MapsTyped /\ RestTyped
  <2>1. MapsTyped
    BY DEF Init, MapsTyped, JobStages
  <2>2. plan.horizon \in Nat /\ plan.async \in BOOLEAN
    BY Constants DEF Init
  <2> QED
    <3>1. clock \in Nat /\ clock <= plan.horizon /\ until \in Nat
      BY <2>2 DEF Init
    <3>2. async \in BOOLEAN /\ shuttingDown \in BOOLEAN /\ wakeup \in BOOLEAN
      BY <2>2, Zenon DEF Init
    <3>3. /\ plan \in Plans /\ best \subseteq Timers /\ quiet \subseteq Timers
          /\ thread \in {"top", "scan", "sleep", "nap", "due", "submit", "callback", "exit"}
          /\ closer \in {"open", "flagged", "joining", "down", "destroyed"}
      BY Zenon DEF Init
    <3> QED
      BY <2>1, <3>1, <3>2, <3>3 DEF RestTyped
<1>4. OneBest
  BY DEF Init, OneBest
<1>5. ASSUME NEW t \in Timers PROVE Placed(t)
  BY DEF Init, Placed, Exclusive, Counted, Unscheduled, PausedApart, InHand, InPool, OnThread, Blank
<1> QED
  BY <1>2, <1>3, <1>4, <1>5 DEF HInv, Typed

\* The invariant holds of every reachable state.
LEMMA PlacesKept == Spec => []HInv
<1>1. HInv /\ [Next]_vars => HInv'
  <2> SUFFICES ASSUME HInv, [Next]_vars PROVE HInv'
    OBVIOUS
  <2>1. plan' = plan
    BY PlanKept
  <2>2. ASSUME NEW t \in Timers, Regular(t)' PROVE Placed(t)'
    BY <2>1, <2>2, PlacedStep DEF Regular
  <2>3. Typed' /\ OneBest'
    BY OneBestStep, TypedStep DEF HInv
  <2> QED
    BY <2>2, <2>3 DEF HInv
<1> QED
  BY <1>1, PlacedInit, PTL DEF Spec

\* The entries have their types and InHeap tells where they are: Pause, Resume,
\* the scan and the end of a callback insert and remove by that flag, and none of
\* them ever puts an entry into the queue twice or takes out one that is not there.
THEOREM QueueStaysWellFormed ==
  ASSUME ResumesOnlyQueued
  PROVE  Spec => []WellFormed
<1>1. ASSUME HInv PROVE WellFormed
  <2>1. \A t \in Timers : Placed(t)
    BY <1>1 DEF HInv, Typed, RestTyped, Regular, ResumesOnlyQueued, PausesInQueue
  <2>2. heap \in [Timers -> Nat]
    <3>1. \A t \in Timers : heap[t] \in Nat
      BY <2>1 DEF Placed, Exclusive
    <3> QED
      BY <1>1, <3>1 DEF HInv, Typed, MapsTyped
  <2>3. entry \in [Timers ->
          [deadline : Nat, cancelled : BOOLEAN, fired : BOOLEAN, dead : BOOLEAN,
           paused : BOOLEAN, inHeap : BOOLEAN, refs : 0 .. 2, count : Nat, max : Nat]]
    <3>1. ASSUME NEW t \in Timers PROVE entry[t].refs \in 0 .. 2
      BY <2>1 DEF Placed, Counted
    <3>2. entry \in [Timers -> EntryFields]
      BY <1>1 DEF HInv, Typed, EntryTyped
    <3> QED
      BY <3>1, <3>2 DEF EntryFields
  <2>4. Cardinality(best) <= 1
    <3>1. CASE best = {}
      BY <3>1, FS_EmptySet
    <3>2. ASSUME NEW t \in best PROVE Cardinality(best) <= 1
      <4>0. Cardinality({t}) = 1
        BY FS_Singleton
      <4>1. best = {t}
        BY <1>1, <3>2 DEF HInv, OneBest
      <4> QED
        BY <4>0, <4>1
    <3> QED
      BY <3>1, <3>2
  <2>5. clock \in 0 .. plan.horizon
    BY <1>1, Constants DEF HInv, Typed, RestTyped
  <2>6. InHeapOnce
    BY <2>1 DEF Placed, Exclusive, InHeapOnce
  <2> QED
    BY <1>1, <2>2, <2>3, <2>4, <2>5, <2>6
    DEF WellFormed, TypeOK, HInv, Typed, MapsTyped, RestTyped, JobStages
<1> QED
  BY <1>1, PlacesKept, PTL

-----------------------------------------------------------------------------
(* One-shot timers *)

\* The thread marks a one-shot timer when it takes it, which it does at its
\* deadline or later; until then the callback has not started, and between then
\* and its start nothing moves the deadline.
FiredOnce(t) ==
  Kind[t] = "once" =>
    /\ entry[t].fired => entry[t].deadline <= clock
    /\ ~entry[t].fired => runs[t] = 0 /\ job[t] = "idle" /\ t \notin best
    /\ InHand(t) \/ job[t] = "check" => runs[t] = 0
    /\ runs[t] <= 1

\* A timer that fired stays due, and one that did not has not started.
LEMMA FiredStep ==
  ASSUME HInv, [Next]_vars, NEW t \in Timers, FiredOnce(t)
  PROVE  FiredOnce(t)'
<1> SUFFICES ASSUME Kind[t] = "once" PROVE FiredOnce(t)'
  BY DEF FiredOnce
<1>a. /\ entry[t] \in EntryFields /\ Exclusive(t) /\ Unscheduled(t) /\ OneBest /\ clock \in Nat
      /\ job[t] \in JobStages /\ runs[t] \in Nat
      /\ thread \in {"top", "scan", "sleep", "nap", "due", "submit", "callback", "exit"}
  BY DEF HInv, Typed, EntryTyped, MapsTyped, RestTyped, Placed, Regular
<1>0. TimerStep(t)
  BY EveryStep DEF Regular
<1> USE DEF FiredOnce, InHand, OnThread
<1>1. CASE Alike(t) \/ Ticks(t)
  BY <1>a, <1>1 DEF Alike, Ticks, EntryFields
<1>2. CASE DoesSchedule(t)
  BY <1>a, <1>2 DEF DoesSchedule, Unscheduled, Blank
<1>3. CASE DoesCancel(t) \/ DoesDrop(t)
  BY <1>a, <1>3 DEF DoesCancel, DoesDrop, EntryFields
<1>4. CASE DoesResetAt(t)
  BY <1>a, <1>4 DEF DoesResetAt, CanReset, EntryFields
<1>5. CASE DoesPause(t) \/ DoesResume(t) \/ DoesSetMax(t) \/ DoesFinishAgain(t) \/ DoesFinishLast(t)
  BY <1>5 DEF DoesPause, DoesResume, DoesSetMax, DoesFinishAgain, DoesFinishLast
<1>6. CASE Leaves(t) \/ DoesClear(t)
  <2>1. /\ entry'[t].fired = entry[t].fired /\ entry'[t].deadline = entry[t].deadline
        /\ clock' = clock /\ runs' = runs /\ job' = job
    BY <1>a, <1>6 DEF Leaves, DoesClear, EntryFields
  <2>2. t \notin best' /\ job[t] = "idle"
    <3>0. heap[t] > 0
      BY <1>6 DEF Leaves, DoesClear
    <3>1. entry[t].inHeap
      BY <1>a, <3>0 DEF Exclusive
    <3> QED
      BY <1>a, <1>6, <3>1 DEF Leaves, DoesClear, Exclusive
  <2> QED
    BY <1>a, <2>1, <2>2
<1>7. CASE DoesTake(t)
  <2>1. entry'[t].fired /\ entry'[t].deadline = entry[t].deadline /\ entry[t].deadline <= clock
    BY <1>a, <1>7 DEF DoesTake, Taken, EntryFields
  <2>2. ~entry[t].fired /\ clock' = clock /\ runs' = runs /\ job' = job
    BY <1>7 DEF DoesTake, Invalid
  <2> QED
    BY <1>a, <2>1, <2>2
<1>8. CASE DoesDirect(t) \/ DoesSubmit(t)
  BY <1>a, <1>8 DEF DoesDirect, DoesSubmit, EntryFields
<1>9. CASE DoesHold(t) \/ DoesRaise(t)
  BY <1>a, <1>9 DEF DoesHold, DoesRaise, EntryFields
<1>10. CASE DoesCheck(t) \/ DoesReturn(t) \/ DoesTest(t) \/ DoesFree(t)
  BY <1>a, <1>10 DEF DoesCheck, DoesReturn, DoesTest, DoesFree, Moves, EntryFields, Exclusive
<1>11. CASE DoesSkip(t) \/ DoesFinishOnce(t)
  BY <1>a, <1>11 DEF DoesSkip, DoesFinishOnce, Moves, EntryFields, Exclusive
<1>12. CASE DoesCount(t)
  BY <1>a, <1>12 DEF DoesCount, Moves, EntryFields, Exclusive
<1> QED
  BY <1>0, <1>1, <1>2, <1>3, <1>4, <1>5, <1>6, <1>7, <1>8, <1>9, <1>10, <1>11, <1>12 DEF TimerStep

\* A one-shot callback starts once, and not before the deadline that the last
\* successful ResetAt gave it.
THEOREM OnceNeverEarly == Spec => []OnceNotEarly
<1> DEFINE FInv == \A t \in Timers : FiredOnce(t)
<1>1. Init => FInv
  BY DEF Init, FiredOnce, InHand, Blank
<1>2. HInv /\ FInv /\ [Next]_vars => FInv'
  BY FiredStep
<1>3. HInv /\ FInv => OnceNotEarly
  <2> SUFFICES ASSUME HInv, FInv, NEW t \in Timers, Kind[t] = "once"
               PROVE  runs[t] <= 1 /\ (runs[t] = 1 => clock >= entry[t].deadline)
    BY DEF OnceNotEarly
  <2>1. entry[t].deadline \in Nat /\ clock \in Nat /\ entry[t].fired \in BOOLEAN
    BY DEF HInv, Typed, EntryTyped, RestTyped, EntryFields
  <2> QED
    BY <2>1 DEF FiredOnce
<1> QED
  BY <1>1, <1>2, <1>3, PlacesKept, PTL DEF Spec

-----------------------------------------------------------------------------
(* Timers cancelled in the queue *)

\* It is cancelled, and neither taken nor running: a timer in the queue is not.
QuietGone(t) == t \in quiet => entry[t].cancelled /\ job[t] = "idle" /\ t \notin best

\* Nothing takes a cancelled timer, and none is ever un-cancelled.
LEMMA QuietStep ==
  ASSUME HInv, [Next]_vars, NEW t \in Timers, Regular(t), QuietGone(t)
  PROVE  QuietGone(t)' /\ (t \in quiet => runs'[t] = runs[t])
<1>a. /\ entry[t] \in EntryFields /\ Exclusive(t) /\ Unscheduled(t) /\ job[t] \in JobStages
      /\ runs[t] \in Nat
  BY DEF HInv, Typed, EntryTyped, MapsTyped, RestTyped, Placed
<1>0. TimerStep(t)
  BY EveryStep
<1> USE DEF QuietGone
<1>1. CASE Alike(t) \/ Ticks(t)
  BY <1>a, <1>1 DEF Alike, Ticks
<1>2. CASE DoesSchedule(t)
  BY <1>a, <1>2 DEF DoesSchedule, Unscheduled, Blank
<1>3. CASE DoesCancel(t)
  BY <1>a, <1>3 DEF DoesCancel, EntryFields, Exclusive
<1>4. CASE DoesDrop(t) \/ DoesResetAt(t) \/ DoesSetMax(t)
  BY <1>a, <1>4 DEF DoesDrop, DoesResetAt, DoesSetMax, EntryFields
<1>5. CASE DoesPause(t) \/ DoesResume(t)
  BY <1>a, <1>5 DEF DoesPause, DoesResume, EntryFields
<1>6. CASE Leaves(t)
  BY <1>a, <1>6 DEF Leaves, EntryFields
<1>7. CASE DoesClear(t)
  BY <1>a, <1>7 DEF DoesClear, EntryFields
<1>8. CASE DoesTake(t)
  BY <1>a, <1>8 DEF DoesTake, Invalid
<1>9. CASE DoesDirect(t) \/ DoesHold(t) \/ DoesSubmit(t) \/ DoesRaise(t)
  BY <1>a, <1>9 DEF DoesDirect, DoesHold, DoesSubmit, DoesRaise
<1>10. CASE DoesCheck(t) \/ DoesReturn(t) \/ DoesTest(t) \/ DoesFree(t)
  BY <1>a, <1>10 DEF DoesCheck, DoesReturn, DoesTest, DoesFree
<1>11. CASE DoesSkip(t) \/ DoesFinishOnce(t) \/ DoesCount(t) \/ DoesFinishAgain(t) \/ DoesFinishLast(t)
  BY <1>a, <1>11 DEF DoesSkip, DoesFinishOnce, DoesCount, DoesFinishAgain, DoesFinishLast
<1> QED
  BY <1>0, <1>1, <1>2, <1>3, <1>4, <1>5, <1>6, <1>7, <1>8, <1>9, <1>10, <1>11 DEF TimerStep

\* Cancelled while it waits, a timer never runs again, however soon it was due.
THEOREM CancelledStaysQuiet ==
  ASSUME ResumesOnlyQueued
  PROVE  Spec => QuietAfterCancel
<1> DEFINE QInv == \A t \in Timers : QuietGone(t)
<1>1. Init => QInv
  BY DEF Init, QuietGone
<1>2. HInv => \A t \in Timers : Regular(t)
  BY DEF HInv, Typed, RestTyped, Regular, ResumesOnlyQueued, PausesInQueue
<1>3. HInv /\ QInv /\ [Next]_vars => QInv'
  BY <1>2, QuietStep
<1>4. HInv /\ QInv /\ [Next]_vars => \A t \in quiet : runs'[t] = runs[t]
  <2> SUFFICES ASSUME HInv, QInv, [Next]_vars, NEW t \in quiet PROVE runs'[t] = runs[t]
    OBVIOUS
  <2>1. t \in Timers
    BY DEF HInv, Typed, RestTyped
  <2> QED
    BY <2>1, <1>2, QuietStep
<1> QED
  BY <1>1, <1>3, <1>4, PlacesKept, PTL DEF Spec, QuietAfterCancel

-----------------------------------------------------------------------------
(* The sleep of the timer thread *)

\* The thread that sleeps and was not woken wakes in time for t.
InTime(t) ==
  thread \in {"nap", "sleep"} /\ ~wakeup /\ heap[t] > 0 /\ ~Invalid(t)
    => thread = "nap" /\ until <= entry[t].deadline

\* Outside a scan the thread falls asleep in no other way, and keeps its signal.
LEMMA SleepStep ==
  ASSUME [Next]_vars, ~Scan
  PROVE  \/ thread' \notin {"nap", "sleep"}
         \/ thread' = thread /\ until' = until /\ (wakeup => wakeup')
<1>1. ASSUME NEW t \in Timers, JobStep(t)
      PROVE  /\ thread' = "top" \/ UNCHANGED sched
             /\ wakeup' = TRUE \/ wakeup' = wakeup
  BY <1>1 DEF JobStep, Check, Skip, Return, Count, FinishAgain, FinishLast, FinishOnce, Test, Free, Stage, Wake
<1>2. ASSUME NEW t \in Timers, HandleCall(t)
      PROVE  UNCHANGED sched /\ (wakeup' = TRUE \/ wakeup' = wakeup)
  BY <1>2 DEF HandleCall, Schedule, Cancel, Drop, ResetAt, Pause, Resume, SetMaxExecutions, CancelToken, Wake
<1>3. ASSUME Top \/ Woken \/ Dispatch PROVE thread' \notin {"nap", "sleep"}
  BY <1>3 DEF Top, Woken, Dispatch, Direct, Hold, Submit, SubmitRaises, SubmitDiscarded
<1>4. ASSUME Tick \/ Shutdown \/ Closing \/ Destroy \/ SetCallbackExecutor \/ UNCHANGED vars
      PROVE  UNCHANGED sched /\ (wakeup' = TRUE \/ wakeup' = wakeup)
  BY <1>4 DEF Tick, Shutdown, Closing, ShutdownSignal, ShutdownJoin, Destroy, SetCallbackExecutor, vars, Wake
<1> QED
  BY <1>1, <1>2, <1>3, <1>4 DEF Next, ThreadStep

\* Whatever makes a timer due earlier wakes the thread; a scan looks at all.
LEMMA InTimeStep ==
  ASSUME HInv, [Next]_vars, NEW t \in Timers, Regular(t), InTime(t)
  PROVE  InTime(t)'
<1>a. /\ entry[t] \in EntryFields /\ Placed(t) /\ heap[t] \in Int /\ job[t] \in JobStages
      /\ Typed /\ OneBest
  BY DEF HInv, Typed, EntryTyped, MapsTyped
<1>b. (heap[t] > 0) = entry[t].inHeap
  BY <1>a DEF Placed, Exclusive, EntryFields
<1>1. CASE Scan
  <2>1. ASSUME ScanEmpty PROVE InTime(t)'
    <3>1. Leaves(t) \/ Alike(t)
      BY <2>1, <1>a, ScanEffects
    <3>2. CASE Leaves(t)
      BY <3>2 DEF Leaves, InTime
    <3>3. CASE Alike(t)
      <4>1. ~(heap[t] > 0 /\ ~Invalid(t))
        BY <2>1 DEF ScanEmpty, Valid, Queued
      <4> QED
        BY <3>3, <4>1 DEF Alike, InTime, Invalid
    <3> QED
      BY <3>1, <3>2, <3>3
  <2>2. ASSUME NEW e \in Timers, ScanEarly(e) PROVE InTime(t)'
    <3>1. Leaves(t) \/ Alike(t)
      BY <2>2, <1>a, ScanEffects
    <3>2. CASE Leaves(t)
      BY <3>2 DEF Leaves, InTime
    <3>3. CASE Alike(t)
      <4>1. heap[t] > 0 /\ ~Invalid(t) => entry[e].deadline <= entry[t].deadline
        BY <2>2 DEF ScanEarly, Earliest, Valid, Queued
      <4>2. thread' = "nap" /\ until' = entry[e].deadline
        BY <2>2 DEF ScanEarly
      <4> QED
        BY <3>3, <4>1, <4>2 DEF Alike, InTime, Invalid
    <3> QED
      BY <3>1, <3>2, <3>3
  <2>3. ASSUME NEW e \in Timers, ScanDue(e) PROVE InTime(t)'
    BY <2>3 DEF ScanDue, InTime
  <2> QED
    BY <1>1, <2>1, <2>2, <2>3 DEF Scan
<1>2. CASE ~Scan
  <2>0. TimerStep(t)
    BY EveryStep
  <2>a. CASE thread' \notin {"nap", "sleep"} \/ wakeup'
    BY <2>a DEF InTime
  <2>b. CASE thread' = thread /\ until' = until /\ (wakeup => wakeup') /\ ~wakeup'
    <3>1. CASE Alike(t)
      BY <2>b, <3>1 DEF InTime, Alike, Invalid
    <3>2. CASE Ticks(t)
      BY <2>b, <3>2 DEF InTime, Ticks, Invalid
    <3>3. CASE DoesSchedule(t) \/ DoesResetAt(t) \/ DoesFinishAgain(t)
      BY <2>b, <3>3 DEF DoesSchedule, DoesResetAt, DoesFinishAgain
    <3>4. CASE DoesCancel(t) \/ DoesPause(t)
      BY <1>a, <3>4 DEF DoesCancel, DoesPause, InTime, Invalid, EntryFields
    <3>5. CASE DoesDrop(t) \/ DoesSetMax(t)
      BY <1>a, <2>b, <3>5 DEF DoesDrop, DoesSetMax, InTime, Invalid, EntryFields
    <3>6. CASE DoesResume(t)
      <4>1. ~entry[t].inHeap /\ heap[t] = 0
        BY <1>a, <3>6 DEF DoesResume, Placed, PausedApart, Exclusive
      <4>2. heap'[t] = 0
        BY <2>b, <3>6, <4>1 DEF DoesResume
      <4> QED
        BY <4>2 DEF InTime
    <3>7. CASE Leaves(t) \/ DoesClear(t)
      <4>1. heap'[t] = 0
        BY <3>7 DEF Leaves, DoesClear
      <4> QED
        BY <4>1 DEF InTime
    <3>8. CASE DoesTake(t) \/ DoesDirect(t) \/ DoesHold(t) \/ DoesSubmit(t) \/ DoesRaise(t)
      BY <2>b, <3>8 DEF DoesTake, DoesDirect, DoesHold, DoesSubmit, DoesRaise, InTime
    <3>9. CASE DoesCheck(t) \/ DoesSkip(t) \/ DoesReturn(t) \/ DoesCount(t) \/ DoesFinishLast(t)
               \/ DoesFinishOnce(t) \/ DoesTest(t) \/ DoesFree(t)
      <4>1. job[t] # "idle" /\ heap'[t] = heap[t]
        BY <3>9 DEF DoesCheck, DoesSkip, DoesReturn, DoesCount, DoesFinishLast, DoesFinishOnce, DoesTest, DoesFree
      <4>2. ~(heap[t] > 0)
        BY <1>a, <1>b, <4>1 DEF Placed, Exclusive
      <4> QED
        BY <4>1, <4>2 DEF InTime
    <3> QED
      BY <2>0, <3>1, <3>2, <3>3, <3>4, <3>5, <3>6, <3>7, <3>8, <3>9 DEF TimerStep
  <2> QED
    BY <1>2, <2>a, <2>b, SleepStep
<1> QED
  BY <1>1, <1>2

\* The thread never sleeps past a deadline.
THEOREM NeverOversleeps ==
  ASSUME ResumesOnlyQueued
  PROVE  Spec => []NoOversleep
<1> DEFINE TInv == \A t \in Timers : InTime(t)
<1>1. Init => TInv
  BY DEF Init, InTime
<1>2. HInv => \A t \in Timers : Regular(t)
  BY DEF HInv, Typed, RestTyped, Regular, ResumesOnlyQueued, PausesInQueue
<1>3. HInv /\ TInv /\ [Next]_vars => TInv'
  BY <1>2, InTimeStep
<1>4. TInv => NoOversleep
  BY DEF InTime, NoOversleep, Valid, Queued
<1> QED
  BY <1>1, <1>3, <1>4, PlacesKept, PTL DEF Spec

-----------------------------------------------------------------------------
(* Periodic timers *)

\* A timer that the thread takes was due; on a grid, it is given the next point.
LEMMA RateStep ==
  ASSUME HInv, [Next]_vars, \A t \in Timers : Regular(t)
  PROVE  RateKept
<1> SUFFICES ASSUME NEW t \in best' \ best, Kind[t] = "fixedRate"
             PROVE  /\ (entry'[t].deadline - entry[t].deadline) % Period[t] = 0
                    /\ clock < entry'[t].deadline /\ entry'[t].deadline <= clock + Period[t]
  BY DEF RateKept
<1>1. t \in Timers
  BY TypedStep DEF HInv, Typed, RestTyped
<1>2. TimerStep(t)
  BY <1>1, EveryStep
<1>3. DoesTake(t)
  <2>1. ASSUME DoesCheck(t) \/ DoesSkip(t) \/ DoesReturn(t) \/ DoesCount(t) \/ DoesFinishAgain(t)
               \/ DoesFinishLast(t) \/ DoesFinishOnce(t) \/ DoesTest(t) \/ DoesFree(t)
        PROVE  best' \in {best, {}}
    BY <2>1 DEF DoesCheck, DoesSkip, DoesReturn, DoesCount, DoesFinishAgain, DoesFinishLast, DoesFinishOnce,
      DoesTest, DoesFree, Moves
  <2> QED
    BY <1>2, <2>1 DEF TimerStep, Alike, Ticks, DoesSchedule, DoesCancel, DoesDrop, DoesResetAt, DoesPause,
      DoesResume, DoesSetMax, Leaves, DoesClear, DoesDirect, DoesHold, DoesSubmit, DoesRaise
<1>4. /\ entry[t] \in EntryFields /\ entry[t].deadline \in Nat /\ clock \in Nat /\ Period[t] \in Nat \ {0}
      /\ entry[t].deadline <= clock
  BY <1>1, <1>3, Constants DEF HInv, Typed, EntryTyped, RestTyped, EntryFields, DoesTake
<1>5. entry'[t].deadline = NextRate(entry[t].deadline, clock, Period[t])
  BY <1>3, <1>4 DEF DoesTake, Taken, EntryFields
<1>6. ASSUME NEW d, d = entry[t].deadline, NEW p, p = Period[t]
      PROVE  /\ (NextRate(d, clock, p) - d) % p = 0
             /\ clock < NextRate(d, clock, p) /\ NextRate(d, clock, p) <= clock + p
  <2>1. d \in Nat /\ p \in Nat \ {0} /\ d <= clock
    BY <1>4, <1>6
  <2> QED
    BY <1>4, <2>1, NextOnGrid
<1> QED
  BY <1>5, <1>6, Zenon

\* Once a fixed-delay callback has ended, the timer waits in the queue for a
\* deadline its delay after that end, and is taken no earlier.
DelayWaits(t) ==
  Kind[t] = "fixedDelay" =>
    /\ ended[t] <= clock
    /\ runs[t] > 0 /\ entry[t].inHeap => ended[t] + Period[t] <= entry[t].deadline
    /\ runs[t] > 0 /\ (InHand(t) \/ job[t] = "check") => ended[t] + Period[t] <= clock

\* The next start counts from the end of the callback.
LEMMA DelayStep ==
  ASSUME HInv, [Next]_vars, NEW t \in Timers, Regular(t), DelayWaits(t)
  PROVE  DelayWaits(t)'
<1> SUFFICES ASSUME Kind[t] = "fixedDelay" PROVE DelayWaits(t)'
  BY DEF DelayWaits
<1>a. /\ entry[t] \in EntryFields /\ Exclusive(t) /\ Unscheduled(t) /\ OneBest /\ clock \in Nat
      /\ heap[t] \in Int /\ job[t] \in JobStages /\ runs[t] \in Nat /\ ended[t] \in Nat /\ Period[t] \in Nat
      /\ thread \in {"top", "scan", "sleep", "nap", "due", "submit", "callback", "exit"}
  BY Constants DEF HInv, Typed, EntryTyped, MapsTyped, RestTyped, Placed
<1>b. entry[t].deadline \in Nat /\ entry[t].inHeap \in BOOLEAN
  BY <1>a DEF EntryFields
<1>0. TimerStep(t)
  BY EveryStep
<1> USE DEF DelayWaits, InHand, OnThread
<1>1. CASE Alike(t)
  BY <1>a, <1>1 DEF Alike
<1>2. CASE Ticks(t)
  BY <1>a, <1>b, <1>2 DEF Ticks
<1>3. CASE DoesSchedule(t)
  BY <1>a, <1>3 DEF DoesSchedule, Unscheduled
<1>4. CASE DoesCancel(t) \/ DoesDrop(t) \/ DoesSetMax(t)
  BY <1>a, <1>4 DEF DoesCancel, DoesDrop, DoesSetMax, EntryFields
<1>5. CASE DoesResetAt(t)
  BY <1>5 DEF DoesResetAt, CanReset
<1>6. CASE DoesPause(t)
  BY <1>a, <1>6 DEF DoesPause, EntryFields
<1>7. CASE DoesResume(t)
  <2>1. entry'[t].deadline = clock + Period[t] /\ UNCHANGED <<clock, runs, ended, job, sched>>
    BY <1>a, <1>7 DEF DoesResume, EntryFields
  <2> QED
    BY <1>a, <2>1
<1>8. CASE Leaves(t) \/ DoesClear(t)
  <2>1. ~entry'[t].inHeap /\ UNCHANGED <<clock, runs, ended, job>>
    BY <1>a, <1>8 DEF Leaves, DoesClear, EntryFields
  <2>2. heap[t] > 0 /\ (t \notin best => t \notin best')
    BY <1>8 DEF Leaves, DoesClear
  <2>3. entry[t].inHeap
    BY <1>a, <2>2 DEF Exclusive
  <2>4. job[t] = "idle" /\ t \notin best'
    BY <1>a, <2>2, <2>3 DEF Exclusive
  <2> QED
    BY <1>a, <2>1, <2>4
<1>9. CASE DoesTake(t)
  <2>1. ~entry'[t].inHeap /\ UNCHANGED <<clock, runs, ended, job>>
    BY <1>a, <1>9 DEF DoesTake, Taken, EntryFields
  <2>2. heap[t] > 0 /\ entry[t].deadline <= clock
    BY <1>9 DEF DoesTake
  <2>3. entry[t].inHeap
    BY <1>a, <2>2 DEF Exclusive
  <2> QED
    BY <1>a, <1>b, <2>1, <2>2, <2>3
<1>10. CASE DoesDirect(t) \/ DoesSubmit(t)
  BY <1>a, <1>10 DEF DoesDirect, DoesSubmit, Exclusive
<1>11. CASE DoesHold(t) \/ DoesRaise(t)
  BY <1>a, <1>11 DEF DoesHold, DoesRaise, Exclusive, EntryFields
<1>12. CASE DoesCheck(t) \/ DoesReturn(t) \/ DoesTest(t) \/ DoesFree(t)
  BY <1>a, <1>12 DEF DoesCheck, DoesReturn, DoesTest, DoesFree, Moves, Exclusive
<1>13. CASE DoesSkip(t) \/ DoesFinishOnce(t) \/ DoesFinishLast(t) \/ DoesCount(t)
  <2>1. entry'[t].inHeap = entry[t].inHeap /\ UNCHANGED <<clock, runs, ended>>
    BY <1>a, <1>13 DEF DoesSkip, DoesFinishOnce, DoesFinishLast, DoesCount, EntryFields
  <2>2. job[t] \in {"skip", "finish", "count"} /\ job'[t] \in {"test", "free", "idle", "finish"}
    BY <1>13 DEF DoesSkip, DoesFinishOnce, DoesFinishLast, DoesCount, Moves
  <2>3. (thread' = thread /\ best' = best) \/ best' = {}
    BY <1>13 DEF DoesSkip, DoesFinishOnce, DoesFinishLast, DoesCount, Moves
  <2> QED
    BY <1>a, <2>1, <2>2, <2>3 DEF Exclusive
<1>14. CASE DoesFinishAgain(t)
  <2>1. entry'[t].deadline = clock + Period[t] /\ UNCHANGED <<clock, runs, ended>> /\ job'[t] = "idle"
    BY <1>a, <1>14 DEF DoesFinishAgain, Rearmed, Moves, EntryFields
  <2>2. ~InHand(t)'
    BY <1>a, <1>14 DEF DoesFinishAgain, Moves, Exclusive
  <2> QED
    BY <1>a, <2>1, <2>2
<1> QED
  BY <1>0, <1>1, <1>2, <1>3, <1>4, <1>5, <1>6, <1>7, <1>8, <1>9, <1>10, <1>11, <1>12, <1>13, <1>14
  DEF TimerStep

\* A start of a fixed-delay callback that is not the first comes that late.
LEMMA DelayAtStart ==
  ASSUME HInv, [Next]_vars, \A t \in Timers : Regular(t) /\ DelayWaits(t)
  PROVE  DelayKept
<1> SUFFICES ASSUME NEW t \in Timers, Kind[t] = "fixedDelay", runs'[t] > runs[t], runs[t] > 0
             PROVE  clock >= ended[t] + Period[t]
  BY DEF DelayKept
<1>1. TimerStep(t)
  BY EveryStep
<1>2. runs[t] \in Nat /\ ended[t] \in Nat /\ Period[t] \in Nat /\ clock \in Nat
  BY Constants DEF HInv, Typed, MapsTyped, RestTyped
<1>3. runs'[t] # runs[t]
  BY <1>2
<1>4. job[t] = "check"
  BY <1>1, <1>3 DEF TimerStep, Alike, Ticks, DoesSchedule, DoesCancel, DoesDrop, DoesResetAt, DoesPause,
    DoesResume, DoesSetMax, Leaves, DoesTake, DoesClear, DoesDirect, DoesHold, DoesSubmit, DoesRaise,
    DoesCheck, DoesSkip, DoesReturn, DoesCount, DoesFinishAgain, DoesFinishLast, DoesFinishOnce, DoesTest, DoesFree
<1> QED
  BY <1>2, <1>4 DEF DelayWaits

\* The timer is cancelled, and no callback of it is to be counted any more.
Spent(t) ==
  /\ entry[t].cancelled /\ ~entry[t].inHeap /\ ~InHand(t)
  /\ job[t] \in {"idle", "finish", "test", "free"}

\* A count at or above the limit was there when the limit was set, or the timer
\* is spent.
LimitHolds(t) ==
  entry[t].max > 0 =>
    /\ Kind[t] # "once"
    /\ \/ entry[t].count < entry[t].max \/ entry[t].count <= late[t]
       \/ Spent(t) /\ (entry[t].count = entry[t].max \/ entry[t].count = late[t] + 1)

\* The callback that reaches the limit cancels its timer.
LEMMA LimitStep ==
  ASSUME HInv, [Next]_vars, NEW t \in Timers, Regular(t), LimitHolds(t)
  PROVE  LimitHolds(t)'
<1>a. /\ entry[t] \in EntryFields /\ Exclusive(t) /\ OneBest /\ heap[t] \in Int
      /\ job[t] \in JobStages /\ late[t] \in Nat
      /\ thread \in {"top", "scan", "sleep", "nap", "due", "submit", "callback", "exit"}
  BY DEF HInv, Typed, EntryTyped, MapsTyped, RestTyped, Placed
<1>b. entry[t].count \in Nat /\ entry[t].max \in Nat
  BY <1>a DEF EntryFields
<1>0. TimerStep(t)
  BY EveryStep
\* A step that leaves the counts alone keeps the invariant if it keeps Spent.
<1>c. ASSUME entry'[t].max = entry[t].max, entry'[t].count = entry[t].count, late'[t] = late[t],
             Spent(t) => Spent(t)'
      PROVE  LimitHolds(t)'
  BY <1>c DEF LimitHolds
<1> USE DEF Spent, InHand, OnThread
<1>1. CASE Alike(t)
  BY <1>a, <1>1, <1>c DEF Alike
<1>2. CASE Ticks(t)
  BY <1>a, <1>2, <1>c DEF Ticks
<1>3. CASE DoesSchedule(t)
  BY <1>a, <1>3 DEF DoesSchedule, LimitHolds, Blank
<1>4. CASE DoesCancel(t) \/ DoesDrop(t) \/ DoesResetAt(t) \/ DoesPause(t)
  BY <1>a, <1>4, <1>c DEF DoesCancel, DoesDrop, DoesResetAt, DoesPause, EntryFields
<1>5. CASE DoesResume(t)
  BY <1>a, <1>5, <1>c DEF DoesResume, EntryFields
<1>6. CASE DoesSetMax(t)
  <2>1. entry'[t].count = entry[t].count /\ late'[t] = entry[t].count /\ Kind[t] # "once"
    BY <1>a, <1>6 DEF DoesSetMax, EntryFields
  <2> QED
    BY <1>b, <2>1 DEF LimitHolds
<1>7. CASE Leaves(t) \/ DoesClear(t)
  <2>1. heap[t] > 0
    BY <1>7 DEF Leaves, DoesClear
  <2>2. ~Spent(t)
    BY <1>a, <2>1 DEF Exclusive
  <2>3. entry'[t].max = entry[t].max /\ entry'[t].count = entry[t].count /\ late' = late
    BY <1>a, <1>7 DEF Leaves, DoesClear, EntryFields
  <2> QED
    BY <2>2, <2>3, <1>c
<1>8. CASE DoesTake(t)
  <2>1. ~Spent(t)
    BY <1>8 DEF DoesTake, Invalid
  <2>2. entry'[t].max = entry[t].max /\ entry'[t].count = entry[t].count /\ late' = late
    BY <1>a, <1>8 DEF DoesTake, Taken, EntryFields
  <2> QED
    BY <2>1, <2>2, <1>c
<1>9. CASE DoesDirect(t) \/ DoesHold(t) \/ DoesSubmit(t) \/ DoesRaise(t)
  <2>1. ~Spent(t)
    BY <1>9 DEF DoesDirect, DoesHold, DoesSubmit, DoesRaise
  <2>2. entry'[t].max = entry[t].max /\ entry'[t].count = entry[t].count /\ late' = late
    BY <1>a, <1>9 DEF DoesDirect, DoesHold, DoesSubmit, DoesRaise, EntryFields
  <2> QED
    BY <2>1, <2>2, <1>c
<1>10. CASE DoesCheck(t) \/ DoesReturn(t)
  BY <1>a, <1>10, <1>c DEF DoesCheck, DoesReturn
<1>11. CASE DoesTest(t) \/ DoesFree(t)
  BY <1>a, <1>11, <1>c DEF DoesTest, DoesFree, Moves
<1>12. CASE DoesSkip(t) \/ DoesFinishOnce(t) \/ DoesFinishLast(t)
  <2>1. /\ entry'[t].max = entry[t].max /\ entry'[t].count = entry[t].count /\ late' = late
        /\ entry'[t].inHeap = entry[t].inHeap /\ (entry[t].cancelled => entry'[t].cancelled)
    BY <1>a, <1>12 DEF DoesSkip, DoesFinishOnce, DoesFinishLast, EntryFields
  <2>2. job[t] \in {"skip", "finish"} /\ job'[t] \in {"test", "free", "idle"}
    BY <1>12 DEF DoesSkip, DoesFinishOnce, DoesFinishLast, Moves
  <2>3. (thread' = thread /\ best' = best) \/ best' = {}
    BY <1>12 DEF DoesSkip, DoesFinishOnce, DoesFinishLast, Moves
  <2> QED
    BY <2>1, <2>2, <2>3, <1>c
<1>13. CASE DoesFinishAgain(t)
  <2>1. ~Spent(t)
    BY <1>13 DEF DoesFinishAgain
  <2>2. entry'[t].max = entry[t].max /\ entry'[t].count = entry[t].count /\ late' = late
    BY <1>a, <1>13 DEF DoesFinishAgain, EntryFields
  <2> QED
    BY <2>1, <2>2, <1>c
<1>14. CASE DoesCount(t)
  <2>1. /\ entry'[t].max = entry[t].max /\ entry'[t].count = entry[t].count + 1 /\ late' = late
        /\ entry'[t].inHeap = entry[t].inHeap
    BY <1>a, <1>14 DEF DoesCount, EntryFields
  <2>2. LimitReached(t) => entry'[t].cancelled
    <3>1. PICK b, c \in BOOLEAN :
            /\ b = (entry[t].cancelled \/ LimitReached(t))
            /\ entry'[t] = [entry[t] EXCEPT !.count = @ + 1, !.cancelled = b, !.dead = c]
      BY <1>14 DEF DoesCount
    <3>2. entry'[t].cancelled = b
      BY <1>a, <3>1 DEF EntryFields
    <3> QED
      BY <3>1, <3>2
  <2>3. ~Spent(t) /\ ~entry[t].inHeap /\ job'[t] = "finish" /\ ~InHand(t)'
    BY <1>a, <1>14 DEF DoesCount, Moves, Exclusive
  <2>4. LimitReached(t) => Spent(t)'
    BY <2>1, <2>2, <2>3
  <2> HIDE DEF Spent
  <2>5. CASE entry[t].max = 0
    BY <2>1, <2>5 DEF LimitHolds
  <2>6. CASE entry[t].max > 0
    <3>1. Kind[t] # "once" /\ (entry[t].count < entry[t].max \/ entry[t].count <= late[t])
      BY <2>3, <2>6 DEF LimitHolds
    <3>2. CASE entry[t].count + 1 >= entry[t].max
      BY <1>a, <1>b, <2>1, <2>4, <2>6, <3>1, <3>2 DEF LimitHolds, LimitReached
    <3>3. CASE entry[t].count + 1 < entry[t].max
      BY <1>b, <2>1, <3>1, <3>3 DEF LimitHolds
    <3> QED
      BY <1>b, <3>2, <3>3
  <2> QED
    BY <1>b, <2>5, <2>6
<1> QED
  BY <1>0, <1>1, <1>2, <1>3, <1>4, <1>5, <1>6, <1>7, <1>8, <1>9, <1>10, <1>11, <1>12, <1>13, <1>14
  DEF TimerStep

\* A periodic timer starts its callback neither too early nor too often.
THEOREM PeriodsAreKept ==
  ASSUME ResumesOnlyQueued
  PROVE  Spec => PeriodsKept
<1> DEFINE LInv == \A t \in Timers : DelayWaits(t) /\ LimitHolds(t)
<1>1. Init => LInv
  BY DEF Init, DelayWaits, LimitHolds, Blank, InHand
<1>2. HInv => \A t \in Timers : Regular(t)
  BY DEF HInv, Typed, RestTyped, Regular, ResumesOnlyQueued, PausesInQueue
<1>3. HInv /\ LInv /\ [Next]_vars => LInv'
  BY <1>2, DelayStep, LimitStep
<1>4. HInv /\ LInv /\ [Next]_vars => RateKept /\ DelayKept
  BY <1>2, RateStep, DelayAtStart
<1>5. HInv /\ LInv => LimitKept
  <2> SUFFICES ASSUME HInv, LInv, NEW t \in Timers, entry[t].max > 0, entry[t].count > entry[t].max
               PROVE  entry[t].count <= late[t] + 1
    BY DEF LimitKept
  <2>1. entry[t].count \in Nat /\ entry[t].max \in Nat /\ late[t] \in Nat
    BY DEF HInv, Typed, EntryTyped, MapsTyped, EntryFields
  <2> QED
    BY <2>1 DEF LimitHolds
<1> QED
  BY <1>1, <1>3, <1>4, <1>5, PlacesKept, PTL DEF Spec, PeriodsKept

-----------------------------------------------------------------------------
(* The memory of the entries *)

Droppable(t) == "Destroy" \in plan.calls[t]

Pausable(t) == plan.calls[t] \cap {"Pause", "PauseQueued"} # {}

\* Handles are let go of and schedulers destroyed as they should be.
KeptOrPooled == \A p \in Plans : KeepsOrPools(p)

\* No callback on the timer thread while handles may be dropped; once closed, the
\* scheduler takes no timer, and its thread has left.
ClosesForGood ==
  /\ (\E t \in Timers : Droppable(t)) => async /\ thread # "callback"
  /\ closer # "open" => shuttingDown
  /\ closer \in {"down", "destroyed"} => thread = "exit"
  /\ closer = "destroyed" => "Destroy" \in plan.control

\* An entry in use is dead only if cancelled; one about to be dispatched is not
\* dead if its handle may go; one that is nowhere is dead, unless it was paused.
DeadAtEnd(t) ==
  /\ (entry[t].inHeap \/ InHand(t) \/ job[t] \in {"check", "call", "count", "finish", "skip"}) /\ entry[t].dead
       => entry[t].cancelled
  /\ Droppable(t) /\ InHand(t) => ~entry[t].dead
  /\ job[t] \in {"test", "free"} => entry[t].dead
  /\ job[t] = "free" => ~handle[t]
  /\ ~Pausable(t) =>
       /\ ~entry[t].paused
       /\ mem[t] # "none" /\ ~entry[t].inHeap /\ job[t] = "idle" /\ t \notin best => entry[t].dead

\* A handle that is kept is there; memory is live as long as it is held, and held
\* as long as it is live.
Owned(t) ==
  /\ ~Droppable(t) /\ mem[t] # "none" => handle[t]
  /\ Held(t) => mem[t] = "live"
  /\ mem[t] = "live" => Held(t) \/ job[t] = "lost"

\* After Destroy a timer is in no queue and has no callback.
Closed(t) == closer = "destroyed" => ~entry[t].inHeap /\ job[t] = "idle"

\* The scheduler closes for good.
LEMMA ClosingStep ==
  ASSUME HInv, KeptOrPooled, ClosesForGood, [Next]_vars
  PROVE  ClosesForGood'
<1>a. plan' = plan /\ plan \in Plans
  BY PlanKept DEF HInv, Typed, RestTyped
<1>b. ASSUME NEW t \in Timers, Droppable(t)
      PROVE  plan.refusal # "Abort" /\ "SetCallbackExecutor" \notin plan.control
  BY <1>a, <1>b DEF KeptOrPooled, KeepsOrPools, Droppable
<1>c. \A t \in Timers : Droppable(t)' = Droppable(t)
  BY <1>a DEF Droppable
<1> USE DEF ClosesForGood
<1>1. ASSUME UNCHANGED ctl,
             thread' = thread \/ (thread' \notin {"callback"} /\ thread # "exit")
      PROVE  ClosesForGood'
  BY <1>1, <1>a, <1>c
<1>2. ASSUME NEW t \in Timers, JobStep(t) PROVE ClosesForGood'
  <2>1. UNCHANGED ctl /\ \E s : Stage(t, s)
    BY <1>2 DEF JobStep, Check, Skip, Return, Count, FinishAgain, FinishLast, FinishOnce, Test, Free
  <2> QED
    BY <2>1, <1>1 DEF Stage, OnThread
<1>3. ASSUME NEW t \in Timers, HandleCall(t) PROVE ClosesForGood'
  <2>1. UNCHANGED ctl /\ thread' = thread
    BY <1>3 DEF HandleCall, Schedule, Cancel, Drop, ResetAt, Pause, Resume, SetMaxExecutions, CancelToken
  <2> QED
    BY <2>1, <1>1
<1>4. ASSUME NEW t \in Timers, Direct(t) \/ SubmitRaises(t) PROVE ClosesForGood'
  <2>1. ~\E u \in Timers : Droppable(u)
    BY <1>4, <1>b DEF Direct, SubmitRaises
  <2>2. UNCHANGED ctl /\ thread # "exit"
    BY <1>4 DEF Direct, SubmitRaises
  <2> QED
    BY <1>a, <1>c, <2>1, <2>2
<1>5. ASSUME NEW t \in Timers, Hold(t) \/ Submit(t) \/ SubmitDiscarded(t) PROVE ClosesForGood'
  BY <1>5, <1>1 DEF Hold, Submit, SubmitDiscarded
<1>6. ASSUME Top \/ Woken \/ Scan PROVE ClosesForGood'
  BY <1>6, <1>1 DEF Top, Woken, Scan, ScanEmpty, ScanEarly, ScanDue
<1>7. ASSUME Tick \/ UNCHANGED vars PROVE ClosesForGood'
  BY <1>7, <1>1 DEF Tick, vars
<1>8. ASSUME Shutdown \/ Closing \/ Destroy PROVE ClosesForGood'
  BY <1>8, <1>a, <1>c DEF Shutdown, Closing, ShutdownSignal, ShutdownJoin, Destroy
<1>9. ASSUME SetCallbackExecutor PROVE ClosesForGood'
  <2>1. ~\E u \in Timers : Droppable(u)
    BY <1>9, <1>b DEF SetCallbackExecutor
  <2> QED
    BY <1>9, <1>a, <1>c, <2>1 DEF SetCallbackExecutor
<1> QED
  BY <1>2, <1>3, <1>4, <1>5, <1>6, <1>7, <1>8, <1>9 DEF Next, ThreadStep, Dispatch

\* Who marks an entry dead has cancelled it, or is the last to use it.
LEMMA DeadStep ==
  ASSUME HInv, KeptOrPooled, ClosesForGood, [Next]_vars,
         NEW t \in Timers, Regular(t), DeadAtEnd(t)
  PROVE  DeadAtEnd(t)'
<1>a. /\ entry[t] \in EntryFields /\ Placed(t) /\ heap[t] \in Int /\ OneBest
      /\ handle[t] \in BOOLEAN /\ job[t] \in JobStages
      /\ thread \in {"top", "scan", "sleep", "nap", "due", "submit", "callback", "exit"}
  BY DEF HInv, Typed, EntryTyped, MapsTyped, RestTyped
<1>b. Exclusive(t) /\ Counted(t) /\ Unscheduled(t) /\ PausedApart(t)
  BY <1>a DEF Placed
<1>c. plan' = plan
  BY PlanKept
<1>d. Droppable(t)' = Droppable(t) /\ Pausable(t)' = Pausable(t)
  BY <1>c DEF Droppable, Pausable
<1>e. Droppable(t) => "Cancel" \notin plan.calls[t] /\ ~Pausable(t)
  BY DEF HInv, Typed, RestTyped, KeptOrPooled, KeepsOrPools, Droppable, Pausable
<1>f. heap[t] > 0 => entry[t].inHeap
  BY <1>b DEF Exclusive
<1>0. TimerStep(t)
  BY EveryStep
<1>1. CASE Alike(t) \/ Ticks(t)
  BY <1>a, <1>d, <1>1 DEF Alike, Ticks, DeadAtEnd, InHand
<1>2. CASE DoesSchedule(t)
  <2>1. ~InHand(t)' /\ job'[t] = "idle"
    BY <1>b, <1>2 DEF DoesSchedule, Unscheduled, InHand
  <2>2. ~entry'[t].dead /\ ~entry'[t].paused /\ entry'[t].inHeap
    BY <1>2 DEF DoesSchedule, Blank
  <2> QED
    BY <2>1, <2>2 DEF DeadAtEnd
<1>3. CASE DoesCancel(t)
  <2>1. /\ entry'[t].dead /\ entry'[t].cancelled /\ entry'[t].inHeap = entry[t].inHeap
        /\ entry'[t].paused = entry[t].paused
    BY <1>a, <1>3 DEF DoesCancel, EntryFields
  <2>2. Droppable(t) => ~InHand(t)
    BY <1>b, <1>e, <1>3 DEF DoesCancel, Exclusive, InHand
  <2> QED
    BY <1>d, <1>3, <2>1, <2>2 DEF DoesCancel, DeadAtEnd, InHand
<1>4. CASE DoesDrop(t)
  <2>1. /\ entry'[t].dead = entry[t].dead /\ entry'[t].cancelled = entry[t].cancelled
        /\ entry'[t].inHeap = entry[t].inHeap /\ entry'[t].paused = entry[t].paused
    BY <1>a, <1>4 DEF DoesDrop, EntryFields
  <2>2. mem[t] # "none"
    BY <1>b, <1>4 DEF DoesDrop, Unscheduled
  <2> QED
    BY <1>d, <1>4, <2>1, <2>2 DEF DoesDrop, DeadAtEnd, InHand
<1>5. CASE DoesResetAt(t) \/ DoesSetMax(t)
  <2>1. /\ entry'[t].dead = entry[t].dead /\ entry'[t].cancelled = entry[t].cancelled
        /\ entry'[t].inHeap = entry[t].inHeap /\ entry'[t].paused = entry[t].paused
    BY <1>a, <1>5 DEF DoesResetAt, DoesSetMax, EntryFields
  <2> QED
    BY <1>d, <1>5, <2>1 DEF DoesResetAt, DoesSetMax, DeadAtEnd, InHand
<1>6. CASE DoesPause(t)
  <2>1. /\ entry'[t].dead = entry[t].dead /\ entry'[t].cancelled = entry[t].cancelled
        /\ entry'[t].inHeap = FALSE
    BY <1>a, <1>6 DEF DoesPause, EntryFields
  <2>2. Pausable(t)
    BY <1>6 DEF DoesPause, Pausable
  <2> QED
    BY <1>d, <1>6, <2>1, <2>2 DEF DoesPause, DeadAtEnd, InHand
<1>7. CASE DoesResume(t)
  <2>1. ~entry'[t].dead
    BY <1>a, <1>7 DEF DoesResume, EntryFields
  <2>2. Pausable(t) /\ UNCHANGED <<handle, job>>
    BY <1>7 DEF DoesResume, DeadAtEnd
  <2>3. job[t] \notin {"test", "free"}
    BY <1>7 DEF DoesResume, DeadAtEnd
  <2> QED
    BY <1>d, <2>1, <2>2, <2>3 DEF DeadAtEnd
<1>8. CASE Leaves(t) \/ DoesClear(t)
  <2>1. entry[t].inHeap
    BY <1>f, <1>8 DEF Leaves, DoesClear
  <2>2. job[t] = "idle" /\ t \notin best
    BY <1>b, <2>1 DEF Exclusive
  <2>3. job'[t] = "idle" /\ t \notin best' /\ entry'[t].inHeap = FALSE /\ entry'[t].paused = entry[t].paused
    BY <1>a, <1>8, <2>2 DEF Leaves, DoesClear, EntryFields
  <2>4. ~entry[t].paused => entry'[t].dead
    BY <1>a, <1>8 DEF Leaves, DoesClear, EntryFields
  <2> QED
    BY <1>d, <2>3, <2>4 DEF DeadAtEnd, InHand
<1>9. CASE DoesTake(t)
  <2>1. entry[t].inHeap /\ ~entry[t].cancelled /\ job[t] = "idle"
    BY <1>b, <1>f, <1>9 DEF DoesTake, Invalid, Exclusive
  <2>2. ~entry[t].dead
    BY <2>1 DEF DeadAtEnd
  <2>3. entry'[t].dead = entry[t].dead /\ entry'[t].paused = entry[t].paused
    BY <1>a, <1>9 DEF DoesTake, Taken, EntryFields
  <2>4. job'[t] = "idle" /\ t \in best'
    BY <1>9, <2>1 DEF DoesTake
  <2> QED
    BY <1>d, <2>2, <2>3, <2>4 DEF DeadAtEnd
<1>10. CASE DoesDirect(t) \/ DoesHold(t) \/ DoesSubmit(t) \/ DoesRaise(t)
  <2>1. /\ entry'[t].dead = entry[t].dead /\ entry'[t].cancelled = entry[t].cancelled
        /\ entry'[t].inHeap = entry[t].inHeap /\ entry'[t].paused = entry[t].paused
    BY <1>a, <1>10 DEF DoesDirect, DoesHold, DoesSubmit, DoesRaise, EntryFields
  <2>2. InHand(t) /\ job'[t] \in {"check", "lost", "idle"} /\ (job'[t] = "idle" => t \in best')
    BY <1>b, <1>10 DEF DoesDirect, DoesHold, DoesSubmit, DoesRaise, InHand, Exclusive
  <2> QED
    BY <1>d, <2>1, <2>2 DEF DeadAtEnd
<1>11. CASE DoesCheck(t) \/ DoesReturn(t)
  <2>1. /\ job[t] \in {"check", "call"} /\ job'[t] \in {"skip", "call", "count", "finish"}
        /\ UNCHANGED <<entry, best, thread>>
    BY <1>11 DEF DoesCheck, DoesReturn, Moves
  <2> QED
    BY <1>b, <1>d, <2>1 DEF DeadAtEnd, InHand, Exclusive
<1>12. CASE DoesCount(t)
  <2>1. job[t] = "count" /\ job'[t] = "finish" /\ UNCHANGED <<best, thread>>
    BY <1>12 DEF DoesCount, Moves
  <2>2. PICK b, c \in BOOLEAN :
          /\ b = (entry[t].cancelled \/ LimitReached(t)) /\ c = (entry[t].dead \/ LimitReached(t))
          /\ entry'[t] = [entry[t] EXCEPT !.count = @ + 1, !.cancelled = b, !.dead = c]
    BY <1>12 DEF DoesCount
  <2>3. /\ entry'[t].dead = c /\ entry'[t].cancelled = b
        /\ entry'[t].inHeap = entry[t].inHeap /\ entry'[t].paused = entry[t].paused
    BY <1>a, <2>2 DEF EntryFields
  <2>4. ~InHand(t)' /\ (entry[t].dead => entry[t].cancelled)
    BY <1>b, <2>1 DEF DeadAtEnd, InHand, Exclusive
  <2>5. c => b
    BY <2>2, <2>4
  <2> QED
    BY <1>d, <2>1, <2>3, <2>4, <2>5 DEF DeadAtEnd
<1>13. CASE DoesSkip(t) \/ DoesFinishOnce(t) \/ DoesFinishLast(t)
  <2>1. job'[t] \in {"test", "free", "idle"} /\ job[t] # "idle"
    BY <1>13 DEF DoesSkip, DoesFinishOnce, DoesFinishLast, Moves
  <2>2. entry'[t].dead /\ entry'[t].inHeap = entry[t].inHeap /\ entry'[t].paused = entry[t].paused
    BY <1>a, <1>13 DEF DoesSkip, DoesFinishOnce, DoesFinishLast, EntryFields
  <2>3. ~InHand(t)' /\ ~entry[t].inHeap
    BY <1>b, <1>13 DEF DoesSkip, DoesFinishOnce, DoesFinishLast, Moves, InHand, Exclusive
  <2>4. job'[t] = "free" => ~OnThread(t) /\ Disposable(entry'[t])
    BY <1>13 DEF DoesSkip, DoesFinishOnce, DoesFinishLast, Moves
  <2>5. entry'[t].refs = RefsAfter(t) /\ handle' = handle
    BY <1>a, <1>13 DEF DoesSkip, DoesFinishOnce, DoesFinishLast, EntryFields
  <2>6. ASSUME job'[t] = "free" PROVE ~handle'[t]
    <3>1. RefsAfter(t) = entry[t].refs - 1 /\ RefsAfter(t) <= 0
      BY <2>4, <2>5, <2>6 DEF RefsAfter, Disposable
    <3>2. job[t] \in {"skip", "finish"} /\ InPool(t)
      BY <1>13, <2>4, <2>6 DEF DoesSkip, DoesFinishOnce, DoesFinishLast, InPool
    <3> QED
      BY <1>a, <1>b, <2>5, <3>1, <3>2 DEF Counted
  <2> QED
    BY <1>d, <2>1, <2>2, <2>3, <2>6 DEF DeadAtEnd
<1>14. CASE DoesFinishAgain(t)
  <2>1. /\ entry'[t].dead = entry[t].dead /\ entry'[t].cancelled = entry[t].cancelled
        /\ entry'[t].inHeap /\ entry'[t].paused = entry[t].paused
    BY <1>a, <1>14 DEF DoesFinishAgain, EntryFields
  <2>2. job'[t] = "idle" /\ ~InHand(t)' /\ (entry[t].dead => entry[t].cancelled)
    BY <1>b, <1>14 DEF DoesFinishAgain, Moves, InHand, DeadAtEnd, Exclusive
  <2> QED
    BY <1>d, <2>1, <2>2 DEF DeadAtEnd
<1>15. CASE DoesTest(t) \/ DoesFree(t)
  <2>1. job[t] \in {"test", "free"} /\ job'[t] \in {"free", "idle"} /\ UNCHANGED <<entry, handle>>
    BY <1>15 DEF DoesTest, DoesFree, Moves
  <2>2. ~InHand(t)' /\ ~entry[t].inHeap
    BY <1>b, <1>15 DEF DoesTest, DoesFree, Moves, InHand, Exclusive
  <2>3. job'[t] = "free" => ~handle[t]
    BY <1>a, <1>b, <1>15 DEF DoesTest, DoesFree, Moves, Disposable, Counted
  <2> QED
    BY <1>d, <2>1, <2>2, <2>3 DEF DeadAtEnd
<1> QED
  BY <1>0, <1>1, <1>2, <1>3, <1>4, <1>5, <1>6, <1>7, <1>8, <1>9, <1>10, <1>11, <1>12, <1>13, <1>14, <1>15
  DEF TimerStep

\* The last to let go of an entry frees it, and nobody else does.
LEMMA OwnedStep ==
  ASSUME HInv, KeptOrPooled, ClosesForGood, [Next]_vars,
         NEW t \in Timers, Regular(t), DeadAtEnd(t), Owned(t)
  PROVE  Owned(t)'
<1>a. /\ entry[t] \in EntryFields /\ Placed(t) /\ heap[t] \in Int /\ OneBest
      /\ handle[t] \in BOOLEAN /\ job[t] \in JobStages /\ mem[t] \in {"none", "live", "freed"}
      /\ thread \in {"top", "scan", "sleep", "nap", "due", "submit", "callback", "exit"}
  BY DEF HInv, Typed, EntryTyped, MapsTyped, RestTyped
<1>b. Exclusive(t) /\ Counted(t) /\ Unscheduled(t) /\ PausedApart(t)
  BY <1>a DEF Placed
<1>c. plan' = plan
  BY PlanKept
<1>d. Droppable(t)' = Droppable(t)
  BY <1>c DEF Droppable
<1>e. Droppable(t) => ~Pausable(t) /\ ~OnThread(t)
  BY DEF HInv, Typed, RestTyped, KeptOrPooled, KeepsOrPools, Droppable, Pausable, ClosesForGood, OnThread
<1>f. heap[t] > 0 <=> entry[t].inHeap
  BY <1>a, <1>b DEF Exclusive, EntryFields
\* Who holds an entry, in the terms of the invariants.
<1>g. Held(t) <=> handle[t] \/ heap[t] > 0 \/ job[t] \notin {"idle", "lost"} \/ InHand(t)
  BY DEF Held, Queued, InHand
<1>h. Held(t)' <=> handle'[t] \/ heap'[t] > 0 \/ job'[t] \notin {"idle", "lost"} \/ InHand(t)'
  BY DEF Held, Queued, InHand
\* The callback on the timer thread relies on the handle.
<1>i. OnThread(t) => handle[t]
  BY <1>b, <1>e DEF Owned, Exclusive, Unscheduled, OnThread
\* A step that keeps the handle and the memory.
<1>j. ASSUME handle'[t], handle[t], mem'[t] = mem[t] PROVE Owned(t)'
  BY <1>h, <1>g, <1>j DEF Owned
\* A step that keeps memory, handle and the rest of what holds the entry.
<1>k. ASSUME mem'[t] = mem[t], handle'[t] = handle[t],
             Held(t)' <=> Held(t), job[t] = "lost" => job'[t] = "lost"
      PROVE  Owned(t)'
  BY <1>d, <1>k DEF Owned
<1>0. TimerStep(t)
  BY EveryStep
<1>1. CASE Alike(t) \/ Ticks(t)
  BY <1>a, <1>1, <1>g, <1>h, <1>k DEF Alike, Ticks, InHand
<1>2. CASE DoesSchedule(t)
  BY <1>2, <1>h DEF DoesSchedule, Owned
<1>3. CASE DoesCancel(t) \/ DoesResetAt(t) \/ DoesPause(t) \/ DoesResume(t) \/ DoesSetMax(t)
  BY <1>3, <1>j DEF DoesCancel, DoesResetAt, DoesPause, DoesResume, DoesSetMax
<1>4. CASE DoesDrop(t)
  <2>1. Droppable(t) /\ ~Pausable(t) /\ ~OnThread(t) /\ handle[t] /\ ~handle'[t] /\ mem[t] = "live"
    BY <1>4, <1>e, <1>g DEF DoesDrop, Droppable, Owned
  <2>2. /\ entry'[t].dead = entry[t].dead /\ entry'[t].inHeap = entry[t].inHeap
        /\ entry'[t].refs = entry[t].refs - 1
    BY <1>a, <1>4 DEF DoesDrop, EntryFields
  <2>3. UNCHANGED <<heap, job, sched>>
    BY <1>4 DEF DoesDrop
  <2>4. CASE Disposable(entry'[t])
    <3>1. entry[t].refs <= 1 /\ entry[t].dead /\ ~entry[t].inHeap
      BY <1>a, <2>2, <2>4 DEF Disposable, EntryFields
    <3>2. ~InPool(t) /\ ~(t \in best /\ thread = "submit")
      BY <1>b, <2>1, <3>1 DEF Counted
    <3>3. job[t] \in {"idle", "lost"}
      BY <1>a, <1>b, <2>1, <3>2 DEF InPool, Exclusive, DeadAtEnd, JobStages
    <3>4. ~InHand(t)
      BY <2>1, <3>1 DEF DeadAtEnd
    <3>5. ~Held(t)' /\ mem'[t] = "freed"
      BY <1>4, <1>f, <1>h, <2>1, <2>3, <2>4, <3>1, <3>3, <3>4 DEF DoesDrop, InHand
    <3> QED
      BY <1>d, <2>1, <3>5 DEF Owned
  <2>5. CASE ~Disposable(entry'[t])
    <3>1. mem'[t] = "live"
      BY <1>4, <2>1, <2>5 DEF DoesDrop
    <3>2. Held(t)' \/ job'[t] = "lost"
      <4>1. CASE entry[t].inHeap
        BY <1>f, <1>h, <2>3, <4>1
      <4>2. CASE ~entry[t].inHeap /\ entry[t].dead
        <5>1. entry[t].refs > 1
          BY <1>a, <2>2, <2>5, <4>2 DEF Disposable, EntryFields
        <5>2. InPool(t) \/ (t \in best /\ thread = "submit")
          BY <1>b, <2>1, <5>1 DEF Counted
        <5> QED
          BY <1>h, <2>3, <5>2 DEF InPool, InHand
      <4>3. CASE ~entry[t].inHeap /\ ~entry[t].dead
        <5>1. job[t] # "idle" \/ t \in best
          BY <2>1, <4>3 DEF DeadAtEnd
        <5>2. t \in best => InHand(t)
          BY <1>a, <2>1 DEF OneBest, InHand, OnThread
        <5> QED
          BY <1>h, <2>3, <5>1, <5>2 DEF InHand
      <4> QED
        BY <1>a, <4>1, <4>2, <4>3 DEF EntryFields
    <3> QED
      BY <1>d, <2>1, <3>1, <3>2 DEF Owned
  <2> QED
    BY <2>4, <2>5
<1>5. CASE Leaves(t) \/ DoesClear(t)
  <2>1. heap[t] > 0 /\ heap'[t] = 0 /\ UNCHANGED <<handle, job>> /\ (t \notin best => t \notin best')
    BY <1>5 DEF Leaves, DoesClear
  <2>2. entry[t].inHeap /\ job[t] = "idle" /\ t \notin best /\ t \notin best' /\ mem[t] = "live"
    BY <1>b, <1>f, <1>g, <2>1 DEF Exclusive, Owned
  <2>3. Held(t)' <=> handle[t]
    BY <1>h, <2>1, <2>2 DEF InHand
  <2>4. entry[t].refs = (IF handle[t] THEN 1 ELSE 0)
    BY <1>b, <2>2 DEF Counted, InPool
  <2>5. entry'[t].refs = entry[t].refs /\ ~entry'[t].inHeap
    BY <1>a, <1>5 DEF Leaves, DoesClear, EntryFields
  <2>6. mem'[t] = IF Disposable(entry'[t]) THEN "freed" ELSE mem[t]
    BY <1>5 DEF Leaves, DoesClear
  <2>7. CASE handle[t]
    BY <1>j, <2>1, <2>4, <2>5, <2>6, <2>7 DEF Disposable
  <2>8. CASE ~handle[t]
    <3>1. Droppable(t) /\ ~entry[t].paused
      BY <1>e, <2>2, <2>8 DEF Owned, DeadAtEnd
    <3>2. entry'[t].dead
      BY <1>a, <1>5, <3>1 DEF Leaves, DoesClear, EntryFields
    <3>3. mem'[t] = "freed"
      BY <2>4, <2>5, <2>6, <2>8, <3>2 DEF Disposable
    <3> QED
      BY <1>d, <2>3, <2>8, <3>1, <3>3 DEF Owned
  <2> QED
    BY <1>a, <2>7, <2>8
<1>6. CASE DoesTake(t)
  <2>1. Held(t) /\ InHand(t)' /\ mem'[t] = mem[t] /\ handle' = handle /\ job' = job
    BY <1>6, <1>g DEF DoesTake, InHand
  <2> QED
    BY <1>h, <1>k, <2>1
<1>7. CASE DoesDirect(t) \/ DoesHold(t) \/ DoesSubmit(t) \/ DoesRaise(t)
  <2>1. Held(t) /\ mem'[t] = mem[t] /\ handle' = handle
    BY <1>7, <1>g DEF DoesDirect, DoesHold, DoesSubmit, DoesRaise, InHand
  <2>2. InHand(t)' \/ job'[t] \in {"check", "lost"}
    BY <1>7 DEF DoesDirect, DoesHold, DoesSubmit, DoesRaise, InHand
  <2>3. Held(t)' \/ job'[t] = "lost"
    BY <1>h, <2>2
  <2> QED
    BY <1>d, <2>1, <2>3 DEF Owned
<1>8. CASE DoesCheck(t) \/ DoesReturn(t) \/ DoesCount(t)
  <2>1. job[t] \in {"check", "call", "count"} /\ job'[t] \in {"skip", "call", "count", "finish"}
    BY <1>8 DEF DoesCheck, DoesReturn, DoesCount, Moves
  <2>2. mem' = mem /\ handle' = handle
    BY <1>8 DEF DoesCheck, DoesReturn, DoesCount
  <2> QED
    BY <1>g, <1>h, <1>k, <2>1, <2>2
<1>9. CASE DoesSkip(t) \/ DoesFinishOnce(t) \/ DoesFinishLast(t)
  <2>1. job[t] \in {"skip", "finish"} /\ handle' = handle
    BY <1>9 DEF DoesSkip, DoesFinishOnce, DoesFinishLast
  <2>2. entry'[t].dead /\ entry'[t].refs = RefsAfter(t) /\ entry'[t].inHeap = entry[t].inHeap
    BY <1>a, <1>9 DEF DoesSkip, DoesFinishOnce, DoesFinishLast, EntryFields
  <2>3. ~entry[t].inHeap /\ mem[t] = "live" /\ RefsAfter(t) = (IF handle[t] THEN 1 ELSE 0)
    <3>1. ~entry[t].inHeap /\ mem[t] = "live" /\ ~(t \in best /\ thread = "submit")
      BY <1>b, <1>g, <2>1 DEF Exclusive, Owned, InHand
    <3>2. CASE OnThread(t)
      BY <1>a, <1>b, <3>1, <3>2 DEF Counted, InPool, RefsAfter, EntryFields
    <3>3. CASE ~OnThread(t)
      <4>1. InPool(t)
        BY <2>1, <3>3 DEF InPool
      <4> QED
        BY <1>b, <3>1, <3>3, <4>1 DEF Counted, RefsAfter
    <3> QED
      BY <3>1, <3>2, <3>3
  <2>4. CASE handle[t]
    <3>1. ~Disposable(entry'[t])
      BY <2>2, <2>3, <2>4 DEF Disposable
    <3>2. mem'[t] = mem[t]
      BY <1>9, <3>1 DEF DoesSkip, DoesFinishOnce, DoesFinishLast
    <3> QED
      BY <1>j, <2>1, <2>4, <3>2
  <2>5. CASE ~handle[t]
    <3>1. ~OnThread(t) /\ Disposable(entry'[t])
      BY <1>i, <2>2, <2>3, <2>5 DEF Disposable
    <3>2. job'[t] = "free" /\ mem'[t] = mem[t]
      BY <1>9, <3>1 DEF DoesSkip, DoesFinishOnce, DoesFinishLast, Moves
    <3> QED
      BY <1>g, <1>h, <1>k, <2>1, <3>2
  <2> QED
    BY <2>4, <2>5
<1>10. CASE DoesFinishAgain(t)
  <2>1. job[t] = "finish" /\ handle' = handle /\ mem' = mem /\ heap'[t] = heap[t] + 1
    BY <1>10 DEF DoesFinishAgain
  <2>2. heap[t] = 0
    BY <1>b, <2>1 DEF Exclusive
  <2> QED
    BY <1>g, <1>h, <1>k, <2>1, <2>2
<1>11. CASE DoesTest(t)
  <2>1. handle[t] /\ handle' = handle /\ mem' = mem
    BY <1>b, <1>i, <1>11 DEF DoesTest, Exclusive
  <2> QED
    BY <1>j, <2>1
<1>12. CASE DoesFree(t)
  <2>1. ~handle[t] /\ mem'[t] = "freed" /\ job'[t] = "idle" /\ handle' = handle /\ heap' = heap
    BY <1>12 DEF DoesFree, DeadAtEnd, Moves
  <2>2. heap[t] = 0 /\ ~InHand(t)'
    BY <1>b, <1>12 DEF DoesFree, Moves, Exclusive, InHand
  <2>3. Droppable(t)
    BY <1>12, <1>g, <2>1 DEF Owned, DoesFree
  <2> QED
    BY <1>d, <1>h, <2>1, <2>2, <2>3 DEF Owned
<1> QED
  BY <1>0, <1>1, <1>2, <1>3, <1>4, <1>5, <1>6, <1>7, <1>8, <1>9, <1>10, <1>11, <1>12 DEF TimerStep

\* After Destroy nothing enters the queue and no callback starts.
LEMMA ClosedStep ==
  ASSUME HInv, ClosesForGood, [Next]_vars, NEW t \in Timers, Regular(t), Closed(t)
  PROVE  Closed(t)'
<1>a. entry[t] \in EntryFields /\ Exclusive(t) /\ OneBest /\ heap[t] \in Int
  BY DEF HInv, Typed, EntryTyped, MapsTyped, Placed
<1>1. CASE Destroy
  <2>1. job'[t] = "idle"
    BY <1>1 DEF Destroy
  <2>2. ~entry'[t].inHeap
    <3>1. CASE heap[t] > 0
      BY <1>a, <1>1, <3>1 DEF Destroy, Cleared, Queued, EntryFields
    <3>2. CASE ~(heap[t] > 0)
      <4>1. t \notin Queued /\ ~entry[t].inHeap
        BY <1>a, <3>2 DEF Queued, Exclusive
      <4>2. entry'[t] = entry[t]
        BY <1>1, <4>1 DEF Destroy, Cleared
      <4> QED
        BY <4>1, <4>2
    <3> QED
      BY <3>1, <3>2
  <2> QED
    BY <2>1, <2>2 DEF Closed
<1>2. CASE ~Destroy /\ closer' = "destroyed"
  <2>1. closer = "destroyed"
    <3>1. ASSUME NEW u \in Timers, JobStep(u) \/ HandleCall(u) PROVE closer' = closer
      BY <3>1 DEF JobStep, Check, Skip, Return, Count, FinishAgain, FinishLast, FinishOnce, Test, Free,
        HandleCall, Schedule, Cancel, Drop, ResetAt, Pause, Resume, SetMaxExecutions, CancelToken
    <3>2. ASSUME ThreadStep \/ Tick \/ SetCallbackExecutor \/ UNCHANGED vars PROVE closer' = closer
      BY <3>2 DEF ThreadStep, Top, Woken, Scan, ScanEmpty, ScanEarly, ScanDue, Dispatch, Direct, Hold, Submit,
        SubmitRaises, SubmitDiscarded, Tick, SetCallbackExecutor, vars
    <3>3. ~Shutdown /\ ~Closing
      BY <1>2 DEF Shutdown, Closing, ShutdownSignal, ShutdownJoin
    <3> QED
      BY <1>2, <3>1, <3>2, <3>3 DEF Next
  <2>2. /\ ~entry[t].inHeap /\ job[t] = "idle" /\ thread = "exit" /\ best = {} /\ shuttingDown
        /\ ~(heap[t] > 0)
    BY <1>a, <2>1 DEF Closed, ClosesForGood, OneBest, Exclusive
  <2>3. TimerStep(t)
    BY EveryStep
  <2>4. job'[t] = "idle"
    BY <2>2, <2>3 DEF TimerStep, Alike, Ticks, DoesSchedule, DoesCancel, DoesDrop, DoesResetAt, DoesPause,
      DoesResume, DoesSetMax, Leaves, DoesTake, DoesClear, DoesDirect, DoesHold, DoesSubmit, DoesRaise,
      DoesCheck, DoesSkip, DoesReturn, DoesCount, DoesFinishAgain, DoesFinishLast, DoesFinishOnce,
      DoesTest, DoesFree
  <2>5. ~entry'[t].inHeap
    <3>1. CASE Alike(t) \/ Ticks(t)
      BY <2>2, <3>1 DEF Alike, Ticks
    <3>2. CASE DoesCancel(t) \/ DoesDrop(t) \/ DoesPause(t) \/ DoesSetMax(t)
      BY <1>a, <2>2, <3>2 DEF DoesCancel, DoesDrop, DoesPause, DoesSetMax, EntryFields
    <3>3. ~(DoesSchedule(t) \/ DoesResetAt(t) \/ DoesResume(t))
      BY <2>1, <2>2 DEF DoesSchedule, DoesResetAt, DoesResume, CanReset
    <3>4. ~(Leaves(t) \/ DoesTake(t) \/ DoesClear(t) \/ DoesDirect(t) \/ DoesHold(t) \/ DoesSubmit(t)
              \/ DoesRaise(t))
      BY <2>2 DEF Leaves, DoesTake, DoesClear, DoesDirect, DoesHold, DoesSubmit, DoesRaise
    <3>5. ~(DoesCheck(t) \/ DoesSkip(t) \/ DoesReturn(t) \/ DoesCount(t) \/ DoesFinishAgain(t)
              \/ DoesFinishLast(t) \/ DoesFinishOnce(t) \/ DoesTest(t) \/ DoesFree(t))
      BY <2>2 DEF DoesCheck, DoesSkip, DoesReturn, DoesCount, DoesFinishAgain, DoesFinishLast, DoesFinishOnce,
        DoesTest, DoesFree
    <3> QED
      BY <2>3, <3>1, <3>2, <3>3, <3>4, <3>5 DEF TimerStep
  <2> QED
    BY <2>4, <2>5 DEF Closed
<1>3. CASE closer' # "destroyed"
  BY <1>3 DEF Closed
<1> QED
  BY <1>1, <1>2, <1>3

\* An entry is freed when, and only when, nobody can reach it any more, and after
\* Destroy every handle that is left refers to a dead entry: the reference count,
\* the Dead flag and InHeap agree among the queue, the handles, the timer thread
\* and the tasks in the pool, however their steps interleave.
THEOREM MemoryStaysSafe ==
  ASSUME ResumesOnlyQueued, KeptOrPooled
  PROVE  Spec => []MemorySafe
<1> DEFINE Each == \A t \in Timers : DeadAtEnd(t) /\ Owned(t) /\ Closed(t)
           MInv == ClosesForGood /\ Each
<1>1. Init => MInv
  <2> SUFFICES ASSUME Init PROVE MInv
    OBVIOUS
  <2>1. ASSUME NEW t \in Timers PROVE DeadAtEnd(t) /\ Owned(t) /\ Closed(t)
    BY DEF Init, DeadAtEnd, Owned, Closed, InHand, Held, Queued, Blank
  <2>2. ASSUME NEW t \in Timers, Droppable(t) PROVE async
    BY <2>2 DEF Init, KeptOrPooled, KeepsOrPools, Droppable
  <2>3. ClosesForGood
    BY <2>2 DEF Init, ClosesForGood
  <2> QED
    BY <2>1, <2>3
<1>2. HInv => \A t \in Timers : Regular(t)
  BY DEF HInv, Typed, RestTyped, Regular, ResumesOnlyQueued, PausesInQueue
<1>3. HInv /\ MInv /\ [Next]_vars => MInv'
  BY <1>2, ClosingStep, DeadStep, OwnedStep, ClosedStep
<1>4. HInv /\ MInv => MemorySafe
  <2> SUFFICES ASSUME HInv, MInv PROVE MemorySafe
    OBVIOUS
  <2>1. NeverFreedInUse /\ NoLeak
    BY DEF Owned, NeverFreedInUse, NoLeak
  <2>2. ASSUME closer = "destroyed", NEW t \in Timers, handle[t] PROVE entry[t].dead
    <3>1. ~Pausable(t)
      BY <2>2 DEF ClosesForGood, HInv, Typed, RestTyped, KeptOrPooled, KeepsOrPools, Pausable
    <3>2. best = {}
      BY <2>2 DEF ClosesForGood, HInv, OneBest
    <3>3. mem[t] = "live"
      BY <2>2 DEF Owned, Held
    <3> QED
      BY <2>2, <3>1, <3>2, <3>3 DEF Closed, DeadAtEnd
  <2> QED
    BY <2>1, <2>2 DEF MemorySafe, NoDanglingOwner
<1> QED
  BY <1>1, <1>3, <1>4, PlacesKept, PTL DEF Spec
=============================================================================
