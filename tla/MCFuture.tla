------------------------------ MODULE MCFuture ------------------------------
(* Small instances of Future: who may call what.                           *)
EXTENDS Future, TLC

CONSTANTS a, b, c, d

\* Every thread may call every operation: all races between any calls.
MCAnyCall == [t \in Threads |-> Operations]

\* All threads are alike under MCAnyCall.
MCSymmetry == Permutations(Threads)

\* One thread settles the future, one continues it.
MCContinueRace ==
  [t \in Threads |-> IF t = a THEN {"ContinueWith"} ELSE {"Complete"}]

\* One thread maps over the future, one cancels it.
MCCancelRace ==
  [t \in Threads |-> IF t = a THEN {"Map"} ELSE {"Cancel"}]
=============================================================================
