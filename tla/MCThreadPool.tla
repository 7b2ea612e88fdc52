---------------------------- MODULE MCThreadPool ----------------------------
(* Small instances of ThreadPool.                                          *)
EXTENDS ThreadPool, TLC

CONSTANTS t1, t2, t3, w1, w2, w3

AllPolicies == {"Abort", "CallerRuns", "Discard", "DiscardOldest"}

\* An unlimited queue; a cfg cannot write a negative number.
Unlimited == -1

\* Names only tell workers apart, and tasks of one kind.
MCSymmetry == Permutations(Tasks \ TokenTasks) \cup Permutations(Workers)
=============================================================================
