---------------------------- MODULE MCTimerHeap ----------------------------
(* A small instance of TimerHeap: three levels of the heap.                *)
EXTENDS TimerHeap, TLC

CONSTANTS e1, e2, e3, e4, e5, e6

\* The names of the entries do not matter.
MCSymmetry == Permutations(Entries)
=============================================================================
