-------------------------- MODULE MCTaskScheduler --------------------------
(* Small instances of TaskScheduler.                                       *)
EXTENDS TaskScheduler

CONSTANTS f1, f2, r1

\* Two tasks of one kind and one of another.
MCKind == [t \in Tasks |-> IF t = r1 THEN "Ref" ELSE "Func"]

\* One task may be due at once or later, one is due at once, one later.
MCDelays == [t \in Tasks |-> IF t = f1 THEN {0, 1} ELSE IF t = f2 THEN {0} ELSE {1}]
=============================================================================
