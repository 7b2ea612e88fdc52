------------------------------ MODULE Promise ------------------------------
(***************************************************************************)
(* What a future promises to the threads that share it: a cell that is     *)
(* settled once, and waits that end by its settling or by a time-out that  *)
(* really found it pending.                                                *)
(***************************************************************************)
CONSTANT Threads

VARIABLES outcome,  \* "Pending", or how the cell was settled
          waiting,  \* the threads whose wait has not returned
          answer    \* what the wait of a thread returned, "none" before

vars == <<outcome, waiting, answer>>

Init ==
  /\ outcome = "Pending" /\ waiting = {}
  /\ answer = [t \in Threads |-> "none"]

Settle ==
  /\ outcome = "Pending"
  /\ outcome' \in {"Completed", "Cancelled", "Failed"}
  /\ UNCHANGED <<waiting, answer>>

\* A wait on a settled cell returns at once.
Pass(t) ==
  /\ outcome # "Pending" /\ t \notin waiting /\ answer[t] = "none"
  /\ answer' = [answer EXCEPT ![t] = "true"]
  /\ UNCHANGED <<outcome, waiting>>

Block(t) ==
  /\ outcome = "Pending" /\ t \notin waiting /\ answer[t] = "none"
  /\ waiting' = waiting \cup {t}
  /\ UNCHANGED <<outcome, answer>>

Release(t) ==
  /\ outcome # "Pending" /\ t \in waiting
  /\ waiting' = waiting \ {t}
  /\ answer' = [answer EXCEPT ![t] = "true"]
  /\ UNCHANGED outcome

GiveUp(t) ==
  /\ outcome = "Pending" /\ t \in waiting
  /\ waiting' = waiting \ {t}
  /\ answer' = [answer EXCEPT ![t] = "false"]
  /\ UNCHANGED outcome

Next ==
  \/ Settle
  \/ \E t \in Threads : Pass(t) \/ Block(t) \/ Release(t) \/ GiveUp(t)

Spec == Init /\ [][Next]_vars

\* Nobody has to settle the cell; a settled one ends every wait.
FairSpec == Spec /\ \A t \in Threads : WF_vars(Release(t))
=============================================================================
