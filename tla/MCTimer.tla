------------------------------ MODULE MCTimer ------------------------------
(* Small instances of Timer.                                               *)
EXTENDS Timer, TLC

CONSTANTS once, rate, delay

MCKind == [t \in Timers |-> CASE t = once -> "once" [] t = rate -> "fixedRate" [] OTHER -> "fixedDelay"]
MCPeriod == [t \in Timers |-> 2]

\* The timers of a plan are those with a set of calls.
Plan(a, refusal, capacity, horizon, calls, control) ==
  [async |-> a, refusal |-> refusal, capacity |-> capacity, horizon |-> horizon, control |-> control,
   calls |-> [t \in Timers |-> IF t \in DOMAIN calls THEN calls[t] \cup {"Schedule"} ELSE {}]]

\* Uses of the scheduler for which the code is right.
MCPlans ==
  { \* callbacks on the timer thread, handles kept
    Plan(FALSE, "none", 2, 2, (once :> {"ResetAt", "Cancel"}) @@ (rate :> {}), {}),
    Plan(FALSE, "none", 1, 6, (rate :> {"PauseQueued", "Resume"}), {"Shutdown"}),
    Plan(FALSE, "none", 1, 4, (delay :> {"SetMaxExecutions", "Pause"}), {}),
    Plan(FALSE, "none", 1, 2, (delay :> {"Cancel"}) @@ (once :> {"CancelToken"}), {"Destroy"}),
    \* callbacks in a pool, handles dropped at any time
    Plan(TRUE, "none", 2, 2, (once :> {"Destroy"}) @@ (delay :> {"Destroy", "CancelQueued"}), {}),
    Plan(TRUE, "none", 1, 4, (once :> {"Destroy", "ResetAt"}), {"Destroy"}),
    Plan(TRUE, "none", 1, 4, (rate :> {"Destroy", "SetMaxExecutions"}), {"Destroy"}),
    Plan(TRUE, "none", 1, 2, (once :> {"Destroy", "CancelToken"}), {"Destroy"}),
    \* a pool that refuses, an executor that comes and goes
    Plan(TRUE, "Abort", 2, 2, (once :> {"Cancel"}) @@ (delay :> {"PauseQueued", "Resume"}), {}),
    Plan(TRUE, "Discard", 1, 4, (rate :> {"Cancel"}), {"SetCallbackExecutor"}) }

\* They satisfy what the theorems about Timer suppose.
ASSUME MCPlansAreRight == \A p \in MCPlans : PausesInQueue(p) /\ KeepsOrPools(p)

\* Uses for which a property fails; see the README.
MCPlanShutdown == {Plan(FALSE, "none", 1, 1, (once :> {}), {"Shutdown"})}
MCPlanDropSync == {Plan(FALSE, "none", 1, 1, (once :> {"Destroy"}), {})}
MCPlanDropAsync == {Plan(TRUE, "none", 1, 2, (delay :> {"Cancel", "Destroy"}), {})}
MCPlanPause == {Plan(FALSE, "none", 2, 3, (rate :> {"Pause", "Resume"}), {})}
MCPlanPauseDrop == {Plan(FALSE, "none", 1, 2, (rate :> {"PauseQueued", "Destroy"}), {})}
MCPlanPauseDestroy == {Plan(FALSE, "none", 1, 2, (rate :> {"PauseQueued", "Resume"}), {"Destroy"})}
=============================================================================
