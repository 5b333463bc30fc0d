------------------------------ MODULE PlannerCall ------------------------------
(***************************************************************************)
(* What planner.run() promises the runtime: a call returns one plan and    *)
(* leaves one planner_run entry in the event log, whatever Claude does.    *)
(* Only the database can fail it, and then there is neither.  Module       *)
(* Runtime relies on this: its action Plan is a single step.               *)
(***************************************************************************)
EXTENDS Naturals

CONSTANTS Plans, None

VARIABLES
    durable,    \* the event log is in SQLite, which may raise
    turn,       \* calls so far
    calling,    \* run() has been called and has not returned
    plan,       \* what it returned, until the runtime has used it
    recorded    \* calls with a planner_run entry

vars == <<durable, turn, calling, plan, recorded>>

Init ==
    /\ durable \in BOOLEAN
    /\ turn = 0
    /\ calling = FALSE
    /\ plan = None
    /\ recorded = {}

Call ==
    /\ ~calling /\ plan = None
    /\ turn' = turn + 1
    /\ calling' = TRUE
    /\ UNCHANGED <<durable, plan, recorded>>

Return ==
    /\ calling /\ turn \notin recorded
    /\ calling' = FALSE
    /\ plan' \in Plans
    /\ recorded' = recorded \cup {turn}
    /\ UNCHANGED <<durable, turn>>

Fail ==
    /\ calling /\ durable
    /\ calling' = FALSE
    /\ UNCHANGED <<durable, turn, plan, recorded>>

Use ==
    /\ plan # None
    /\ plan' = None
    /\ UNCHANGED <<durable, turn, calling, recorded>>

Next == Call \/ Return \/ Fail \/ Use

Spec == Init /\ [][Next]_vars
================================================================================
