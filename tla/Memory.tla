--------------------------------- MODULE Memory ---------------------------------
(***************************************************************************)
(* What the memory promises the runtime (luna/memory/store.py,             *)
(* luna/agent/task_manager.py), whichever backend is behind it: a user is  *)
(* known from the first message on, has one active task, and what the task *)
(* knows only grows.  A backend may lose everything at once; it never      *)
(* loses a part.                                                           *)
(***************************************************************************)

CONSTANTS
    Users,
    Fields,     \* names of the travel fields
    None

VARIABLES
    profiles,   \* users with a profile
    facts       \* the fields each user's active task knows, None without a task

vars == <<profiles, facts>>

NoFacts == [u \in Users |-> None]

Init ==
    /\ profiles = {}
    /\ facts = NoFacts

\* create_user()
Introduce(u) ==
    /\ profiles' = profiles \cup {u}
    /\ UNCHANGED facts

\* create_task()
Begin(u) ==
    /\ u \in profiles
    /\ facts[u] = None
    /\ facts' = [facts EXCEPT ![u] = {}]
    /\ UNCHANGED profiles

\* update_task()
Learn(u, known) ==
    /\ facts[u] # None
    /\ facts' = [facts EXCEPT ![u] = @ \cup known]
    /\ UNCHANGED profiles

\* The process ends and the backend kept nothing outside it.
Forget ==
    /\ profiles' = {}
    /\ facts' = NoFacts

Next ==
    \/ \E u \in Users : Introduce(u) \/ Begin(u)
    \/ \E u \in Users, known \in SUBSET Fields : Learn(u, known)
    \/ Forget

Spec == Init /\ [][Next]_vars
================================================================================
