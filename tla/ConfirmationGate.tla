---------------------------- MODULE ConfirmationGate ----------------------------
(***************************************************************************)
(* What the confirmation system promises (luna/confirmation/__init__.py):  *)
(* one open question per user, a new question supersedes the open one, a   *)
(* question is decided at most once and only while it is the open one.     *)
(* The two dictionaries, the clock and the messages are not visible here.  *)
(***************************************************************************)
CONSTANTS Users, Questions, None

Verdicts == {"confirmed", "rejected", "expired"}

VARIABLES
    open,       \* the question each user has to answer, or None
    state       \* how each question stands

vars == <<open, state>>

Init ==
    /\ open = [u \in Users |-> None]
    /\ state = [q \in Questions |-> "unasked"]

\* A new question takes the place of the one the user had not answered.
Ask(u, q) ==
    /\ state[q] = "unasked"
    /\ open' = [open EXCEPT ![u] = q]
    /\ state' = [p \in Questions |->
                    IF p = q THEN "open"
                    ELSE IF p = open[u] THEN "superseded" ELSE state[p]]

\* The open question is settled and the user has none.
Decide(u, verdict) ==
    /\ open[u] # None
    /\ state' = [state EXCEPT ![open[u]] = verdict]
    /\ open' = [open EXCEPT ![u] = None]

Next == \E u \in Users : \/ \E q \in Questions : Ask(u, q)
                         \/ \E v \in Verdicts : Decide(u, v)

Spec == Init /\ [][Next]_vars
================================================================================
