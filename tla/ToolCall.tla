-------------------------------- MODULE ToolCall --------------------------------
(***************************************************************************)
(* What the dispatcher promises the runtime (luna/tools/dispatcher.py): a  *)
(* call is answered once, with one of four statuses and never with an      *)
(* exception; and "ok", the only status whose text reaches the user, comes *)
(* only from a tool that is on and has an argument to work with.           *)
(***************************************************************************)
CONSTANTS
    Calls,      \* identities of the calls
    Requests,   \* what can be asked of a tool
    Runnable,   \* those requests a tool can run
    None

Statuses == {"ok", "missing_args", "error", "disabled"}

VARIABLES
    asked,      \* the request of each call, None before it is made
    answer      \* its status, None before it returns

vars == <<asked, answer>>

Init ==
    /\ asked = [c \in Calls |-> None]
    /\ answer = [c \in Calls |-> None]

MayAnswer(request, status) == status = "ok" => request \in Runnable

\* A tool that has nothing to wait for.
CallAndReturn(c, request, status) ==
    /\ asked[c] = None
    /\ MayAnswer(request, status)
    /\ asked' = [asked EXCEPT ![c] = request]
    /\ answer' = [answer EXCEPT ![c] = status]

\* A tool that awaits the network ...
Call(c, request) ==
    /\ asked[c] = None
    /\ asked' = [asked EXCEPT ![c] = request]
    /\ UNCHANGED answer

\* ... and comes back.
Return(c, status) ==
    /\ asked[c] # None /\ answer[c] = None
    /\ MayAnswer(asked[c], status)
    /\ answer' = [answer EXCEPT ![c] = status]
    /\ UNCHANGED asked

Next ==
    \E c \in Calls :
        \/ \E request \in Requests : Call(c, request)
        \/ \E request \in Requests, status \in Statuses : CallAndReturn(c, request, status)
        \/ \E status \in Statuses : Return(c, status)

Spec == Init /\ [][Next]_vars
================================================================================
