------------------------------ MODULE Confirmation ------------------------------
(***************************************************************************)
(* The confirmation system driven by its environment: some part of Luna    *)
(* asks for a confirmation, the user answers by SMS, the answer reaches    *)
(* the resolver later, more than once or never, and time passes.           *)
(*                                                                         *)
(* An SMS carries no confirmation id.  The model remembers, for the        *)
(* properties only, which question was open when the user wrote it.        *)
(***************************************************************************)
EXTENDS ConfirmationStore

CONSTANTS
    Messages,   \* identities of the replies users send: bounds their number
    MaxTime     \* bound on the clock

ASSUME MaxTimeAssumption == MaxTime \in Nat

Replies == [user_id: Users, word: {"yes", "no"}, about: Ids \cup {None}]

ASSUME NoneIsNoReply == None \notin Replies

VARIABLE inbox      \* replies sent so far: message -> reply, None before

vars == <<store, user_pending, now, inbox>>

TypeOK ==
    /\ StoreTypeOK
    /\ inbox \in [Messages -> Replies \cup {None}]

Init ==
    /\ StoreInit
    /\ now = 0
    /\ inbox = [m \in Messages |-> None]

\* Luna asks: confirmation_store.create(), with its default deadline.
AskUser(u, c) ==
    /\ Create(u, c)
    /\ UNCHANGED <<now, inbox>>

\* The user writes YES or NO, to the question open at that moment if any.
SendReply(m, u, word) ==
    /\ inbox[m] = None
    /\ inbox' = [inbox EXCEPT ![m] = [user_id |-> u, word |-> word,
                                      about |-> user_pending[u]]]
    /\ UNCHANGED <<store, user_pending, now>>

\* The webhook delivers a reply.  It stays in the inbox: carriers deliver late,
\* repeat a webhook whose answer they did not get, or lose it.
DeliverReply(m) ==
    /\ inbox[m] # None
    /\ \E outcome \in Outcomes :
          ResolveInbound(inbox[m].user_id, inbox[m].word, outcome)
    /\ UNCHANGED <<now, inbox>>

Tick ==
    /\ now < MaxTime
    /\ now' = now + 1
    /\ UNCHANGED <<store, user_pending, inbox>>

Next ==
    \/ \E u \in Users, c \in Ids : AskUser(u, c)
    \/ \E m \in Messages, u \in Users, w \in {"yes", "no"} : SendReply(m, u, w)
    \/ \E m \in Messages : DeliverReply(m)
    \/ Tick

Spec == Init /\ [][Next]_vars

--------------------------------------------------------------------------------
(* Safety                                                                  *)

\* The status of c changes in this step, to one of those given.
Becomes(c, statuses) ==
    /\ store[c] # None
    /\ store'[c].status # store[c].status
    /\ store'[c].status \in statuses

(* A YES that arrives after the deadline never confirms, however late the  *)
(* carrier delivers it (resolver.py:67-74).                                *)
NoLateConfirmation ==
    [][\A c \in Ids : Becomes(c, {"confirmed"}) => now <= store[c].expires_at]_vars

(* A decision is final and is taken only on the user's open question: a    *)
(* repeated webhook cannot change a verdict, and a confirmation that a     *)
(* second create() displaced can never be confirmed, rejected or expired   *)
(* (store.py:56-57, resolver.py:56).                                       *)
DecidedOnceWhileOpen ==
    [][\A c \in Ids : Becomes(c, Statuses) =>
          /\ store[c].status = "pending"
          /\ user_pending[store[c].user_id] = c]_vars

(* The store and its index implement the abstract gate: a confirmation is  *)
(* open while the index holds it, and superseded when it is pending and    *)
(* the index does not.                                                     *)
QuestionState(c) ==
    IF store[c] = None THEN "unasked"
    ELSE IF store[c].status # "pending" THEN store[c].status
    ELSE IF user_pending[store[c].user_id] = c THEN "open" ELSE "superseded"

Gate == INSTANCE ConfirmationGate WITH
            Questions <- Ids,
            open      <- user_pending,
            state     <- [c \in Ids |-> QuestionState(c)]

GateSpec == Gate!Spec

--------------------------------------------------------------------------------
(* What the documentation says and the code does not do                    *)

(* confirmation/__init__.py:23-24, "A user replying YES must resolve a     *)
(* specific pending Confirmation by ID, not a vague previous message".  A  *)
(* YES written when one question was open confirms the one that has taken  *)
(* its place by the time it arrives.  (A YES written when none was open is *)
(* not held against the code: it answers no question in particular.)       *)
ConfirmedWasAsked ==
    \A c \in Ids :
        store[c] # None /\ store[c].status = "confirmed" =>
            \E m \in Messages : /\ inbox[m] # None
                                /\ inbox[m].user_id = store[c].user_id
                                /\ inbox[m].word = "yes"
                                /\ inbox[m].about \in {c, None}
================================================================================
