--------------------------- MODULE ConfirmationStore ---------------------------
(***************************************************************************)
(* The pending-confirmation store (luna/confirmation/store.py) and the     *)
(* YES/NO resolver on top of it (luna/confirmation/resolver.py).           *)
(*                                                                         *)
(* This module holds the state and the operations, one operator each.  It  *)
(* has no Next of its own: Confirmation runs it against users' replies,    *)
(* Proactive and Runtime run it under their own schedules.                 *)
(*                                                                         *)
(* Every operation is synchronous Python on one event loop, so each is one *)
(* atomic step.  What a confirmation is about (task, action, summary,      *)
(* payload) is not kept: only the id, the user, the deadline and the       *)
(* status decide anything.                                                 *)
(***************************************************************************)
EXTENDS Integers

CONSTANTS
    Users,      \* user ids: phone numbers
    Ids,        \* confirmation ids (uuid4): a fresh one per create()
    None,       \* Python's None
    TTL         \* _DEFAULT_TTL_MINUTES, in clock ticks

Statuses == {"pending", "confirmed", "rejected", "expired"}

\* PendingConfirmation, without the fields nothing branches on.
PendingConfirmations == [user_id: Users, expires_at: Nat, status: Statuses]

ASSUME TTLAssumption  == TTL \in Nat
ASSUME NoneAssumption == None \notin Users \cup Ids \cup PendingConfirmations

VARIABLES
    store,          \* _store: id -> PendingConfirmation, None where absent
    user_pending,   \* _user_pending: user -> id, None where absent
    now             \* datetime.now(timezone.utc)

storeVars == <<store, user_pending>>

StoreTypeOK ==
    /\ store \in [Ids -> PendingConfirmations \cup {None}]
    /\ user_pending \in [Users -> Ids \cup {None}]
    /\ now \in Nat

StoreInit ==
    /\ store = [c \in Ids |-> None]
    /\ user_pending = [u \in Users |-> None]

--------------------------------------------------------------------------------
(* Slips the properties are tried against: each is a form one of the       *)
(* operations below could have by mistake, and is used nowhere else.       *)

\* The sign of the deadline is wrong.
CreateInThePast(u, c) ==
    /\ store[c] = None
    /\ store' = [store EXCEPT ![c] = [user_id    |-> u,
                                      expires_at |-> now - TTL - 1,
                                      status     |-> "pending"]]
    /\ user_pending' = [user_pending EXCEPT ![u] = c]

\* setdefault() on the index: the first question keeps the user's slot.
CreateKeepsSlot(u, c) ==
    /\ store[c] = None
    /\ store' = [store EXCEPT ![c] = [user_id    |-> u,
                                      expires_at |-> now + TTL,
                                      status     |-> "pending"]]
    /\ user_pending' = [user_pending EXCEPT ![u] = IF @ = None THEN c ELSE @]

\* No index: search _store for something of the user's still pending.
GetPendingByScan(u) ==
    LET mine == {c \in Ids : /\ store[c] # None
                             /\ store[c].user_id = u
                             /\ store[c].status = "pending"}
    IN  IF mine = {} THEN None ELSE CHOOSE c \in mine : TRUE

\* The pop from the index is forgotten.
ResolveKeepsIndex(c, status) ==
    /\ store[c] # None
    /\ store' = [store EXCEPT ![c].status = status]
    /\ UNCHANGED user_pending

\* A grace period nobody asked for.
ExpiredLate(c) == now > store[c].expires_at + TTL

--------------------------------------------------------------------------------
(* store.py                                                                *)

\* create(): the new confirmation takes the user's slot in the index; the one
\* it displaces is left in _store as it is.
Create(u, c) ==
    /\ store[c] = None
    /\ store' = [store EXCEPT ![c] = [user_id    |-> u,
                                      expires_at |-> now + TTL,
                                      status     |-> "pending"]]
    /\ user_pending' = [user_pending EXCEPT ![u] = c]

\* get_pending(): the id behind the index, with no look at the deadline.
GetPending(u) == user_pending[u]

\* resolve(): set the status, then drop whatever the index holds for that user.
Resolve(c, status) ==
    /\ store[c] # None
    /\ store' = [store EXCEPT ![c].status = status]
    /\ user_pending' = [user_pending EXCEPT ![store[c].user_id] = None]

--------------------------------------------------------------------------------
(* resolver.py                                                             *)

Expired(c) == now > store[c].expires_at

\* What the resolver did with a message.  "not_handled" is its None: the
\* runtime goes on to the planner.
Outcomes == {"not_handled", "no_pending", "confirmed", "rejected", "expired"}

\* resolve_inbound(): word is "yes", "no" or any other body.
ResolveInbound(u, word, outcome) ==
    LET c == GetPending(u) IN
    \/ /\ word \notin {"yes", "no"} \/ (word = "no" /\ c = None)
       /\ outcome = "not_handled"
       /\ UNCHANGED storeVars
    \/ /\ word = "yes" /\ c = None
       /\ outcome = "no_pending"
       /\ UNCHANGED storeVars
    \/ /\ word \in {"yes", "no"} /\ c # None /\ Expired(c)
       /\ outcome = "expired"
       /\ Resolve(c, outcome)
    \/ /\ word \in {"yes", "no"} /\ c # None /\ ~Expired(c)
       /\ outcome = IF word = "yes" THEN "confirmed" ELSE "rejected"
       /\ Resolve(c, outcome)

--------------------------------------------------------------------------------
(* The index never lies: what it holds for a user is that user's own       *)
(* confirmation, and it is still undecided (store.py:56-57 and 80-81 keep  *)
(* the two dictionaries in step).  get_pending, and with it every YES, NO  *)
(* and proactive deferral, relies on it.                                   *)
IndexSound ==
    \A u \in Users :
        LET c == user_pending[u] IN
        c # None => /\ store[c] # None
                    /\ store[c].user_id = u
                    /\ store[c].status = "pending"

================================================================================
