--------------------------- MODULE ConfirmationProofs ---------------------------
(***************************************************************************)
(* Proofs about Confirmation, for any users, confirmation ids, replies and *)
(* deadline.  Everything rests on two facts that are inductive together:   *)
(* TypeOK and IndexSound.                                                  *)
(***************************************************************************)
EXTENDS Confirmation, ConfirmationStoreProofs

Inv == TypeOK /\ IndexSound

LEMMA InitInv == Init => Inv
BY NoneAssumption DEF Init, Inv, TypeOK, StoreTypeOK, StoreInit, IndexSound

LEMMA NextInv == Inv /\ [Next]_vars => Inv'
<1> SUFFICES ASSUME Inv, [Next]_vars PROVE Inv'
  OBVIOUS
<1> USE DEF Inv, TypeOK
<1>1. ASSUME NEW u \in Users, NEW c \in Ids, AskUser(u, c) PROVE Inv'
  BY <1>1, CreateSound DEF AskUser, StoreTypeOK
<1>2. ASSUME NEW m \in Messages, NEW u \in Users, NEW w \in {"yes", "no"},
             SendReply(m, u, w)
      PROVE  Inv'
  <2>1. [user_id |-> u, word |-> w, about |-> user_pending[u]] \in Replies
    BY DEF Replies, StoreTypeOK
  <2> QED BY <1>2, <2>1 DEF SendReply, StoreTypeOK, IndexSound
<1>3. ASSUME NEW m \in Messages, DeliverReply(m) PROVE Inv'
  <2>1. inbox[m].user_id \in Users
    BY <1>3, NoneIsNoReply DEF DeliverReply, Replies
  <2>2. PICK outcome \in Outcomes :
            ResolveInbound(inbox[m].user_id, inbox[m].word, outcome)
    BY <1>3 DEF DeliverReply
  <2>3. now' = now /\ now \in Nat /\ inbox' = inbox
    BY <1>3 DEF DeliverReply, StoreTypeOK
  <2>4. CASE UNCHANGED storeVars
    BY <2>3, <2>4 DEF storeVars, StoreTypeOK, IndexSound
  <2>5. CASE /\ user_pending[inbox[m].user_id] \in Ids
             /\ outcome \in {"confirmed", "rejected", "expired"}
             /\ Resolve(user_pending[inbox[m].user_id], outcome)
    BY <2>1, <2>3, <2>5, ResolveSound DEF Statuses
  <2> QED BY <2>1, <2>2, <2>4, <2>5, ResolverActs
<1>4. CASE Tick
  BY <1>4 DEF Tick, StoreTypeOK, IndexSound
<1>5. CASE UNCHANGED vars
  BY <1>5 DEF vars, StoreTypeOK, IndexSound
<1> QED BY <1>1, <1>2, <1>3, <1>4, <1>5 DEF Next

(* The state of the store and of the replies in flight always has its      *)
(* type.                                                                   *)
THEOREM TypeCorrect == Spec => []TypeOK
<1>1. Inv => TypeOK
  BY DEF Inv
<1> QED BY <1>1, InitInv, NextInv, PTL DEF Spec

(* What get_pending returns is always the user's own undecided             *)
(* confirmation.                                                           *)
THEOREM IndexAlwaysSound == Spec => []IndexSound
<1>1. Inv => IndexSound
  BY DEF Inv
<1> QED BY <1>1, InitInv, NextInv, PTL DEF Spec
--------------------------------------------------------------------------------
\* The status of a confirmation changes only when the resolver settles the
\* question its user has open, and to what the resolver answered.
LEMMA StatusStep ==
    ASSUME Inv, [Next]_vars, NEW c \in Ids, Becomes(c, Statuses)
    PROVE  /\ store[c].status = "pending"
           /\ user_pending[store[c].user_id] = c
           /\ store'[c].status = "confirmed" => now <= store[c].expires_at
<1> USE NoneAssumption DEF Inv, TypeOK
<1>0. store[c] \in PendingConfirmations /\ store[c] # None
  BY DEF Becomes, StoreTypeOK
<1>1. ASSUME NEW u \in Users, NEW d \in Ids, AskUser(u, d) PROVE FALSE
  <2>1. store'[c] = store[c]
    BY <1>0, <1>1 DEF AskUser, Create, StoreTypeOK
  <2> QED BY <2>1 DEF Becomes
<1>2. ASSUME NEW m \in Messages, DeliverReply(m)
      PROVE  /\ store[c].status = "pending"
             /\ user_pending[store[c].user_id] = c
             /\ store'[c].status = "confirmed" => now <= store[c].expires_at
  <2>1. inbox[m].user_id \in Users
    BY <1>2, NoneIsNoReply DEF DeliverReply, Replies
  <2> DEFINE u == inbox[m].user_id
             d == user_pending[u]
  <2>2. PICK outcome \in Outcomes : ResolveInbound(u, inbox[m].word, outcome)
    BY <1>2 DEF DeliverReply
  <2>3. /\ d \in Ids
        /\ outcome = "confirmed" => ~Expired(d)
        /\ Resolve(d, outcome)
    <3>1. ~ UNCHANGED storeVars
      BY DEF Becomes, storeVars
    <3> QED BY <2>1, <2>2, <3>1, ResolverActs
  <2>4. c = d
    <3>1. c # d => store'[c] = store[c]
      BY <2>3, <1>0 DEF Resolve, StoreTypeOK
    <3> QED BY <3>1 DEF Becomes
  <2>5. store[c].user_id = u /\ store[c].status = "pending"
    BY <2>1, <2>3, <2>4 DEF IndexSound
  <2>6. store'[c].status = outcome
    BY <1>0, <2>3, <2>4 DEF Resolve, StoreTypeOK, PendingConfirmations
  <2>7. now \in Nat /\ store[c].expires_at \in Nat
    BY <1>0 DEF StoreTypeOK, PendingConfirmations
  <2> QED BY <2>3, <2>4, <2>5, <2>6, <2>7 DEF Expired
<1>3. CASE UNCHANGED store
  BY <1>3 DEF Becomes
<1>4. [Next]_vars => \/ \E u \in Users, d \in Ids : AskUser(u, d)
                     \/ \E m \in Messages : DeliverReply(m)
                     \/ UNCHANGED store
  BY DEF Next, SendReply, Tick, vars
<1> QED BY <1>1, <1>2, <1>3, <1>4

(* No YES confirms after the deadline, whenever it is delivered.           *)
THEOREM NeverConfirmedLate == Spec => NoLateConfirmation
<1>1. Inv /\ [Next]_vars =>
        [\A c \in Ids : Becomes(c, {"confirmed"}) => now <= store[c].expires_at]_vars
  <2> SUFFICES ASSUME Inv, [Next]_vars, NEW c \in Ids, Becomes(c, {"confirmed"})
               PROVE  now <= store[c].expires_at
    OBVIOUS
  <2>1. Becomes(c, Statuses) /\ store'[c].status = "confirmed"
    BY DEF Becomes, Statuses
  <2> QED BY <2>1, StatusStep
<1> QED BY <1>1, InitInv, NextInv, PTL DEF Spec, NoLateConfirmation

(* A verdict is final, and only the user's open question gets one.         *)
THEOREM DecisionsAreFinal == Spec => DecidedOnceWhileOpen
<1>1. Inv /\ [Next]_vars =>
        [\A c \in Ids : Becomes(c, Statuses) =>
            /\ store[c].status = "pending"
            /\ user_pending[store[c].user_id] = c]_vars
  <2> SUFFICES ASSUME Inv, [Next]_vars, NEW c \in Ids, Becomes(c, Statuses)
               PROVE  /\ store[c].status = "pending"
                      /\ user_pending[store[c].user_id] = c
    OBVIOUS
  <2> QED BY StatusStep
<1> QED BY <1>1, InitInv, NextInv, PTL DEF Spec, DecidedOnceWhileOpen

--------------------------------------------------------------------------------
\* Creating a confirmation asks a question of the abstract gate.
LEMMA CreateAsks ==
    ASSUME Inv, NEW u \in Users, NEW c \in Ids, Create(u, c)
    PROVE  Gate!Ask(u, c)
<1> USE NoneAssumption DEF Inv, TypeOK
<1>1. QuestionState(c) = "unasked"
  BY DEF Create, QuestionState
<1>2. user_pending' = [user_pending EXCEPT ![u] = c]
  BY DEF Create
<1>3. ASSUME NEW d \in Ids
      PROVE  QuestionState(d)' =
                IF d = c THEN "open"
                ELSE IF d = user_pending[u] THEN "superseded" ELSE QuestionState(d)
  <2>1. CASE d = c
    <3>1. store'[c] = [user_id |-> u, expires_at |-> now + TTL, status |-> "pending"]
      BY DEF Create, StoreTypeOK
    <3>2. store'[c] # None
      BY <3>1, TTLAssumption DEF StoreTypeOK, PendingConfirmations, Statuses
    <3>3. user_pending'[u] = c
      BY <1>2 DEF StoreTypeOK
    <3> QED BY <2>1, <3>1, <3>2, <3>3 DEF QuestionState
  <2>2. CASE d # c /\ d = user_pending[u]
    <3>1. store'[d] = store[d] /\ store[d] # None /\ store[d].user_id = u
          /\ store[d].status = "pending"
      BY <2>2 DEF Create, StoreTypeOK, IndexSound
    <3>2. user_pending'[u] # d
      BY <1>2, <2>2 DEF StoreTypeOK
    <3> QED BY <2>2, <3>1, <3>2 DEF QuestionState
  <2>3. CASE d # c /\ d # user_pending[u]
    <3>1. store'[d] = store[d]
      BY <2>3 DEF Create, StoreTypeOK
    <3>2. CASE store[d] = None
      BY <2>3, <3>1, <3>2 DEF QuestionState
    <3>3. CASE store[d] # None
      <4>1. store[d].user_id \in Users
        BY <3>3 DEF StoreTypeOK, PendingConfirmations
      <4>2. (user_pending'[store[d].user_id] = d) <=> (user_pending[store[d].user_id] = d)
        BY <1>2, <2>3, <4>1 DEF StoreTypeOK
      <4> QED BY <2>3, <3>1, <4>2 DEF QuestionState
    <3> QED BY <3>2, <3>3
  <2> QED BY <2>1, <2>2, <2>3
<1>4. [d \in Ids |-> QuestionState(d)]' =
        [d \in Ids |-> IF d = c THEN "open"
                       ELSE IF d = user_pending[u] THEN "superseded"
                       ELSE [e \in Ids |-> QuestionState(e)][d]]
  BY <1>3
<1> QED BY <1>1, <1>2, <1>4 DEF Gate!Ask

\* Resolving the open question decides it.
LEMMA ResolveDecides ==
    ASSUME Inv, NEW u \in Users, NEW status \in {"confirmed", "rejected", "expired"},
           user_pending[u] \in Ids, Resolve(user_pending[u], status)
    PROVE  Gate!Decide(u, status)
<1> USE NoneAssumption DEF Inv, TypeOK
<1> DEFINE c == user_pending[u]
<1>1. c # None /\ store[c] # None /\ store[c].user_id = u /\ store[c].status = "pending"
      /\ store[c] \in PendingConfirmations
  BY DEF StoreTypeOK, IndexSound
<1>2. user_pending' = [user_pending EXCEPT ![u] = None]
  BY <1>1 DEF Resolve
<1>3. ASSUME NEW d \in Ids
      PROVE  QuestionState(d)' = IF d = c THEN status ELSE QuestionState(d)
  <2>1. CASE d = c
    <3>1. store'[c].status = status
      BY <1>1 DEF Resolve, StoreTypeOK, PendingConfirmations
    <3>2. store'[c] # None
      <4>1. store'[c] = [store[c] EXCEPT !.status = status]
        BY DEF Resolve, StoreTypeOK
      <4>2. [store[c] EXCEPT !.status = status] \in PendingConfirmations
        BY <1>1 DEF PendingConfirmations, Statuses
      <4> QED BY <4>1, <4>2
    <3> QED BY <2>1, <3>1, <3>2 DEF QuestionState
  <2>2. CASE d # c
    <3>1. store'[d] = store[d]
      BY <2>2 DEF Resolve, StoreTypeOK
    <3>2. CASE store[d] = None
      BY <2>2, <3>1, <3>2 DEF QuestionState
    <3>3. CASE store[d] # None
      <4>1. store[d].user_id \in Users
        BY <3>3 DEF StoreTypeOK, PendingConfirmations
      <4>2. (user_pending'[store[d].user_id] = d) <=> (user_pending[store[d].user_id] = d)
        BY <1>2, <2>2, <4>1 DEF StoreTypeOK
      <4> QED BY <2>2, <3>1, <4>2 DEF QuestionState
    <3> QED BY <3>2, <3>3
  <2> QED BY <2>1, <2>2
<1>4. [d \in Ids |-> QuestionState(d)]' =
        [[d \in Ids |-> QuestionState(d)] EXCEPT ![user_pending[u]] = status]
  BY <1>3
<1> QED BY <1>1, <1>2, <1>4 DEF Gate!Decide

\* A step that leaves the store and the index alone is a stutter of the gate.
LEMMA StoreStutters ==
    ASSUME UNCHANGED <<store, user_pending>>
    PROVE  UNCHANGED Gate!vars
<1>1. ASSUME NEW d \in Ids PROVE QuestionState(d)' = QuestionState(d)
  BY DEF QuestionState
<1> QED BY <1>1 DEF Gate!vars

(* The store with its index implements the abstract gate: one open         *)
(* question per user, superseded by the next, decided at most once.        *)
THEOREM StoreImplementsGate == Spec => GateSpec
<1> USE NoneAssumption
<1>1. Init => Gate!Init
  BY DEF Init, StoreInit, Gate!Init, QuestionState
<1>2. Inv /\ [Next]_vars => [Gate!Next]_(Gate!vars)
  <2> SUFFICES ASSUME Inv, [Next]_vars PROVE [Gate!Next]_(Gate!vars)
    OBVIOUS
  <2>1. ASSUME NEW u \in Users, NEW c \in Ids, AskUser(u, c) PROVE Gate!Next
    <3>1. Gate!Ask(u, c)
      BY <2>1, CreateAsks DEF AskUser
    <3> QED BY <3>1 DEF Gate!Next
  <2>2. ASSUME NEW m \in Messages, DeliverReply(m)
        PROVE  Gate!Next \/ UNCHANGED <<store, user_pending>>
    <3>1. inbox[m].user_id \in Users
      BY <2>2, NoneIsNoReply DEF DeliverReply, Replies, Inv, TypeOK
    <3> DEFINE u == inbox[m].user_id
    <3>2. PICK outcome \in Outcomes : ResolveInbound(u, inbox[m].word, outcome)
      BY <2>2 DEF DeliverReply
    <3>3. CASE UNCHANGED storeVars
      BY <3>3 DEF storeVars
    <3>4. CASE /\ user_pending[u] \in Ids
               /\ outcome \in {"confirmed", "rejected", "expired"}
               /\ Resolve(user_pending[u], outcome)
      <4>1. Gate!Decide(u, outcome)
        BY <3>1, <3>4, ResolveDecides
      <4> QED BY <3>1, <3>4, <4>1 DEF Gate!Next, Gate!Verdicts
    <3> QED BY <3>1, <3>2, <3>3, <3>4, ResolverActs DEF Inv, TypeOK
  <2>3. [Next]_vars => \/ \E u \in Users, c \in Ids : AskUser(u, c)
                       \/ \E m \in Messages : DeliverReply(m)
                       \/ UNCHANGED <<store, user_pending>>
    BY DEF Next, SendReply, Tick, vars
  <2> QED BY <2>1, <2>2, <2>3, StoreStutters
<1> QED BY <1>1, <1>2, InitInv, NextInv, PTL DEF Spec, GateSpec, Gate!Spec
================================================================================
