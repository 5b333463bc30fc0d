------------------------- MODULE ConfirmationStoreProofs -------------------------
(***************************************************************************)
(* What the store's operations and the resolver keep true, whichever       *)
(* module calls them: the type of the store, and IndexSound.               *)
(***************************************************************************)
EXTENDS ConfirmationStore, TLAPS

\* The operations change the store as the index says, whoever calls them.
LEMMA CreateSound ==
    ASSUME StoreTypeOK, IndexSound, NEW u \in Users, NEW c \in Ids,
           Create(u, c), now' \in Nat
    PROVE  StoreTypeOK' /\ IndexSound'
<1> USE TTLAssumption, NoneAssumption
<1> DEFINE new == [user_id |-> u, expires_at |-> now + TTL, status |-> "pending"]
<1>1. new \in PendingConfirmations
  BY DEF StoreTypeOK, PendingConfirmations, Statuses
<1>2. StoreTypeOK'
  BY <1>1 DEF StoreTypeOK, Create
<1>3. IndexSound'
  <2> SUFFICES ASSUME NEW v \in Users, user_pending'[v] # None
               PROVE  /\ store'[user_pending'[v]] # None
                      /\ store'[user_pending'[v]].user_id = v
                      /\ store'[user_pending'[v]].status = "pending"
    BY DEF IndexSound
  <2>1. CASE v = u
    BY <2>1, <1>1 DEF Create, StoreTypeOK
  <2>2. CASE v # u
    <3>1. user_pending'[v] = user_pending[v] /\ user_pending[v] \in Ids
      BY <2>2, <1>2 DEF Create, StoreTypeOK
    <3>2. store[user_pending[v]] # None
      BY <3>1 DEF IndexSound
    <3>3. store'[user_pending[v]] = store[user_pending[v]]
      BY <3>1, <3>2 DEF Create, StoreTypeOK
    <3> QED BY <3>1, <3>3 DEF IndexSound
  <2> QED BY <2>1, <2>2
<1> QED BY <1>2, <1>3

\* Resolving the confirmation a user's index holds leaves the index sound.
LEMMA ResolveSound ==
    ASSUME StoreTypeOK, IndexSound, NEW c \in Ids, NEW status \in Statuses,
           Resolve(c, status), now' \in Nat,
           NEW u \in Users, user_pending[u] = c
    PROVE  StoreTypeOK' /\ IndexSound'
<1> USE NoneAssumption
<1>1. /\ store[c] \in PendingConfirmations /\ store[c].user_id = u
      /\ store[c].status = "pending"
  BY DEF StoreTypeOK, IndexSound
<1>2. store' = [store EXCEPT ![c] = [store[c] EXCEPT !.status = status]]
  BY DEF Resolve
<1>3. [store[c] EXCEPT !.status = status] \in PendingConfirmations
  BY <1>1 DEF PendingConfirmations
<1>4. StoreTypeOK'
  BY <1>1, <1>2, <1>3 DEF StoreTypeOK, Resolve
<1>5. IndexSound'
  <2> SUFFICES ASSUME NEW v \in Users, user_pending'[v] # None
               PROVE  /\ store'[user_pending'[v]] # None
                      /\ store'[user_pending'[v]].user_id = v
                      /\ store'[user_pending'[v]].status = "pending"
    BY DEF IndexSound
  <2>1. v # u /\ user_pending'[v] = user_pending[v] /\ user_pending[v] \in Ids
    BY <1>1, <1>4 DEF Resolve, StoreTypeOK
  <2>2. user_pending[v] # c
    BY <1>1, <2>1 DEF IndexSound
  <2>3. store'[user_pending[v]] = store[user_pending[v]]
    BY <1>2, <2>1, <2>2 DEF StoreTypeOK
  <2> QED BY <2>1, <2>3 DEF IndexSound
<1> QED BY <1>4, <1>5

\* The resolver either leaves the store alone or resolves the open question.
LEMMA ResolverActs ==
    ASSUME StoreTypeOK, NEW u \in Users, NEW word, NEW outcome \in Outcomes,
           ResolveInbound(u, word, outcome)
    PROVE  \/ UNCHANGED storeVars
           \/ /\ user_pending[u] \in Ids
              /\ outcome \in {"confirmed", "rejected", "expired"}
              /\ outcome = "confirmed" => ~Expired(user_pending[u])
              /\ Resolve(user_pending[u], outcome)
BY NoneAssumption DEF ResolveInbound, GetPending, StoreTypeOK
================================================================================
