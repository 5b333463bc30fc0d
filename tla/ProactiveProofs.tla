----------------------------- MODULE ProactiveProofs -----------------------------
(***************************************************************************)
(* Proofs about Proactive, for any users, windows, cap and clock.          *)
(***************************************************************************)
EXTENDS Proactive, ConfirmationStoreProofs

(* What makes DailyCapHolds inductive: a request past the cap check has a  *)
(* send left on whatever day it is by now, for nothing is dated ahead of   *)
(* the clock.                                                              *)
NothingDatedAhead == \A u \in Users, d \in Days : d > Day(now) => sent[u][d] = 0

SendLeft ==
    request # None /\ request.pc \in {"gate", "log"} =>
        sent[request.candidate.user_id][Day(now)] < DailyCap

LogInv ==
    /\ \A u \in Users, d \in Days : sent[u][d] <= DailyCap
    /\ NothingDatedAhead
    /\ SendLeft

(* What makes it a bound on what users receive: a log that outlives the    *)
(* process has an entry for every message handed out, and one more for a   *)
(* message whose response has not left.                                    *)
HandedOutIsLogged ==
    Durable =>
        /\ \A u \in Users, d \in Days : received[u][d] <= sent[u][d]
        /\ request # None /\ request.pc = "respond"
              /\ request.decision.reason = "all_checks_passed" =>
            LET u == request.candidate.user_id
                d == Day(request.decision.at)
            IN  d \in Days => received[u][d] < sent[u][d]

Inv == TypeOK /\ IndexSound /\ LogInv /\ HandedOutIsLogged

--------------------------------------------------------------------------------
\* Dates: a natural number, and never earlier for a later moment.
LEMMA DayType == ASSUME NEW t \in Nat PROVE Day(t) \in Nat
<1>1. TicksPerDay \in Nat /\ TicksPerDay > 0
  BY ClockAssumption DEF TicksPerDay
<1> QED BY <1>1 DEF Day

LEMMA DayMonotone ==
    ASSUME NEW s \in Nat, NEW t \in Nat, s <= t
    PROVE  Day(s) <= Day(t)
<1> DEFINE D == TicksPerDay
<1>1. D \in Nat /\ D > 0
  BY ClockAssumption DEF TicksPerDay
<1> HIDE DEF D
<1>2. /\ Day(s) = s \div D /\ Day(t) = t \div D
  BY DEF Day, D
<1>3. (s \div D) <= (t \div D)
  BY <1>1
<1> QED BY <1>2, <1>3

\* A deferral is to a natural number too.
LEMMA OpeningType ==
    ASSUME now \in Nat, NEW w \in Windows
    PROVE  NextOpening(w) \in Nat
<1>1. TicksPerDay \in Nat /\ TicksPerHour \in Nat /\ w[1] \in Nat
  BY ClockAssumption, WindowsAssumption DEF TicksPerDay
<1>2. Day(now) \in Nat
  BY DayType
<1>3. \A d \in Nat : AtHour(d, w[1]) \in Nat
  BY <1>1 DEF AtHour
<1> QED BY <1>2, <1>3 DEF NextOpening

\* What a step makes of the request: a decision, a step further on, or none.
LEMMA RequestTypes ==
    ASSUME NEW candidate \in Candidates, now \in Nat
    PROVE  /\ \A reason \in Reasons, retry_at \in Nat \cup {None} :
                 Decide(candidate, reason, retry_at) =>
                    /\ request' \in Requests /\ request'.pc = "respond"
                    /\ request'.candidate = candidate
                    /\ request'.decision.reason = reason
                    /\ request'.decision.at = now
           /\ \A label \in {"gate", "log"} :
                 GoTo(candidate, label) =>
                    /\ request' \in Requests
                    /\ request'.pc = label /\ request'.candidate = candidate
BY DEF Decide, GoTo, Requests, Decisions

\* One more message counted: only what is within the bounds of the log counts.
LEMMA CountOne ==
    ASSUME NEW S, NEW f \in [S -> Nat], NEW d
    PROVE  /\ [f EXCEPT ![d] = @ + 1] \in [S -> Nat]
           /\ \A e \in S : [f EXCEPT ![d] = @ + 1][e] = IF e = d THEN f[e] + 1 ELSE f[e]
<1>1. CASE d \in S
  BY <1>1
<1>2. CASE d \notin S
  <2>1. [f EXCEPT ![d] = @ + 1] = f
    BY <1>2
  <2> QED BY <1>2, <2>1
<1> QED BY <1>1, <1>2

LEMMA InitInv == Init => Inv
<1> SUFFICES ASSUME Init PROVE Inv
  OBVIOUS
<1> USE NoneAssumption, NoneIsNoRequest, ClockAssumption DEF Init
<1>1. TypeOK /\ IndexSound
  BY DEF TypeOK, StoreTypeOK, StoreInit, IndexSound, NothingSent
<1>2. LogInv /\ HandedOutIsLogged
  BY CapAssumption DEF LogInv, NothingDatedAhead, SendLeft, HandedOutIsLogged,
     NothingSent
<1> QED BY <1>1, <1>2 DEF Inv

LEMMA NextInv == Inv /\ [Next]_vars => Inv'
<1> SUFFICES ASSUME Inv, [Next]_vars PROVE Inv'
  OBVIOUS
<1> USE NoneIsNoRequest
<1>0. now \in Nat /\ now <= MaxTime /\ Day(now) \in Days
  <2>1. now \in Nat /\ now <= MaxTime
    BY DEF Inv, TypeOK, StoreTypeOK
  <2> QED BY <2>1, ClockAssumption, DayType, DayMonotone DEF Days
<1>1. ASSUME NEW candidate \in Candidates, Evaluate(candidate) PROVE Inv'
  <2>1. /\ request' \in Requests
        /\ \/ request'.pc = "respond" /\ request'.decision.reason # "all_checks_passed"
           \/ GoTo(candidate, "gate") /\ ~CapReached(candidate.user_id)
    BY <1>0, <1>1, RequestTypes DEF Evaluate, Reasons
  <2>2. UNCHANGED <<store, user_pending, now, sent, received>>
    BY <1>1 DEF Evaluate
  <2>3. TypeOK' /\ IndexSound'
    BY <2>1, <2>2 DEF Inv, TypeOK, StoreTypeOK, IndexSound
  <2>4. CASE GoTo(candidate, "gate") /\ ~CapReached(candidate.user_id)
    <3>1. SendLeft'
      <4>1. candidate.user_id \in Users
        BY DEF Candidates
      <4>2. sent[candidate.user_id][Day(now)] \in Nat
        BY <1>0, <4>1 DEF Inv, TypeOK
      <4> QED BY <2>2, <2>4, <4>2, CapAssumption
              DEF GoTo, CapReached, SendLeft, Day
    <3>2. HandedOutIsLogged'
      BY <2>2, <2>4 DEF GoTo, Inv, HandedOutIsLogged
    <3> QED BY <2>2, <2>3, <3>1, <3>2 DEF Inv, LogInv, NothingDatedAhead, Day
  <2>5. CASE request'.pc = "respond" /\ request'.decision.reason # "all_checks_passed"
    BY <2>2, <2>3, <2>5 DEF Inv, LogInv, NothingDatedAhead, SendLeft,
       HandedOutIsLogged, Day
  <2> QED BY <2>1, <2>4, <2>5
<1>2. CASE CheckPendingAndWindow
  <2> DEFINE candidate == request.candidate
             pending   == GetPending(candidate.user_id)
  <2>1. /\ candidate \in Candidates /\ candidate.user_id \in Users
        /\ candidate.window \in Windows /\ request # None /\ request.pc = "gate"
    BY <1>2 DEF CheckPendingAndWindow, Inv, TypeOK, Requests, Candidates
  <2>2. UNCHANGED <<store, user_pending, now, sent, received>>
    BY <1>2 DEF CheckPendingAndWindow
  <2>3. pending # None => store[pending].expires_at \in Nat
    <3> SUFFICES ASSUME pending # None PROVE store[pending].expires_at \in Nat
      OBVIOUS
    <3>1. pending \in Ids /\ store[pending] # None
      BY <2>1 DEF Inv, TypeOK, StoreTypeOK, GetPending, IndexSound
    <3>2. store[pending] \in PendingConfirmations
      BY <3>1 DEF Inv, TypeOK, StoreTypeOK
    <3> QED BY <3>2 DEF PendingConfirmations
  <2>4. NextOpening(candidate.window) \in Nat
    BY <1>0, <2>1, OpeningType
  <2>5. /\ request' \in Requests
        /\ \/ request'.pc = "respond" /\ request'.decision.reason # "all_checks_passed"
           \/ request'.pc = "log" /\ request'.candidate = candidate
    BY <1>0, <1>2, <2>1, <2>3, <2>4, RequestTypes DEF CheckPendingAndWindow, Reasons
  <2>6. TypeOK' /\ IndexSound'
    BY <2>2, <2>5 DEF Inv, TypeOK, StoreTypeOK, IndexSound
  <2>7. SendLeft' /\ HandedOutIsLogged'
    BY <2>1, <2>2, <2>5 DEF Inv, LogInv, SendLeft, HandedOutIsLogged, Day
  <2> QED BY <2>2, <2>6, <2>7 DEF Inv, LogInv, NothingDatedAhead, Day
<1>3. CASE LogSent
  <2> DEFINE u == request.candidate.user_id
  <2>1. /\ request.candidate \in Candidates /\ u \in Users
        /\ request # None /\ request.pc = "log"
    BY <1>3 DEF LogSent, Inv, TypeOK, Requests, Candidates
  <2>2. UNCHANGED <<store, user_pending, now, received>>
        /\ sent' = [sent EXCEPT ![u][Day(now)] = @ + 1]
    BY <1>3 DEF LogSent
  <2>3. /\ request' \in Requests /\ request'.pc = "respond"
        /\ request'.candidate.user_id = u /\ request'.decision.at = now
    BY <1>0, <1>3, <2>1, RequestTypes DEF LogSent, Reasons
  <2>4. sent[u][Day(now)] \in Nat /\ sent[u][Day(now)] < DailyCap
    BY <1>0, <2>1 DEF Inv, TypeOK, LogInv, SendLeft
  <2>5. \A v \in Users, d \in Days :
            sent'[v][d] = IF v = u /\ d = Day(now) THEN sent[u][d] + 1 ELSE sent[v][d]
    BY <1>0, <2>1, <2>2 DEF Inv, TypeOK
  <2>6. TypeOK'
    <3>1. sent' \in [Users -> [Days -> Nat]]
      BY <1>0, <2>1, <2>2, <2>4 DEF Inv, TypeOK
    <3> QED BY <2>2, <2>3, <3>1 DEF Inv, TypeOK, StoreTypeOK
  <2>7. (\A v \in Users, d \in Days : sent[v][d] <= DailyCap)'
    BY <2>4, <2>5, CapAssumption DEF Inv, LogInv
  <2>8. NothingDatedAhead'
    <3>1. Day(now)' = Day(now)
      BY <2>2 DEF Day
    <3>2. Day(now) \in Int
      BY <1>0 DEF Days
    <3> QED BY <2>5, <3>1, <3>2 DEF Inv, LogInv, NothingDatedAhead, Days
  <2>9. HandedOutIsLogged'
    <3> SUFFICES ASSUME Durable
                 PROVE  /\ \A v \in Users, d \in Days : received[v][d] <= sent'[v][d]
                        /\ received[u][Day(now)] < sent'[u][Day(now)]
      BY <1>0, <2>2, <2>3 DEF HandedOutIsLogged, Day
    <3>1. \A v \in Users, d \in Days :
              /\ received[v][d] \in Nat /\ sent[v][d] \in Nat
              /\ received[v][d] <= sent[v][d]
      BY DEF Inv, TypeOK, HandedOutIsLogged
    <3> QED BY <1>0, <2>1, <2>5, <3>1
  <2> QED BY <2>2, <2>3, <2>6, <2>7, <2>8, <2>9 DEF Inv, LogInv, SendLeft, IndexSound
<1>4. CASE Respond
  <2> DEFINE u == request.candidate.user_id
             d == Day(request.decision.at)
             passed == request.decision.reason = "all_checks_passed"
  <2>1. /\ request # None /\ request.pc = "respond" /\ request' = None
        /\ UNCHANGED <<store, user_pending, now, sent>>
        /\ received' = IF passed THEN [received EXCEPT ![u][d] = @ + 1] ELSE received
    BY <1>4 DEF Respond
  <2>2. u \in Users
    BY <2>1 DEF Inv, TypeOK, Requests, Candidates
  <2> HIDE DEF u, d, passed
  <2>3. /\ received' \in [Users -> [Days -> Nat]]
        /\ \A v \in Users, e \in Days :
              received'[v][e] = IF passed /\ v = u /\ e = d
                                THEN received[v][e] + 1 ELSE received[v][e]
    <3>1. received \in [Users -> [Days -> Nat]]
      BY DEF Inv, TypeOK
    <3>2. CASE ~passed
      BY <2>1, <3>1, <3>2
    <3>3. CASE passed
      <4> DEFINE log == [received[u] EXCEPT ![d] = @ + 1]
      <4>1. received[u] \in [Days -> Nat]
        BY <2>2, <3>1
      <4>2. /\ log \in [Days -> Nat]
            /\ \A e \in Days : log[e] = IF e = d THEN received[u][e] + 1
                                        ELSE received[u][e]
        BY <4>1, CountOne
      <4>3. received' = [received EXCEPT ![u] = log]
        BY <2>1, <3>3
      <4> HIDE DEF log
      <4> QED BY <2>2, <3>1, <3>3, <4>2, <4>3
    <3> QED BY <3>2, <3>3
  <2>4. HandedOutIsLogged'
    <3> SUFFICES ASSUME Durable, NEW v \in Users, NEW e \in Days
                 PROVE  received'[v][e] <= sent[v][e]
      BY <2>1 DEF HandedOutIsLogged
    <3>1. received[v][e] \in Nat /\ sent[v][e] \in Nat
      BY DEF Inv, TypeOK
    <3>2. received[v][e] <= sent[v][e]
      BY DEF Inv, HandedOutIsLogged
    <3>3. passed /\ v = u /\ e = d => received[v][e] < sent[v][e]
      BY <2>1 DEF Inv, HandedOutIsLogged, u, d, passed
    <3> QED BY <2>3, <3>1, <3>2, <3>3
  <2> QED BY <2>1, <2>3, <2>4 DEF Inv, TypeOK, StoreTypeOK, IndexSound, LogInv,
             NothingDatedAhead, SendLeft, Day
<1>5. ASSUME NEW u \in Users, NEW c \in Ids, AskUser(u, c) PROVE Inv'
  <2>1. request = None /\ Create(u, c) /\ UNCHANGED <<now, sent, received, request>>
    BY <1>5 DEF AskUser
  <2>2. StoreTypeOK' /\ IndexSound'
    BY <1>0, <2>1, CreateSound DEF Inv, TypeOK
  <2> QED BY <2>1, <2>2 DEF Inv, TypeOK, LogInv, NothingDatedAhead,
             SendLeft, HandedOutIsLogged, Day
<1>6. ASSUME NEW u \in Users, NEW word \in {"yes", "no"}, Answer(u, word) PROVE Inv'
  <2>1. request = None /\ UNCHANGED <<now, sent, received, request>>
    BY <1>6 DEF Answer
  <2>2. PICK outcome \in Outcomes : ResolveInbound(u, word, outcome)
    BY <1>6 DEF Answer
  <2>3. CASE UNCHANGED storeVars
    BY <2>1, <2>3 DEF storeVars, Inv, TypeOK, StoreTypeOK, IndexSound, LogInv,
       NothingDatedAhead, SendLeft, HandedOutIsLogged, Day
  <2>4. CASE /\ user_pending[u] \in Ids
             /\ outcome \in {"confirmed", "rejected", "expired"}
             /\ Resolve(user_pending[u], outcome)
    <3>1. StoreTypeOK' /\ IndexSound'
      BY <1>0, <2>1, <2>4, ResolveSound DEF Inv, TypeOK, Statuses
    <3> QED BY <2>1, <3>1 DEF Inv, TypeOK, LogInv, NothingDatedAhead,
               SendLeft, HandedOutIsLogged, Day
  <2> QED BY <2>2, <2>3, <2>4, ResolverActs DEF Inv, TypeOK
<1>7. CASE Tick
  <2>1. now' = now + 1 /\ now' \in Nat /\ now' <= MaxTime
        /\ UNCHANGED <<store, user_pending, sent, received, request>>
    BY <1>0, <1>7, ClockAssumption DEF Tick
  <2>2. /\ TypeOK' /\ IndexSound' /\ HandedOutIsLogged'
        /\ (\A u \in Users, d \in Days : sent[u][d] <= DailyCap)'
    BY <2>1 DEF Inv, TypeOK, StoreTypeOK, IndexSound, HandedOutIsLogged, LogInv, Day
  <2>3. Day(now) <= Day(now') /\ Day(now) \in Nat /\ Day(now') \in Nat
        /\ Day(now)' = Day(now')
    BY <1>0, <2>1, DayMonotone, DayType DEF Day
  <2>4. NothingDatedAhead'
    BY <2>1, <2>3 DEF Inv, LogInv, NothingDatedAhead, Days
  <2>5. SendLeft'
    <3> SUFFICES ASSUME request # None, request.pc \in {"gate", "log"}
                 PROVE  sent[request.candidate.user_id][Day(now')] < DailyCap
      BY <2>1, <2>3 DEF SendLeft
    <3>1. request.candidate.user_id \in Users
      BY DEF Inv, TypeOK, Requests, Candidates
    <3>2. sent[request.candidate.user_id][Day(now)] \in Nat
          /\ sent[request.candidate.user_id][Day(now)] < DailyCap
      BY <1>0, <3>1 DEF Inv, TypeOK, LogInv, SendLeft
    <3>3. CASE Day(now') = Day(now)
      BY <3>2, <3>3
    <3>4. CASE Day(now') > Day(now)
      <4>1. Day(now') \in Days
        BY <2>1, <2>3, ClockAssumption, DayMonotone, DayType DEF Days
      <4>2. sent[request.candidate.user_id][Day(now')] = 0
        BY <3>1, <3>4, <4>1 DEF Inv, LogInv, NothingDatedAhead
      <4> QED BY <3>2, <4>2, CapAssumption
    <3> QED BY <2>3, <3>3, <3>4
  <2> QED BY <2>2, <2>4, <2>5 DEF Inv, LogInv
<1>8. CASE Restart
  <2>1. /\ store' = [c \in Ids |-> None] /\ user_pending' = [u \in Users |-> None]
        /\ sent' = IF Durable THEN sent ELSE NothingSent
        /\ request' = None /\ UNCHANGED <<now, received>>
    BY <1>8 DEF Restart
  <2>2. TypeOK' /\ IndexSound' /\ SendLeft' /\ HandedOutIsLogged'
    BY <2>1, NoneAssumption
    DEF Inv, TypeOK, StoreTypeOK, IndexSound, SendLeft, NothingSent, HandedOutIsLogged
  <2>3. (\A u \in Users, d \in Days : sent[u][d] <= DailyCap)' /\ NothingDatedAhead'
    BY <2>1, CapAssumption DEF Inv, LogInv, NothingDatedAhead, NothingSent, Day
  <2> QED BY <2>2, <2>3 DEF Inv, LogInv
<1>9. CASE UNCHANGED vars
  BY <1>9 DEF vars, Inv, TypeOK, StoreTypeOK, IndexSound, LogInv, NothingDatedAhead,
     SendLeft, HandedOutIsLogged, Day
<1> QED BY <1>1, <1>2, <1>3, <1>4, <1>5, <1>6, <1>7, <1>8, <1>9 DEF Next

(* The clock, the log counts and the request always have their types; in   *)
(* particular no deferral is to a time before the clock's origin.          *)
THEOREM TypeCorrect == Spec => []TypeOK
<1>1. Inv => TypeOK
  BY DEF Inv
<1> QED BY <1>1, InitInv, NextInv, PTL DEF Spec

(* For any cap, clock, windows and users, and wherever restarts fall: with *)
(* SQLite nobody is handed more messages dated one day than the cap, nor   *)
(* does the log ever hold more; with the log in memory this is so of the   *)
(* log, which begins anew at a restart, and not of what users receive.     *)
THEOREM CapNeverExceeded == Spec => []DailyCapHolds
<1>1. Inv => DailyCapHolds
  <2> SUFFICES ASSUME Inv, Durable, NEW u \in Users, NEW d \in Days
               PROVE  received[u][d] <= DailyCap
    BY DEF DailyCapHolds, Inv, LogInv
  <2>1. received[u][d] \in Nat /\ sent[u][d] \in Nat
    BY DEF Inv, TypeOK
  <2>2. received[u][d] <= sent[u][d] /\ sent[u][d] <= DailyCap
    BY DEF Inv, LogInv, HandedOutIsLogged
  <2> QED BY <2>1, <2>2, CapAssumption
<1> QED BY <1>1, InitInv, NextInv, PTL DEF Spec

--------------------------------------------------------------------------------
(* Hours.  The argument: on the day d the hours count from d * D, so an    *)
(* hour of the window is an interval of the remainder t % D (HourBound),   *)
(* and a moment between now and the opening is on today or tomorrow        *)
(* (Remainder).                                                            *)

LEMMA TimesMonotone ==
    ASSUME NEW m \in Int, NEW n \in Int, NEW k \in Nat, m <= n
    PROVE  m * k <= n * k
<1>1. (n - m) * k >= 0
  OBVIOUS
<1>2. (n - m) * k = n * k - m * k
  OBVIOUS
<1>3. m * k \in Int /\ n * k \in Int
  OBVIOUS
<1> QED BY <1>1, <1>2, <1>3

LEMMA DivModEquation ==
    ASSUME NEW n \in Int, NEW k \in Int, k > 0
    PROVE  n = k * (n \div k) + (n % k)
BY SMTT(20)

LEMMA DivMod ==
    ASSUME NEW n \in Nat, NEW k \in Nat \ {0}
    PROVE  /\ n \div k \in Nat /\ n % k \in Nat /\ (n \div k) * k \in Nat
           /\ n = (n \div k) * k + (n % k) /\ n % k < k
<1>1. n \div k \in Nat /\ n % k \in Nat /\ n % k < k
  OBVIOUS
<1>2. n = k * (n \div k) + (n % k)
  BY DivModEquation
<1>3. k * (n \div k) = (n \div k) * k /\ k * (n \div k) \in Nat
  BY <1>1
<1> QED BY <1>1, <1>2, <1>3

\* The remainder of a moment within the day that starts at q * k.
LEMMA Remainder ==
    ASSUME NEW n \in Nat, NEW q \in Nat, NEW k \in Nat \ {0},
           q * k <= n, n < q * k + k
    PROVE  n % k = n - q * k
<1> DEFINE p == n \div k
<1>1. p \in Nat /\ n % k \in Nat /\ n = p * k + (n % k) /\ n % k < k /\ p * k \in Nat
      /\ q * k \in Nat
  BY DivMod
<1> HIDE DEF p
<1>2. CASE p < q
  <2>1. (p + 1) * k <= q * k
    BY <1>1, <1>2, TimesMonotone
  <2>2. (p + 1) * k = p * k + k
    BY <1>1
  <2> QED BY <1>1, <2>1, <2>2
<1>3. CASE p > q
  <2>1. (q + 1) * k <= p * k
    BY <1>1, <1>3, TimesMonotone
  <2>2. (q + 1) * k = q * k + k
    OBVIOUS
  <2> QED BY <1>1, <2>1, <2>2
<1>4. CASE p = q
  BY <1>1, <1>4
<1> QED BY <1>1, <1>2, <1>3, <1>4

\* It is h o'clock or later exactly from h * TicksPerHour into the day on.
LEMMA HourBound ==
    ASSUME NEW t \in Nat, NEW h \in Nat
    PROVE  /\ Hour(t) \in Nat
           /\ h <= Hour(t) <=> h * TicksPerHour <= t % TicksPerDay
<1> DEFINE r == t % TicksPerDay
           g == r \div TicksPerHour
<1>1. TicksPerHour \in Nat \ {0} /\ TicksPerDay \in Nat \ {0}
  BY ClockAssumption DEF TicksPerDay
<1>2. r \in Nat
  BY <1>1
<1> HIDE DEF r
<1>3. /\ g \in Nat /\ r % TicksPerHour \in Nat /\ g * TicksPerHour \in Nat
      /\ r = g * TicksPerHour + (r % TicksPerHour) /\ r % TicksPerHour < TicksPerHour
  BY <1>1, <1>2, DivMod
<1> HIDE DEF g
<1> DEFINE hs == h * TicksPerHour
           gs == g * TicksPerHour
<1>4. hs \in Nat /\ gs \in Nat /\ r = gs + (r % TicksPerHour)
  BY <1>1, <1>3
<1>5. h <= g => hs <= gs
  BY <1>1, <1>3, TimesMonotone
<1>6. g + 1 <= h => gs + TicksPerHour <= hs
  <2> SUFFICES ASSUME g + 1 <= h PROVE gs + TicksPerHour <= hs
    OBVIOUS
  <2>1. (g + 1) * TicksPerHour <= h * TicksPerHour
    BY <1>1, <1>3, TimesMonotone
  <2>2. (g + 1) * TicksPerHour = gs + TicksPerHour
    BY <1>1, <1>3
  <2> QED BY <2>1, <2>2
<1> DEFINE rest == r % TicksPerHour
<1>7. rest \in Nat /\ rest < TicksPerHour /\ r = gs + rest /\ g \in Nat
  BY <1>3, <1>4
<1> HIDE DEF hs, gs, rest
<1>8. h <= g <=> hs <= r
  BY <1>1, <1>2, <1>4, <1>5, <1>6, <1>7
<1> QED BY <1>3, <1>8 DEF Hour, g, r, hs

\* Where a candidate outside a window within the day is deferred to.
LEMMA OpeningIsNext ==
    ASSUME now \in Nat, NEW w \in Windows, w[1] < w[2], w[1] < HoursPerDay,
           ~InWindow(w, Hour(now))
    PROVE  /\ NextOpening(w) > now
           /\ Open(w, NextOpening(w))
           /\ \A t \in now .. NextOpening(w) - 1 : ~Open(w, t)
<1> DEFINE D == TicksPerDay
           P == TicksPerHour
           A == w[1] * P
           B == w[2] * P
           d == Day(now)
           start == d * D
           r == now % D
<1>1. w[1] \in Nat /\ w[2] \in Nat /\ P \in Nat \ {0} /\ D \in Nat \ {0}
  BY WindowsAssumption, ClockAssumption DEF TicksPerDay
<1>2. /\ A \in Nat /\ B \in Nat /\ A + P <= B /\ A + P <= D
  <2>1. (w[1] + 1) * P <= w[2] * P /\ (w[1] + 1) * P <= HoursPerDay * P
    BY <1>1, ClockAssumption, TimesMonotone
  <2>2. (w[1] + 1) * P = A + P
    BY <1>1
  <2> QED BY <1>1, <2>1, <2>2 DEF TicksPerDay
<1>3. /\ d \in Nat /\ r \in Nat /\ start \in Nat /\ now = start + r /\ r < D
  BY <1>1, DivMod DEF Day
<1>4. (d + 1) * D = start + D
  BY <1>1, <1>3
<1>5. \A t \in Nat : Open(w, t) <=> A <= t % D /\ t % D < B
  <2> SUFFICES ASSUME NEW t \in Nat PROVE Open(w, t) <=> A <= t % D /\ t % D < B
    OBVIOUS
  <2>1. Hour(t) \in Nat /\ (w[1] <= Hour(t) <=> A <= t % D)
    BY <1>1, HourBound
  <2>2. w[2] <= Hour(t) <=> B <= t % D
    BY <1>1, HourBound
  <2>3. t % D \in Nat
    BY <1>1
  <2> HIDE DEF A, B, D
  <2> QED BY <1>1, <1>2, <2>1, <2>2, <2>3 DEF Open, InWindow
<1>6. r < A \/ B <= r
  <2>1. ~Open(w, now)
    BY DEF Open
  <2> HIDE DEF A, B
  <2> QED BY <1>2, <1>3, <1>5, <2>1
<1>7. Hour(now) < w[1] <=> r < A
  <2>1. Hour(now) \in Nat /\ (w[1] <= Hour(now) <=> A <= r)
    BY <1>1, HourBound
  <2> HIDE DEF A, r
  <2> QED BY <1>1, <1>2, <1>3, <2>1
<1>8. \A t \in Nat : /\ start <= t /\ t < start + D => t % D = t - start
                     /\ start + D <= t /\ t < start + D + D => t % D = t - (start + D)
  <2> SUFFICES ASSUME NEW t \in Nat
               PROVE  /\ start <= t /\ t < start + D => t % D = t - start
                      /\ start + D <= t /\ t < start + D + D => t % D = t - (start + D)
    OBVIOUS
  <2>1. d + 1 \in Nat
    BY <1>3
  <2>2. start <= t /\ t < start + D => t % D = t - start
    BY <1>1, <1>3, Remainder
  <2>3. (d + 1) * D <= t /\ t < (d + 1) * D + D => t % D = t - (d + 1) * D
    BY <1>1, <2>1, Remainder
  <2> QED BY <1>4, <2>2, <2>3
<1>9. NextOpening(w) = IF r < A THEN start + A ELSE start + D + A
  BY <1>4, <1>7 DEF NextOpening, AtHour
<1> HIDE DEF D, P, A, B, d, start, r
<1>10. CASE r < A
  <2>1. NextOpening(w) > now /\ NextOpening(w) \in Nat
    BY <1>2, <1>3, <1>9, <1>10
  <2>2. NextOpening(w) % D = A
    BY <1>1, <1>2, <1>3, <1>8, <1>9, <1>10
  <2>3. Open(w, NextOpening(w))
    BY <1>1, <1>2, <1>5, <2>1, <2>2
  <2>4. ASSUME NEW t \in now .. NextOpening(w) - 1 PROVE ~Open(w, t)
    <3>1. t \in Nat /\ start <= t /\ t < start + A
      BY <1>2, <1>3, <1>9, <1>10
    <3>2. t % D = t - start
      BY <1>1, <1>2, <1>3, <1>8, <3>1
    <3> QED BY <1>2, <1>3, <1>5, <3>1, <3>2
  <2> QED BY <2>1, <2>3, <2>4
<1>11. CASE B <= r
  <2>1. NextOpening(w) = start + D + A
    BY <1>1, <1>2, <1>3, <1>9, <1>11
  <2>2. NextOpening(w) > now /\ NextOpening(w) \in Nat
    BY <1>1, <1>2, <1>3, <2>1
  <2>3. NextOpening(w) % D = A
    BY <1>1, <1>2, <1>3, <1>8, <2>1
  <2>4. Open(w, NextOpening(w))
    BY <1>1, <1>2, <1>5, <2>2, <2>3
  <2>5. ASSUME NEW t \in now .. NextOpening(w) - 1 PROVE ~Open(w, t)
    <3>1. t \in Nat /\ start + r <= t /\ t < start + D + A
      BY <1>1, <1>2, <1>3, <2>1
    <3>2. CASE t < start + D
      <4>1. t % D = t - start
        BY <1>1, <1>3, <1>8, <3>1, <3>2
      <4> QED BY <1>2, <1>3, <1>5, <1>11, <3>1, <4>1
    <3>3. CASE start + D <= t
      <4>1. t % D = t - (start + D)
        BY <1>1, <1>2, <1>3, <1>8, <3>1, <3>3
      <4> QED BY <1>1, <1>2, <1>3, <1>5, <3>1, <3>3, <4>1
    <3> QED BY <1>1, <1>3, <3>1, <3>2, <3>3
  <2> QED BY <2>2, <2>4, <2>5
<1> QED BY <1>6, <1>10, <1>11

LEMMA RetryKept == Inv /\ RetryAtNextOpening /\ [Next]_vars => RetryAtNextOpening'
<1> SUFFICES ASSUME Inv, RetryAtNextOpening, [Next]_vars PROVE RetryAtNextOpening'
  OBVIOUS
<1> USE NoneIsNoRequest
<1>1. CASE request' = request \/ request' = None
  BY <1>1 DEF RetryAtNextOpening, Taken, DefersToNextOpening, Open, InWindow, Hour,
     TicksPerDay
<1>2. ASSUME NEW candidate \in Candidates,
             NEW reason \in Reasons \ {"outside_send_window"},
             NEW retry_at \in Nat \cup {None}, Decide(candidate, reason, retry_at)
      PROVE  RetryAtNextOpening'
  BY <1>2 DEF Decide, RetryAtNextOpening, DefersToNextOpening
<1>3. ASSUME NEW candidate \in Candidates, NEW label \in {"gate", "log"},
             GoTo(candidate, label)
      PROVE  RetryAtNextOpening'
  BY <1>3 DEF GoTo, RetryAtNextOpening, Taken
<1>4. ASSUME NEW candidate \in Candidates, Evaluate(candidate)
      PROVE  RetryAtNextOpening'
  BY <1>2, <1>3, <1>4 DEF Evaluate, Reasons
<1>5. CASE CheckPendingAndWindow
  <2> DEFINE candidate == request.candidate
             window    == candidate.window
             pending   == GetPending(candidate.user_id)
  <2>1. /\ candidate \in Candidates /\ candidate.user_id \in Users
        /\ window \in Windows /\ now \in Nat
    BY <1>5 DEF CheckPendingAndWindow, Inv, TypeOK, StoreTypeOK, Requests, Candidates
  <2>2. CASE /\ ~InWindow(window, Hour(now)) /\ window[1] < HoursPerDay
             /\ Decide(candidate, "outside_send_window", NextOpening(window))
    <3>1. /\ request'.candidate.window = window
          /\ request'.decision.at = now
          /\ request'.decision.retry_at = NextOpening(window)
      BY <2>2 DEF Decide
    <3>2. window[1] < window[2] =>
              /\ NextOpening(window) > now
              /\ Open(window, NextOpening(window))
              /\ \A t \in now .. NextOpening(window) - 1 : ~Open(window, t)
      BY <2>1, <2>2, OpeningIsNext
    <3> HIDE DEF window, candidate
    <3>3. \A w, t : Open(w, t)' <=> Open(w, t)
      BY DEF Open, InWindow, Hour, TicksPerDay
    <3> QED BY <3>1, <3>2, <3>3 DEF RetryAtNextOpening, DefersToNextOpening
  <2>3. CASE pending # None /\ Decide(candidate, "pending_confirmation",
                                      store[pending].expires_at)
    BY <2>3 DEF Decide, RetryAtNextOpening, DefersToNextOpening
  <2>4. CASE Decide(candidate, "ValueError", None)
    BY <1>2, <2>1, <2>4 DEF Reasons
  <2>5. CASE GoTo(candidate, "log")
    BY <1>3, <2>1, <2>5
  <2> QED BY <1>5, <2>2, <2>3, <2>4, <2>5 DEF CheckPendingAndWindow
<1>6. CASE LogSent
  <2>1. request.candidate \in Candidates
    BY <1>6 DEF LogSent, Inv, TypeOK, Requests
  <2> QED BY <1>2, <1>6, <2>1 DEF LogSent, Reasons
<1> QED BY <1>1, <1>4, <1>5, <1>6
        DEF Next, vars, Respond, AskUser, Answer, Tick, Restart

(* Every deferral is to the next moment the window is open, for any window *)
(* within the day, any length of hour and day, and any clock reading       *)
(* (proactive_engine.py:91-106).                                           *)
THEOREM RetryAlwaysAtOpening == Spec => []RetryAtNextOpening
<1>1. Init => RetryAtNextOpening
  BY DEF Init, RetryAtNextOpening, Taken
<1> QED BY <1>1, RetryKept, InitInv, NextInv, PTL DEF Spec
================================================================================
