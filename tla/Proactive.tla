-------------------------------- MODULE Proactive --------------------------------
(***************************************************************************)
(* The proactive decision gate (luna/scheduler/proactive_engine.py) and    *)
(* its one caller, POST /simulate/proactive (luna/gateway/router.py).      *)
(*                                                                         *)
(* A request runs from evaluate() to the proactive_sent entry without an   *)
(* await, so nothing else runs on the event loop meanwhile: questions are  *)
(* asked and answered only between two requests.  The clock and a crash    *)
(* respect no such thing.  evaluate() reads the clock twice and the event  *)
(* log stamps the entry with a third reading, so a request is three steps  *)
(* with ticks in between; a fourth hands the decision to the caller.       *)
(*                                                                         *)
(* The event log is kept as the number of proactive_sent entries per user  *)
(* and UTC date, all evaluate() asks of it.  What the caller was told to   *)
(* send is history that no restart undoes: received counts it, and no      *)
(* action reads it.                                                        *)
(***************************************************************************)
EXTENDS ConfirmationStore

CONSTANTS
    Windows,        \* <<send_window_start, send_window_end>> of the candidates
    DailyCap,       \* _DAILY_CAP
    HoursPerDay,    \* 24
    TicksPerHour,   \* resolution of the clock
    Durable,        \* LUNA_MEMORY_BACKEND = "sqlite": the log outlives the process
    MaxTime         \* bound on the clock

ASSUME ClockAssumption ==
    /\ HoursPerDay \in Nat \ {0} /\ TicksPerHour \in Nat \ {0}
    /\ MaxTime \in Nat
ASSUME CapAssumption == DailyCap \in Nat
ASSUME WindowsAssumption == Windows \subseteq Nat \X Nat
ASSUME DurableAssumption == Durable \in BOOLEAN

TicksPerDay == HoursPerDay * TicksPerHour

Day(t)  == t \div TicksPerDay                       \* t.date()
Hour(t) == (t % TicksPerDay) \div TicksPerHour      \* t.hour

\* t.replace(hour=h, minute=0, second=0, microsecond=0), on the day d
AtHour(d, h) == d * TicksPerDay + h * TicksPerHour

Days == 0 .. Day(MaxTime)

\* ProactiveCandidate, without its text.
Candidates == [user_id: Users, opted_out: BOOLEAN, proactive_opt_in: BOOLEAN,
               window: Windows]

Reasons == {"user_opted_out", "proactive_not_opted_in", "daily_cap_exceeded",
            "pending_confirmation", "outside_send_window", "all_checks_passed",
            "ValueError"}

\* ProactiveDecision, with the clock reading it was taken at.
Decisions == [reason: Reasons, at: Nat, retry_at: Nat \cup {None}]

VARIABLES
    sent,       \* proactive_sent entries in the event log, per user and date
    received,   \* history: messages handed to the caller, by their entry's date
    request     \* the request on the event loop, or None

vars == <<store, user_pending, now, sent, received, request>>

\* pc: the next step.  decision: None until one is taken.
Requests == [candidate: Candidates, pc: {"gate", "log", "respond"},
             decision: Decisions \cup {None}]

ASSUME NoneIsNoRequest == None \notin Requests

TypeOK ==
    /\ StoreTypeOK
    /\ now <= MaxTime
    /\ sent \in [Users -> [Days -> Nat]]
    /\ received \in [Users -> [Days -> Nat]]
    /\ request \in Requests \cup {None}

NothingSent == [u \in Users |-> [d \in Days |-> 0]]

Init ==
    /\ StoreInit
    /\ now = 0
    /\ sent = NothingSent
    /\ received = NothingSent
    /\ request = None

--------------------------------------------------------------------------------
\* The decision is taken: what is left is to hand it to the caller.
Decide(candidate, reason, retry_at) ==
    request' = [candidate |-> candidate,
                pc        |-> "respond",
                decision  |-> [reason |-> reason, at |-> now, retry_at |-> retry_at]]

GoTo(candidate, label) ==
    request' = [candidate |-> candidate, pc |-> label, decision |-> None]

\* sent_today >= _DAILY_CAP
CapReached(u) == sent[u][Day(now)] >= DailyCap

\* hour = now.hour is inside the candidate's window.  A window that crosses
\* midnight has its end before its start, and no hour is inside it.
InWindow(window, hour) == window[1] <= hour /\ hour < window[2]

\* A slip to try the properties against: the window that is over for today is
\* said to reopen today.
ReopensToday(window) == AtHour(Day(now), window[1])

\* Where the code defers to when it is not.
NextOpening(window) ==
    AtHour(IF Hour(now) < window[1] THEN Day(now) ELSE Day(now) + 1, window[1])

\* evaluate(), checks 1 to 3: opt-out, opt-in, and the cap on today's sends.
Evaluate(candidate) ==
    /\ request = None
    /\ \/ /\ candidate.opted_out
          /\ Decide(candidate, "user_opted_out", None)
       \/ /\ ~candidate.opted_out /\ ~candidate.proactive_opt_in
          /\ Decide(candidate, "proactive_not_opted_in", None)
       \/ /\ ~candidate.opted_out /\ candidate.proactive_opt_in
          /\ CapReached(candidate.user_id)
          /\ Decide(candidate, "daily_cap_exceeded", None)
       \/ /\ ~candidate.opted_out /\ candidate.proactive_opt_in
          /\ ~CapReached(candidate.user_id)
          /\ GoTo(candidate, "gate")
    /\ UNCHANGED <<store, user_pending, now, sent, received>>

\* Checks 4 to 6, on a second reading of the clock.  datetime.replace() raises
\* ValueError for an hour that does not exist, and the request fails with it.
CheckPendingAndWindow ==
    LET candidate == request.candidate
        pending   == GetPending(candidate.user_id)
        window    == candidate.window
    IN
    /\ request # None /\ request.pc = "gate"
    /\ \/ /\ pending # None
          /\ Decide(candidate, "pending_confirmation", store[pending].expires_at)
       \/ /\ pending = None /\ ~InWindow(window, Hour(now))
          /\ IF window[1] < HoursPerDay
             THEN Decide(candidate, "outside_send_window", NextOpening(window))
             ELSE Decide(candidate, "ValueError", None)
       \/ /\ pending = None /\ InWindow(window, Hour(now))
          /\ GoTo(candidate, "log")
    /\ UNCHANGED <<store, user_pending, now, sent, received>>

\* events.log("proactive_sent", ...): the entry's timestamp is a third reading.
LogSent ==
    LET u == request.candidate.user_id IN
    /\ request # None /\ request.pc = "log"
    /\ sent' = [sent EXCEPT ![u][Day(now)] = @ + 1]
    /\ Decide(request.candidate, "all_checks_passed", None)
    /\ UNCHANGED <<store, user_pending, now, received>>

\* The response leaves, with the message if there is one, and the event loop is
\* free.
Respond ==
    /\ request # None /\ request.pc = "respond"
    /\ received' = IF request.decision.reason = "all_checks_passed"
                   THEN [received EXCEPT ![request.candidate.user_id]
                                          [Day(request.decision.at)] = @ + 1]
                   ELSE received
    /\ request' = None
    /\ UNCHANGED <<store, user_pending, now, sent>>

--------------------------------------------------------------------------------
(* The rest of Luna, between two proactive requests.                       *)

AskUser(u, c) ==
    /\ request = None
    /\ Create(u, c)
    /\ UNCHANGED <<now, sent, received, request>>

Answer(u, word) ==
    /\ request = None
    /\ \E outcome \in Outcomes : ResolveInbound(u, word, outcome)
    /\ UNCHANGED <<now, sent, received, request>>

Tick ==
    /\ now < MaxTime
    /\ now' = now + 1
    /\ UNCHANGED <<store, user_pending, sent, received, request>>

\* A slip: the entries were written and never committed.
RestartUncommitted ==
    /\ store' = [c \in Ids |-> None]
    /\ user_pending' = [u \in Users |-> None]
    /\ sent' = NothingSent
    /\ request' = None
    /\ UNCHANGED <<now, received>>

\* The process dies and is started again: confirmations are kept in its memory
\* only, the event log is kept if the backend is SQLite.
Restart ==
    /\ store' = [c \in Ids |-> None]
    /\ user_pending' = [u \in Users |-> None]
    /\ sent' = IF Durable THEN sent ELSE NothingSent
    /\ request' = None
    /\ UNCHANGED <<now, received>>

Next ==
    \/ \E candidate \in Candidates : Evaluate(candidate)
    \/ CheckPendingAndWindow
    \/ LogSent
    \/ Respond
    \/ \E u \in Users, c \in Ids : AskUser(u, c)
    \/ \E u \in Users, word \in {"yes", "no"} : Answer(u, word)
    \/ Tick
    \/ Restart

Spec == Init /\ [][Next]_vars

--------------------------------------------------------------------------------
(* Safety                                                                  *)

(* Nobody is sent more proactive messages dated one day than the cap, even *)
(* when midnight falls between the count and the entry it allows           *)
(* (proactive_engine.py:60-68, router.py:83-87).  Of the log that is so    *)
(* with either backend.  Of what users receive it is so with SQLite,       *)
(* wherever the process dies: the entry is stored before the message       *)
(* leaves.  A log in memory forgets at a restart what users have received. *)
DailyCapHolds ==
    \A u \in Users, d \in Days :
        /\ sent[u][d] <= DailyCap
        /\ Durable => received[u][d] <= DailyCap

\* t is a moment the window is open.
Open(window, t) == InWindow(window, Hour(t))

\* A deferral to the next opening: later than now, open, with no open moment
\* that the candidate misses in between.
DefersToNextOpening(decision, window) ==
    decision.reason = "outside_send_window" =>
        /\ decision.retry_at > decision.at
        /\ Open(window, decision.retry_at)
        /\ \A t \in decision.at .. decision.retry_at - 1 : ~Open(window, t)

Taken == request # None /\ request.decision # None

(* A candidate outside its window is deferred to the next moment it is     *)
(* open, not sooner and not a day late, whichever side of the window and   *)
(* of midnight it came from (proactive_engine.py:91-106).                  *)
RetryAtNextOpening ==
    Taken /\ request.candidate.window[1] < request.candidate.window[2] =>
        DefersToNextOpening(request.decision, request.candidate.window)

--------------------------------------------------------------------------------
(* What the documentation says and the code does not do                    *)

(* proactive_engine.py:11, "pending confirmation open -> defer until       *)
(* confirmation expires".  A confirmation nobody answered stays in the     *)
(* index after its deadline and defers candidates to a moment long past.   *)
DefersUntilExpiry ==
    Taken /\ request.decision.reason = "pending_confirmation" =>
        request.decision.at <= request.decision.retry_at

(* README.md:113, "outside send window -> DEFER (retry_at = next window    *)
(* open)".  With a window over midnight, whose hours are all valid, the    *)
(* candidate is deferred to moments at which the window is still shut.     *)
EveryRetryAtNextOpening ==
    Taken => DefersToNextOpening(request.decision, request.candidate.window)
================================================================================
