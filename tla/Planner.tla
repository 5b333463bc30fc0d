-------------------------------- MODULE Planner --------------------------------
(***************************************************************************)
(* The planner (luna/reasoning/planner.py): one call of run() per turn of  *)
(* one user's conversation.  Claude is asked, asked once more if the plan  *)
(* does not validate, and the keyword planner stands in for it; each call  *)
(* leaves its trace in the event log.  The runtime merges the plan into    *)
(* the user's task, which is all a later call may know of this one.        *)
(*                                                                         *)
(* A message is the topics its words name and the places it gives.  A      *)
(* place may be given by blanks alone, where the pattern allows it: the    *)
(* field is there and its value is the empty string.                       *)
(***************************************************************************)
EXTENDS Naturals, Sequences

CONSTANTS
    Bodies,         \* the messages that arrive
    ClaudePlans,    \* the plans Claude may answer with
    MaxTurns,       \* bound on the number of turns
    None

Topics  == {"weather", "flight", "hotel", "events"}
Phrases == {"from_to", "to", "in"}      \* _RE_FROM_TO, _RE_TO, _RE_IN
Ends    == {"origin", "destination"}    \* what _RE_FROM_TO matches

ASSUME BodiesAssumption ==
    Bodies \subseteq [topics: SUBSET Topics, says: SUBSET Phrases, blank: SUBSET Ends]

Tools == {"weather_lookup", "flight_search", "hotel_search", "events_search"}

Fields == {"origin", "destination", "city", "date", "depart_date", "return_date",
           "passengers", "check_in", "check_out", "guests", "budget", "dates",
           "event_type", "travel_intent"}

\* known: the names in known_fields; blank: those of them whose value is "".
PlannerOutputs == [source: {"claude", "fallback"}, known: SUBSET Fields,
                   blank: SUBSET Fields, missing: SUBSET Fields,
                   tool: Tools \cup {None}]

ASSUME ClaudePlansAssumption ==
    /\ \A plan \in ClaudePlans :
          /\ plan \in PlannerOutputs
          /\ plan.source = "claude"
    /\ None \notin PlannerOutputs
    /\ MaxTurns \in Nat

--------------------------------------------------------------------------------
(* The keyword planner                                                     *)

\* The order in which _run_fallback() looks for the topics' words.
Rank == [weather |-> 1, flight |-> 2, hotel |-> 3, events |-> 4]

Topic(body) ==
    IF body.topics = {} THEN "other"
    ELSE CHOOSE t \in body.topics : \A s \in body.topics : Rank[t] <= Rank[s]

\* all_fields of a topic, in which it looks for what is missing
Wanted == [weather |-> {"city", "date"},
           flight  |-> {"origin", "destination", "depart_date", "return_date",
                        "passengers"},
           hotel   |-> {"city", "check_in", "check_out", "guests", "budget"},
           events  |-> {"city", "dates", "event_type"},
           other   |-> {"travel_intent"}]

\* what must be known for its tool to be selected
Needed == [weather |-> {"city"}, flight |-> {"origin", "destination"},
           hotel |-> {"city"}, events |-> {"city"}, other |-> {}]

Tool == [weather |-> "weather_lookup", flight |-> "flight_search",
         hotel |-> "hotel_search", events |-> "events_search", other |-> None]

\* _extract_known_fields(): "from A to B" hides every other place.
ExtractKnownFields(body) ==
    IF "from_to" \in body.says THEN Ends
    ELSE {f \in {"destination", "city"} : \/ f = "destination" /\ "to" \in body.says
                                          \/ f = "city" /\ "in" \in body.says}

\* The groups of _RE_FROM_TO may match a blank, which strip() takes away; those
\* of _RE_TO and _RE_IN begin with a letter.
BlankFields(body) == IF "from_to" \in body.says THEN body.blank ELSE {}

\* A slip: one end of the journey is enough to search.
RunFallbackEither(body) ==
    LET topic == Topic(body)
        known == IF topic = "other" THEN {} ELSE ExtractKnownFields(body)
    IN  [source  |-> "fallback",
         known   |-> known,
         blank   |-> known \cap BlankFields(body),
         missing |-> Wanted[topic] \ known,
         tool    |-> IF Needed[topic] \cap known # {} THEN Tool[topic] ELSE None]

\* _run_fallback(): without a topic, the places are dropped too.  It asks whether
\* a field is there, not whether it has a value.
RunFallback(body) ==
    LET topic == Topic(body)
        known == IF topic = "other" THEN {} ELSE ExtractKnownFields(body)
    IN  [source  |-> "fallback",
         known   |-> known,
         blank   |-> known \cap BlankFields(body),
         missing |-> Wanted[topic] \ known,
         tool    |-> IF Needed[topic] \subseteq known THEN Tool[topic] ELSE None]

(* What the tools themselves ask for: each answers missing_args without it, *)
(* or when its value is "".                                                 *)
WeatherArgs == {"city"}
FlightArgs  == {"origin", "destination"}
HotelArgs   == {"city"}
EventsArgs  == {"city"}

Args == [weather_lookup |-> WeatherArgs, flight_search |-> FlightArgs,
         hotel_search |-> HotelArgs, events_search |-> EventsArgs]

--------------------------------------------------------------------------------
VARIABLES
    enabled,    \* USE_CLAUDE_PLANNER, with an API key
    durable,    \* the event log and the tasks are in SQLite, which may raise
    pc,         \* where run() is
    turn,       \* the number of the turn
    body,       \* its message
    td,         \* trace data: retry_count, and the attempt the tokens are of
    answers,    \* what Claude answered in this call, an attempt each
    plan,       \* the result, once there is one
    log,        \* planner_run and planner_fallback_used entries
    task        \* the user's active TravelTask: known_fields, those of them
                \* that are blank, missing_fields

vars == <<enabled, durable, pc, turn, body, td, answers, plan, log, task>>

Labels == {"idle", "first", "second", "failing", "fallback", "trace", "planned"}

\* An answer is a plan that validates, anything else that arrives (a plan that
\* does not, or no tool call), or an exception of the client; "usage" is there
\* or not.
Outcomes == {"valid", "invalid", "error"}
Answers  == [outcome: Outcomes, usage: BOOLEAN]

TraceData == [retry_count: 0 .. 1, tokens: 0 .. 2]

Entries ==
    [event: {"planner_fallback_used"}, turn: Nat]
    \cup [event: {"planner_run"}, turn: Nat, mode: {"claude", "fallback"},
          fallback_used: BOOLEAN, retry_count: 0 .. 1, tokens: 0 .. 2]

Tasks == [known: SUBSET Fields, blank: SUBSET Fields, missing: SUBSET Fields]

TypeOK ==
    /\ enabled \in BOOLEAN /\ durable \in BOOLEAN
    /\ pc \in Labels
    /\ turn \in 0 .. MaxTurns
    /\ body \in Bodies \cup {None}
    /\ td \in TraceData
    /\ answers \in Seq(Answers)
    /\ plan \in PlannerOutputs \cup {None}
    /\ log \subseteq Entries
    /\ task \in Tasks

NoTrace == [retry_count |-> 0, tokens |-> 0]

Init ==
    /\ enabled \in BOOLEAN /\ durable \in BOOLEAN
    /\ pc = "idle" /\ turn = 0 /\ body = None
    /\ td = NoTrace /\ answers = <<>> /\ plan = None
    /\ log = {}
    /\ task = [known |-> {}, blank |-> {}, missing |-> {}]

--------------------------------------------------------------------------------
\* A slip: the trace data outlives the call.
RunKeepsTrace(b) ==
    /\ pc = "idle" /\ turn < MaxTurns
    /\ turn' = turn + 1
    /\ body' = b
    /\ answers' = <<>>
    /\ pc' = IF enabled THEN "first" ELSE "fallback"
    /\ UNCHANGED <<enabled, durable, td, plan, log, task>>

\* run() is called with the next message.
Run(b) ==
    /\ pc = "idle" /\ turn < MaxTurns
    /\ turn' = turn + 1
    /\ body' = b
    /\ td' = NoTrace
    /\ answers' = <<>>
    /\ pc' = IF enabled THEN "first" ELSE "fallback"
    /\ UNCHANGED <<enabled, durable, plan, log, task>>

\* _call_claude_once(): an answer, whose usage goes to the trace.
Answer(outcome, usage) ==
    /\ answers' = Append(answers, [outcome |-> outcome, usage |-> usage])
    /\ usage => outcome # "error"

Tokens(usage) == IF usage THEN Len(answers) + 1 ELSE td.tokens

\* Attempt 1 of _run_claude().  Only an invalid answer is tried again.
FirstAttempt ==
    /\ pc = "first"
    /\ \E outcome \in Outcomes, usage \in BOOLEAN :
          /\ Answer(outcome, usage)
          /\ td' = [retry_count |-> IF outcome = "invalid" THEN 1 ELSE 0,
                    tokens      |-> Tokens(usage)]
          /\ \/ outcome = "valid"   /\ pc' = "trace"  /\ plan' \in ClaudePlans
             \/ outcome = "invalid" /\ pc' = "second" /\ UNCHANGED plan
             \/ outcome = "error"   /\ pc' = "failing" /\ UNCHANGED plan
    /\ UNCHANGED <<enabled, durable, turn, body, log, task>>

\* A slip: until it validates.
SecondAttemptAgain ==
    /\ pc = "second"
    /\ \E usage \in BOOLEAN :
          /\ td' = [td EXCEPT !.tokens = Tokens(usage)]
          /\ \/ pc' = "trace" /\ plan' \in ClaudePlans /\ Answer("valid", usage)
             \/ pc' = "first" /\ answers' = <<>> /\ UNCHANGED plan
    /\ UNCHANGED <<enabled, durable, turn, body, log, task>>

\* A slip: counted as another retry.
SecondAttemptCounts ==
    /\ pc = "second"
    /\ \E outcome \in Outcomes, usage \in BOOLEAN :
          /\ Answer(outcome, usage)
          /\ td' = [retry_count |-> td.retry_count + 1, tokens |-> Tokens(usage)]
          /\ \/ outcome = "valid" /\ pc' = "trace" /\ plan' \in ClaudePlans
             \/ outcome # "valid" /\ pc' = "failing" /\ UNCHANGED plan
    /\ UNCHANGED <<enabled, durable, turn, body, log, task>>

\* A slip: the repair is outside the try, what it raises leaves run().
SecondAttemptRaises ==
    /\ pc = "second"
    /\ \E outcome \in Outcomes, usage \in BOOLEAN :
          /\ Answer(outcome, usage)
          /\ td' = [td EXCEPT !.tokens = Tokens(usage)]
          /\ \/ outcome = "valid" /\ pc' = "trace" /\ plan' \in ClaudePlans
             \/ outcome # "valid" /\ pc' = "idle" /\ UNCHANGED plan
    /\ UNCHANGED <<enabled, durable, turn, body, log, task>>

\* Attempt 2, with the repair prompt: nothing but a valid plan is caught here.
SecondAttempt ==
    /\ pc = "second"
    /\ \E outcome \in Outcomes, usage \in BOOLEAN :
          /\ Answer(outcome, usage)
          /\ td' = [td EXCEPT !.tokens = Tokens(usage)]
          /\ \/ outcome = "valid" /\ pc' = "trace" /\ plan' \in ClaudePlans
             \/ outcome # "valid" /\ pc' = "failing" /\ UNCHANGED plan
    /\ UNCHANGED <<enabled, durable, turn, body, log, task>>

\* The exception handler of run().
LogFallbackUsed ==
    /\ pc = "failing"
    /\ log' = log \cup {[event |-> "planner_fallback_used", turn |-> turn]}
    /\ pc' = "fallback"
    /\ UNCHANGED <<enabled, durable, turn, body, td, answers, plan, task>>

Fallback ==
    /\ pc = "fallback"
    /\ plan' = RunFallback(body)
    /\ pc' = "trace"
    /\ UNCHANGED <<enabled, durable, turn, body, td, answers, log, task>>

\* fallback_used is set where the handler of run() is reached.
LogRun ==
    /\ pc = "trace"
    /\ log' = log \cup {[event |-> "planner_run", turn |-> turn, mode |-> plan.source,
                         fallback_used |-> enabled /\ plan.source = "fallback",
                         retry_count |-> td.retry_count, tokens |-> td.tokens]}
    /\ pc' = "planned"
    /\ UNCHANGED <<enabled, durable, turn, body, td, answers, plan, task>>

\* The runtime's _update_task(), on the task created in the first turn.  A blank
\* value takes the place of one that is not, and the other way round.
UpdateTask ==
    /\ pc = "planned"
    /\ task' = [known   |-> task.known \cup plan.known,
                blank   |-> (task.blank \ plan.known) \cup plan.blank,
                missing |-> plan.missing]
    /\ pc' = "idle" /\ plan' = None
    /\ UNCHANGED <<enabled, durable, turn, body, td, answers, log>>

\* SQLite raises where the next step writes.
DatabaseFails ==
    /\ durable
    /\ pc \in {"failing", "trace", "planned"}
    /\ pc' = "idle" /\ plan' = None
    /\ UNCHANGED <<enabled, durable, turn, body, td, answers, log, task>>

Continue ==
    \/ FirstAttempt \/ SecondAttempt \/ LogFallbackUsed \/ Fallback \/ LogRun
    \/ UpdateTask

Next == (\E b \in Bodies : Run(b)) \/ Continue \/ DatabaseFails

Spec == Init /\ [][Next]_vars

\* Claude answers or the client times out; the rest is one synchronous call.
FairSpec == Spec /\ WF_vars(Continue)

--------------------------------------------------------------------------------
(* Properties                                                              *)

RunsOf(t)      == {e \in log : e.event = "planner_run" /\ e.turn = t}
FallbacksOf(t) == {e \in log : e.event = "planner_fallback_used" /\ e.turn = t}

(* What the event log says of a call is what happened in it: which planner *)
(* made the plan, whether Claude was retried, whether the fallback stood   *)
(* in for Claude, and tokens that Claude used in this call and no other,   *)
(* in every order of failures (planner.py:242-281, 363-395).               *)
TraceMatchesCall ==
    pc = "planned" =>
        \A e \in RunsOf(turn) :
            /\ e.mode = plan.source
            /\ e.mode = "claude" <=>
                  answers # <<>> /\ answers[Len(answers)].outcome = "valid"
            /\ e.retry_count = 1 <=> answers # <<>> /\ answers[1].outcome = "invalid"
            /\ e.fallback_used <=> FallbacksOf(turn) # {}
            /\ e.tokens # 0 => e.tokens \in DOMAIN answers /\ answers[e.tokens].usage

(* The fallback planner selects a tool by the names of the fields, and the *)
(* tools ask for their values: a tool that is run without an argument is   *)
(* run because the message itself left an end of the journey blank, and    *)
(* for no other reason (planner.py:406-418, 432-490, the tools' own        *)
(* checks, runtime.py:112-115).                                            *)
SelectedToolCanRun ==
    plan # None /\ plan.source = "fallback" /\ plan.tool # None =>
        Args[plan.tool] \ (plan.known \ plan.blank) \subseteq BlankFields(body)

\* run() keeps the promise of PlannerCall, whatever Claude answers.
Call == INSTANCE PlannerCall WITH
            Plans    <- PlannerOutputs,
            calling  <- pc \in {"first", "second", "failing", "fallback", "trace"},
            plan     <- IF pc = "planned" THEN plan ELSE None,
            recorded <- {e.turn : e \in {f \in log : f.event = "planner_run"}}

CallSpec == Call!Spec

(* Liveness: every turn that starts ends, with its plan in the task unless *)
(* the database failed (planner.py:253-264, 389).                          *)
EveryTurnEnds == pc # "idle" ~> pc = "idle"

(* README.md:5, "it remembers context across messages".  The user answers  *)
(* with a place Luna asked for; the turn ends without the task knowing it. *)
AnswerIsKept ==
    [][pc = "planned" /\ pc' = "idle" /\ task' # task =>
          task.missing \cap (ExtractKnownFields(body) \ BlankFields(body))
              \subseteq task'.known]_vars
================================================================================
