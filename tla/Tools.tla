--------------------------------- MODULE Tools ---------------------------------
(***************************************************************************)
(* The tool dispatcher, the weather provider and the location normalizer   *)
(* (luna/tools/dispatcher.py, tools/providers/weather_open_meteo.py,       *)
(* location/normalizer.py).  A call is made by the handler of a webhook    *)
(* and may wait for the geocoder and for the forecast.  The argument a     *)
(* tool looks up is given by what the tools tell apart; of the two of      *)
(* flight_search the worse one counts.  An exception is the outcome        *)
(* "raised", until something catches it.                                   *)
(***************************************************************************)
EXTENDS Naturals

CONSTANTS
    Calls,          \* identities of the calls
    Registered,     \* names in the registry
    Enabled,        \* those with enabled_in_v0
    Implemented,    \* names with a module under tools/mock, and the weather
    Requests,       \* what plans ask for: a tool, registered or not, and its argument
    OpenMeteo,      \* settings.weather_provider = "open_meteo"
    None

ASSUME OpenMeteoAssumption == OpenMeteo \in BOOLEAN

\* The argument is absent or "", blanks only, a text, or no text at all.
Args == {"missing", "blank", "text", "number"}
Statuses == {"ok", "missing_args", "error", "disabled"}   \* ToolStatus

CallRecords == [request: Requests,
                at: {"geocode", "forecast", "returned"},
                status: Statuses \cup {None}]

ASSUME RequestsAssumption == Requests \subseteq [tool: STRING, arg: Args]
ASSUME NoneIsNoCall == None \notin CallRecords \cup Requests \cup Statuses

VARIABLE call   \* the call each handler made, None before it makes one

ToolsTypeOK == call \in [Calls -> CallRecords \cup {None}]

ToolsInit == call = [c \in Calls |-> None]

Waits(request, at) == [request |-> request, at |-> at, status |-> None]

Returned(request, status) == [request |-> request, at |-> "returned", status |-> status]

\* A slip: what an implementation raises passes.
CaughtNot(outcome) == outcome

\* except Exception, in dispatch() and in the weather provider's run().
Caught(outcome) == IF outcome = "raised" THEN "error" ELSE outcome

\* run() of a mock tool: any argument but none will do.
RunMock(arg) == IF arg = "missing" THEN "missing_args" ELSE "ok"

\* run() of the weather provider up to its first await: .strip() is called on
\* the argument before the try, and only a text has it.
RunWeather(arg) ==
    IF arg = "number" THEN "raised"
    ELSE IF arg \in {"missing", "blank"} THEN "missing_args" ELSE "await"

\* A slip: what is registered is run, switched on or not.
DispatchedIfRegistered(request) ==
    IF request.tool \notin Registered \cap Implemented THEN "error"
    ELSE IF request.tool = "weather_lookup" /\ OpenMeteo
         THEN Caught(RunWeather(request.arg)) ELSE Caught(RunMock(request.arg))

\* dispatch() up to its first await.
Dispatched(request) ==
    IF request.tool \notin Registered THEN "error"
    ELSE IF request.tool \notin Enabled THEN "disabled"
    ELSE IF request.tool \notin Implemented THEN "error"
    ELSE IF request.tool = "weather_lookup" /\ OpenMeteo
         THEN Caught(RunWeather(request.arg)) ELSE Caught(RunMock(request.arg))

Dispatch(c, request) ==
    /\ call[c] = None
    /\ call' = [call EXCEPT ![c] =
                   IF Dispatched(request) = "await" THEN Waits(request, "geocode")
                   ELSE Returned(request, Dispatched(request))]

\* normalize_location() on what the geocoder answers: matches, none, an HTTP
\* error or a timeout, or a match without coordinates, on which it raises.
NormalizeLocation(answer) ==
    CASE answer = "matches"   -> "located"
      [] answer = "none"      -> "error"
      [] answer = "failure"   -> "error"
      [] answer = "malformed" -> "raised"

\* The geocoder answers.
Geocoded(c) ==
    /\ call[c] # None /\ call[c].at = "geocode"
    /\ \E answer \in {"matches", "none", "failure", "malformed"} :
          LET outcome == Caught(NormalizeLocation(answer)) IN
          call' = [call EXCEPT ![c] = IF outcome = "located" THEN Waits(@.request, "forecast")
                                                             ELSE Returned(@.request, outcome)]

\* The forecast, or an HTTP error, a timeout, or a forecast without its fields.
Forecast(c) ==
    /\ call[c] # None /\ call[c].at = "forecast"
    /\ \E outcome \in {"ok", "raised"} :
          call' = [call EXCEPT ![c] = Returned(@.request, Caught(outcome))]

\* A tool that is switched on, with something to look up.
Runnable == {request \in Requests : /\ request.tool \in Registered \cap Enabled \cap Implemented
                                    /\ request.arg # "missing"}

\* What the runtime is promised of all this.
Contract == INSTANCE ToolCall WITH
    asked    <- [c \in Calls |-> IF call[c] = None THEN None ELSE call[c].request],
    answer   <- [c \in Calls |-> IF call[c] = None THEN None ELSE call[c].status]

(* A tool call returns once, with a status and never with an exception, and *)
(* "ok" only from a tool that is switched on and got an argument           *)
(* (dispatcher.py:4-5, 44-80, weather_open_meteo.py:58-119).               *)
ToolSpec == Contract!Spec
================================================================================
