--------------------------------- MODULE Runtime ---------------------------------
(***************************************************************************)
(* The agent runtime (luna/agent/runtime.py): what one inbound SMS goes    *)
(* through from the webhook to the reply, with several messages at once,   *)
(* crashes, and database errors.                                           *)
(*                                                                         *)
(* The webhooks are coroutines on one asyncio event loop.  A handler gives *)
(* the loop up only where it awaits the network: the two Open-Meteo calls  *)
(* of the weather tool, and the Telnyx call that delivers the reply.  Any- *)
(* where else, the synchronous call to Claude included, it holds the loop, *)
(* and no other handler moves.  A crash does not wait for the loop, and    *)
(* every write to SQLite is committed on its own: each write is a step.    *)
(*                                                                         *)
(* Texts are classes: what policy and resolver tell apart.  The event log  *)
(* and the conversations are sets of the entries each request wrote.       *)
(***************************************************************************)
EXTENDS ConfirmationStore, Sequences

CONSTANTS
    Requests,   \* identities of the inbound webhook calls: bounds their number
    Bodies,     \* the message bodies that arrive
    Fields,     \* names of the travel fields a planner extracts
    Plans,      \* the plans the planner may come up with
    MaxTime     \* bound on the clock

STOP_WORDS  == {"stop", "cancel"}       \* _STOP_WORDS
START_WORDS == {"start"}                \* _START_WORDS
SENSITIVE   == {"passport"}             \* passport, card and payment patterns
YES         == {"yes"}                  \* _YES
NO          == {"no", "cancel"}         \* _NO

ASSUME BodiesAssumption ==
    Bodies \subseteq STOP_WORDS \cup START_WORDS \cup SENSITIVE \cup YES \cup NO
                     \cup {"travel"}

\* PlannerOutput: the fields it found and misses, the tool it selects first (a
\* synchronous one, the weather one that awaits, or none), and whether the draft
\* claims that a booking is made.  The risk level changes nothing.
PlannerOutputs == [known: SUBSET Fields, missing: SUBSET Fields,
                   tool: {"sync", "weather", "none"}, claims: BOOLEAN]

ASSUME PlansAssumption == Plans \subseteq PlannerOutputs
ASSUME RequestsAssumption == None \notin Requests
ASSUME MaxTimeAssumption == MaxTime \in Nat

TravelTasks == [known: SUBSET Fields, missing: SUBSET Fields]

\* What the resolver tells of a message it handled: the status the question has
\* now, or that there was none.
Resolutions == {"no_pending", "confirmed", "rejected", "expired"}

\* What a reply is.
Replies == {"canned", "draft", "tool", "claim", "rewritten"} \cup Resolutions

\* The task a handler has in its hands: where it is in the user's list, and what
\* it held when it was read.
HeldTasks == [slot: Nat \ {0}, copy: TravelTasks]

\* The step a handler is at.
Labels == {"gateway", "inbound", "identify", "identified", "turn", "policy",
           "confirm", "resolved", "plan", "create", "fill", "update", "created",
           "updated", "dispatch", "geocode", "forecast", "executed", "check",
           "send", "sent", "deliver", "done", "failed", "lost"}

Ended    == {"done", "failed", "lost"}
Awaiting == {"gateway", "geocode", "forecast", "deliver"}

Handlers == [user: Users, body: Bodies, pc: Labels,
             plan: Plans \cup {None}, held: HeldTasks \cup {None},
             reply: Replies \cup {None}]

ASSUME NoneIsNoHandler == None \notin Handlers \cup Plans \cup Replies
ASSUME NoneIsNoFacts == \A known \in SUBSET Fields : known # None

\* The types of event; confirmation_resolved is kept as the status it records.
EventTypes == {"internal_event_received", "inbound_sms_received",
               "user_identified", "policy_command", "policy_blocked_inbound",
               "planner_run", "task_created", "task_updated", "tool_executed",
               "policy_blocked_outbound", "outbound_sms_sent"} \cup Resolutions

VARIABLES
    durable,    \* LUNA_MEMORY_BACKEND = "sqlite"
    users,      \* users with a profile
    turns,      \* conversation turns, as <<role, request>>
    tasks,      \* active tasks of each user, oldest first
    log,        \* event log entries, as <<event_type, request>>
    handler,    \* the handler of each request, None before it arrives
    loop,       \* the request whose handler holds the event loop, or None
    decided_by  \* history: the request that decided each confirmation, or None

world      == <<store, user_pending, now, durable, decided_by>>
memoryVars == <<users, turns, tasks, log>>
vars == <<store, user_pending, now, durable, users, turns, tasks, log, handler, loop,
          decided_by>>

TypeOK ==
    /\ StoreTypeOK
    /\ durable \in BOOLEAN
    /\ users \subseteq Users
    /\ turns \subseteq {"user", "luna"} \X Requests
    /\ tasks \in [Users -> Seq(TravelTasks)]
    /\ log \subseteq EventTypes \X Requests
    /\ handler \in [Requests -> Handlers \cup {None}]
    /\ loop \in Requests \cup {None}
    /\ decided_by \in [Ids -> Requests \cup {None}]

Init ==
    /\ StoreInit
    /\ now = 0
    /\ durable \in BOOLEAN
    /\ users = {} /\ turns = {} /\ log = {}
    /\ tasks = [u \in Users |-> <<>>]
    /\ handler = [r \in Requests |-> None]
    /\ loop = None
    /\ decided_by = [c \in Ids |-> None]

--------------------------------------------------------------------------------
(* How a handler moves                                                     *)

\* r's handler is at label, and has the loop or finds it free.
Runs(r, label) == /\ handler[r] # None
                  /\ handler[r].pc = label
                  /\ loop \in {r, None}

\* It goes on to the next step, in the same slice of the loop ...
GoTo(r, label) == /\ handler' = [handler EXCEPT ![r].pc = label]
                  /\ loop' = r

\* ... or gives the loop up there.
Yield(r, label) == /\ handler' = [handler EXCEPT ![r].pc = label]
                   /\ loop' = None

\* It is over: its locals are gone.
Ending(r, label) ==
    [handler[r] EXCEPT !.pc = label, !.plan = None, !.held = None, !.reply = None]

\* It goes on with the reply decided.
ReplyWith(r, reply, label) ==
    /\ handler' = [handler EXCEPT ![r].pc = label, ![r].reply = reply]
    /\ loop' = r

\* events.log(event, ...) on behalf of r.
Log(r, event) == log' = log \cup {<<event, r>>}

\* memory.append_turn(user_id, role, ...) on behalf of r.
AppendTurn(r, role) == turns' = turns \cup {<<role, r>>}

User(r) == handler[r].user

--------------------------------------------------------------------------------
(* Steps 1 to 3: the gateway, the user, the inbound turn.                  *)

\* A webhook call with a well-formed message: parsed and normalized.
Receive(r, u, body) ==
    /\ handler[r] = None
    /\ handler' = [handler EXCEPT ![r] = [user |-> u, body |-> body, pc |-> "gateway",
                                          plan |-> None, held |-> None, reply |-> None]]
    /\ UNCHANGED <<world, memoryVars, loop>>

\* event_gateway.handle() logs the event and calls the runtime.
Gateway(r) ==
    /\ Runs(r, "gateway")
    /\ Log(r, "internal_event_received")
    /\ GoTo(r, "inbound")
    /\ UNCHANGED <<world, users, turns, tasks>>

\* A slip: the conversation is written first, profiles when needed.
LogInboundIdentifyLater(r) ==
    /\ Runs(r, "inbound")
    /\ Log(r, "inbound_sms_received")
    /\ GoTo(r, "turn")
    /\ UNCHANGED <<world, users, turns, tasks>>

LogInbound(r) ==
    /\ Runs(r, "inbound")
    /\ Log(r, "inbound_sms_received")
    /\ GoTo(r, "identify")
    /\ UNCHANGED <<world, users, turns, tasks>>

\* get_user(), and create_user() if there is none.
IdentifyUser(r) ==
    /\ Runs(r, "identify")
    /\ users' = users \cup {User(r)}
    /\ GoTo(r, "identified")
    /\ UNCHANGED <<world, turns, tasks, log>>

LogIdentified(r) ==
    /\ Runs(r, "identified")
    /\ Log(r, "user_identified")
    /\ GoTo(r, "turn")
    /\ UNCHANGED <<world, users, turns, tasks>>

AppendInbound(r) ==
    /\ Runs(r, "turn")
    /\ AppendTurn(r, "user")
    /\ GoTo(r, "policy")
    /\ UNCHANGED <<world, users, tasks, log>>

--------------------------------------------------------------------------------
(* Steps 4 to 6: policy and confirmation, which may answer the message.    *)

\* policy.check_inbound(): commands are looked for first, then sensitive data.
Verdict(body) ==
    IF body \in STOP_WORDS \cup START_WORDS THEN "command"
    ELSE IF body \in SENSITIVE THEN "blocked" ELSE "allowed"

\* The verdict is logged, unless it lets the message pass.
CheckInbound(r) ==
    LET verdict == Verdict(handler[r].body) IN
    /\ Runs(r, "policy")
    /\ \/ /\ verdict = "command"
          /\ Log(r, "policy_command")
          /\ ReplyWith(r, "canned", "send")
       \/ /\ verdict = "blocked"
          /\ Log(r, "policy_blocked_inbound")
          /\ ReplyWith(r, "canned", "send")
       \/ /\ verdict = "allowed"
          /\ GoTo(r, "confirm")
          /\ UNCHANGED log
    /\ UNCHANGED <<world, users, turns, tasks>>

\* The word the resolver takes a body for.
Word(body) == IF body \in YES THEN "yes" ELSE IF body \in NO THEN "no" ELSE "other"

\* confirmation_resolver.resolve_inbound().  What it hands back, status and
\* reply, is kept as the reply.
ResolveConfirmation(r) ==
    /\ Runs(r, "confirm")
    /\ \E outcome \in Outcomes :
          /\ ResolveInbound(User(r), Word(handler[r].body), outcome)
          /\ IF outcome = "not_handled" THEN GoTo(r, "plan")
                                        ELSE ReplyWith(r, outcome, "resolved")
    /\ decided_by' = [c \in Ids |-> IF store'[c] # store[c] THEN r ELSE decided_by[c]]
    /\ UNCHANGED <<now, durable, memoryVars>>

\* A slip: the status is looked up again, where the index holds nothing any more.
LogResolvedFresh(r) ==
    LET c == GetPending(User(r)) IN
    /\ Runs(r, "resolved")
    /\ Log(r, IF c = None THEN "no_pending" ELSE store[c].status)
    /\ GoTo(r, "send")
    /\ UNCHANGED <<world, users, turns, tasks>>

LogResolved(r) ==
    /\ Runs(r, "resolved")
    /\ Log(r, handler[r].reply)
    /\ GoTo(r, "send")
    /\ UNCHANGED <<world, users, turns, tasks>>

--------------------------------------------------------------------------------
(* Steps 7 to 9: the plan and the task.                                    *)

\* The last of r's user's tasks as it is, in r's hands.
Last(r) == LET mine == tasks[User(r)] IN
           [slot |-> Len(mine), copy |-> mine[Len(mine)]]

Planned(r, plan) ==
    IF tasks[User(r)] = <<>>
    THEN [handler[r] EXCEPT !.pc = "create", !.plan = plan]
    ELSE [handler[r] EXCEPT !.pc = "update", !.plan = plan, !.held = Last(r)]

\* A slip: the call to Claude is awaited.
PlanAwaits(r) ==
    /\ Runs(r, "plan")
    /\ Log(r, "planner_run")
    /\ \E plan \in Plans : handler' = [handler EXCEPT ![r] = Planned(r, plan)]
    /\ loop' = None
    /\ UNCHANGED <<world, users, turns, tasks>>

\* list_active_tasks(), then planner.run(), which logs the run.  Whether there
\* is a task to update is decided on the list read here.
Plan(r) ==
    /\ Runs(r, "plan")
    /\ Log(r, "planner_run")
    /\ \E plan \in Plans : handler' = [handler EXCEPT ![r] = Planned(r, plan)]
    /\ loop' = r
    /\ UNCHANGED <<world, users, turns, tasks>>

\* What create_task() inserts: the goal alone.
NewTask == [known |-> {}, missing |-> {}]

Created(r) == [handler[r] EXCEPT !.pc = "fill",
                                 !.held = [slot |-> Len(tasks[User(r)]) + 1,
                                           copy |-> NewTask]]

\* A slip: create_task() is awaited.
CreateTaskAwaits(r) ==
    /\ Runs(r, "create")
    /\ tasks' = [tasks EXCEPT ![User(r)] = Append(@, NewTask)]
    /\ handler' = [handler EXCEPT ![r] = Created(r)]
    /\ loop' = None
    /\ UNCHANGED <<world, users, turns, log>>

\* create_task() inserts the task and returns it.
CreateTask(r) ==
    /\ Runs(r, "create")
    /\ tasks' = [tasks EXCEPT ![User(r)] = Append(@, NewTask)]
    /\ handler' = [handler EXCEPT ![r] = Created(r)]
    /\ loop' = r
    /\ UNCHANGED <<world, users, turns, log>>

\* _update_task(): known_fields are merged, missing_fields are the plan's.
Merge(task, plan) == [known |-> task.known \cup plan.known, missing |-> plan.missing]

\* The task just created, or active_tasks[-1] of step 7.  SQLite handed out a
\* copy, and stores the merged copy over whatever the row holds by now; in memory
\* the task in the handler's hands is the stored one.
UpdateTask(r) ==
    LET held == handler[r].held IN
    /\ Runs(r, "fill") \/ Runs(r, "update")
    /\ tasks' = [tasks EXCEPT ![User(r)][held.slot] =
                    Merge(IF durable THEN held.copy ELSE @, handler[r].plan)]
    /\ handler' = [handler EXCEPT ![r].pc = IF @ = "fill" THEN "created" ELSE "updated",
                                  ![r].held = None]
    /\ loop' = r
    /\ UNCHANGED <<world, users, turns, log>>

\* task_created or task_updated; then the first selected tool, if any.
LogTask(r) ==
    /\ \/ Runs(r, "created") /\ Log(r, "task_created")
       \/ Runs(r, "updated") /\ Log(r, "task_updated")
    /\ GoTo(r, IF handler[r].plan.tool = "none" THEN "check" ELSE "dispatch")
    /\ UNCHANGED <<world, users, turns, tasks>>

--------------------------------------------------------------------------------
(* Step 10: the tool.                                                      *)

Draft(r) == IF handler[r].plan.claims THEN "claim" ELSE "draft"

ToolAnswers(r) == ReplyWith(r, "tool", "executed")

\* A disabled tool, a missing argument or an exception: no text of the tool's
\* reaches the user, the plan's own draft does.
ToolFails(r) == ReplyWith(r, Draft(r), "executed")

\* dispatcher.dispatch(): the weather tool awaits Open-Meteo, the others answer
\* at once.
Dispatch(r) ==
    /\ Runs(r, "dispatch")
    /\ \/ handler[r].plan.tool = "sync" /\ ToolAnswers(r)
       \/ handler[r].plan.tool = "weather" /\ Yield(r, "geocode")
       \/ ToolFails(r)
    /\ UNCHANGED <<world, memoryVars>>

\* The geocoder answers: on to the forecast, or no such city, or a timeout.
Geocoded(r) ==
    /\ Runs(r, "geocode")
    /\ Yield(r, "forecast") \/ ToolFails(r)
    /\ UNCHANGED <<world, memoryVars>>

\* A slip: a forecast that fails is tried again from the start.
ForecastRetries(r) ==
    /\ Runs(r, "forecast")
    /\ ToolAnswers(r) \/ Yield(r, "geocode")
    /\ UNCHANGED <<world, memoryVars>>

\* The forecast, an HTTP error or a timeout.
Forecast(r) ==
    /\ Runs(r, "forecast")
    /\ ToolAnswers(r) \/ ToolFails(r)
    /\ UNCHANGED <<world, memoryVars>>

LogTool(r) ==
    /\ Runs(r, "executed")
    /\ Log(r, "tool_executed")
    /\ GoTo(r, "check")
    /\ UNCHANGED <<world, users, turns, tasks>>

--------------------------------------------------------------------------------
(* Steps 11 to 13: the reply.                                              *)

\* The tool's text, or the plan's draft where no tool ran.
RawReply(r) ==
    IF handler[r].plan.tool # "none" THEN handler[r].reply ELSE Draft(r)

\* policy.check_outbound() finds the claim of a booking.
Claims(reply) == reply = "claim"

\* composer.compose() puts the policy's rewrite in place of such a reply.
Compose(reply) == IF Claims(reply) THEN "rewritten" ELSE reply

\* A slip: only what a tool says is looked at.
CheckToolReply(r) ==
    LET drafted == handler[r].plan.tool = "none" IN
    /\ Runs(r, "check")
    /\ IF Claims(RawReply(r)) /\ ~drafted THEN Log(r, "policy_blocked_outbound")
                                         ELSE UNCHANGED log
    /\ ReplyWith(r, IF drafted THEN RawReply(r) ELSE Compose(RawReply(r)), "send")
    /\ UNCHANGED <<world, users, turns, tasks>>

\* The reply is checked, a claim logged, and the message composed.
CheckOutbound(r) ==
    /\ Runs(r, "check")
    /\ IF Claims(RawReply(r)) THEN Log(r, "policy_blocked_outbound") ELSE UNCHANGED log
    /\ ReplyWith(r, Compose(RawReply(r)), "send")
    /\ UNCHANGED <<world, users, turns, tasks>>

\* A slip: logged as sent, then written to the conversation.
LogThenAppend(r) ==
    /\ Runs(r, "send")
    /\ Log(r, "outbound_sms_sent")
    /\ GoTo(r, "sent")
    /\ UNCHANGED <<world, users, turns, tasks>>

\* memory.append_turn(); _send() does the same.
AppendOutbound(r) ==
    /\ Runs(r, "send")
    /\ AppendTurn(r, "luna")
    /\ GoTo(r, "sent")
    /\ UNCHANGED <<world, users, tasks, log>>

\* The runtime returns; the router awaits the channel's delivery.
LogOutbound(r) ==
    /\ Runs(r, "sent")
    /\ Log(r, "outbound_sms_sent")
    /\ handler' = [handler EXCEPT ![r].pc = "deliver", ![r].plan = None]
    /\ loop' = None
    /\ UNCHANGED <<world, users, turns, tasks>>

\* telnyx send_reply() posts the reply, or fails (Twilio and the simulator
\* answer in the HTTP response, which may be lost just so).
Deliver(r) ==
    /\ Runs(r, "deliver")
    /\ \E label \in {"done", "failed"} :
          handler' = [handler EXCEPT ![r] = Ending(r, label)]
    /\ loop' = None
    /\ UNCHANGED <<world, memoryVars>>

--------------------------------------------------------------------------------
(* What can happen to a handler, and around it.                            *)

\* The next step reads or writes the database.
UsesDatabase(r) ==
    /\ handler[r].pc \notin Ended \cup {"geocode", "forecast", "deliver", "confirm",
                                      "dispatch"}
    /\ handler[r].pc = "policy" => Verdict(handler[r].body) # "allowed"
    /\ handler[r].pc = "check" => Claims(RawReply(r))

\* SQLite raises (locked, disk full): no handler catches it.
Fail(r) ==
    /\ durable
    /\ handler[r] # None /\ loop \in {r, None} /\ UsesDatabase(r)
    /\ handler' = [handler EXCEPT ![r] = Ending(r, "failed")]
    /\ loop' = None
    /\ UNCHANGED <<world, memoryVars>>

\* The process dies and is started again.  What was in flight is gone, and
\* what is only in memory: confirmations, and everything without SQLite.
Restart ==
    /\ \E r \in Requests : handler[r] # None /\ handler[r].pc \notin Ended
    /\ handler' = [r \in Requests |->
                      IF handler[r] # None /\ handler[r].pc \notin Ended
                      THEN Ending(r, "lost") ELSE handler[r]]
    /\ loop' = None
    /\ store' = [c \in Ids |-> None]
    /\ user_pending' = [u \in Users |-> None]
    /\ decided_by' = [c \in Ids |-> None]
    /\ IF durable THEN UNCHANGED memoryVars
       ELSE /\ users' = {} /\ turns' = {} /\ log' = {}
            /\ tasks' = [u \in Users |-> <<>>]
    /\ UNCHANGED <<now, durable>>

\* Another part of Luna asks the user for a confirmation.
AskUser(u, c) ==
    /\ loop = None
    /\ Create(u, c)
    /\ UNCHANGED <<now, durable, memoryVars, handler, loop, decided_by>>

Tick ==
    /\ now < MaxTime
    /\ now' = now + 1
    /\ UNCHANGED <<store, user_pending, durable, memoryVars, handler, loop, decided_by>>

\* One step of r's handler.
Step(r) ==
    \/ Gateway(r) \/ LogInbound(r) \/ IdentifyUser(r) \/ LogIdentified(r)
    \/ AppendInbound(r) \/ CheckInbound(r) \/ ResolveConfirmation(r) \/ LogResolved(r)
    \/ Plan(r) \/ CreateTask(r) \/ UpdateTask(r) \/ LogTask(r)
    \/ Dispatch(r) \/ Geocoded(r) \/ Forecast(r) \/ LogTool(r)
    \/ CheckOutbound(r) \/ AppendOutbound(r) \/ LogOutbound(r) \/ Deliver(r)

Next ==
    \/ \E r \in Requests, u \in Users, body \in Bodies : Receive(r, u, body)
    \/ \E r \in Requests : Step(r) \/ Fail(r)
    \/ \E u \in Users, c \in Ids : AskUser(u, c)
    \/ Restart
    \/ Tick

Spec == Init /\ [][Next]_vars

\* The event loop runs what is ready; Open-Meteo and Telnyx answer or time out.
FairSpec == Spec /\ \A r \in Requests : WF_vars(Step(r))

--------------------------------------------------------------------------------
(* Safety                                                                  *)

(* Two messages of one user never both find the task list empty and        *)
(* create a task each: the list read at step 7 is still right at step 9,   *)
(* because nothing in between gives the loop up (runtime.py:82-106), and a *)
(* task whose handler crashed half-way is taken up by the next message.    *)
OneActiveTask == \A u \in Users : Len(tasks[u]) <= 1

(* No conversation turn and no task belongs to a user without a profile,   *)
(* wherever a crash or a database error cut a handler off; the tables have *)
(* no foreign keys to see to it (runtime.py:49-56, 96-100).                *)
ProfileFirst ==
    /\ \A r \in Requests : handler[r] # None =>
          (<<"user", r>> \in turns \/ <<"luna", r>> \in turns => User(r) \in users)
    /\ \A u \in Users : tasks[u] # <<>> => u \in users

(* What is on record about a message is always a prefix of its history,    *)
(* whatever cut it off: the reply is in the conversation before it is      *)
(* logged as sent, both are on record before the channel gets it, and      *)
(* neither without the message they answer (runtime.py:46-56, 139-151).    *)
Recorded(r) == handler[r] # None =>
    /\ handler[r].pc \in {"deliver", "done"} =>
          <<"outbound_sms_sent", r>> \in log \/ ~durable
    /\ <<"outbound_sms_sent", r>> \in log => <<"luna", r>> \in turns
    /\ <<"luna", r>> \in turns => <<"user", r>> \in turns
    /\ <<"user", r>> \in turns => <<"user_identified", r>> \in log
    /\ <<"user_identified", r>> \in log => <<"inbound_sms_received", r>> \in log
    /\ <<"inbound_sms_received", r>> \in log =>
          <<"internal_event_received", r>> \in log

AuditPrefix == \A r \in Requests : Recorded(r)

(* No reply that claims a booking reaches a channel, from the draft or in  *)
(* place of a tool that failed after the draft was made                    *)
(* (runtime.py:121-136).                                                   *)
NoClaimDelivered ==
    \A r \in Requests :
        handler[r] # None /\ handler[r].pc \in {"send", "sent", "deliver"} =>
            handler[r].reply \notin {"claim", None}

(* The record of a decision tells what was decided, and by whom: a         *)
(* confirmation has a status other than pending because of one message, a  *)
(* YES or a NO of its own user and no opt-out, that says what the status   *)
(* says; and the entry of that very message has that status, except        *)
(* between the two writes or when the second failed, with nothing of the   *)
(* answer on record after it (runtime.py:59-79).                           *)
DecidedBy(r, c) ==
    LET status == store[c].status IN
    /\ handler[r] # None /\ User(r) = store[c].user_id
    /\ handler[r].body \in (YES \cup NO) \ (STOP_WORDS \cup START_WORDS)
    /\ status \in {"confirmed", "expired"} \/ handler[r].body \in NO
    /\ status \in {"rejected", "expired"} \/ handler[r].body \in YES
    /\ \/ <<status, r>> \in log
       \/ handler[r].pc = "resolved" /\ handler[r].reply = status
       \/ handler[r].pc = "failed" /\ <<"luna", r>> \notin turns

DecisionsAccounted ==
    \A c \in Ids :
        store[c] # None /\ store[c].status # "pending" =>
            /\ decided_by[c] # None
            /\ DecidedBy(decided_by[c], c)

\* What active_tasks[-1] of a user knows.
Facts(u) == IF tasks[u] = <<>> THEN None ELSE tasks[u][Len(tasks[u])].known

(* The runtime keeps to the Memory that Backends is shown to implement:    *)
(* whatever interleaves or fails, a task is only begun for a known user    *)
(* without one, it only gains fields, and what a restart loses it loses    *)
(* whole, tasks with the profiles they belong to (runtime.py:49-101).      *)
Store == INSTANCE Memory WITH
            profiles <- users,
            facts    <- [u \in Users |-> Facts(u)]

MemorySpec == Store!Spec

(* Liveness: every message is answered, unless the process dies, the data- *)
(* base fails or the channel does; no handler waits for the loop for ever. *)
EveryMessageEnds ==
    \A r \in Requests :
        (handler[r] # None) ~> (handler[r] # None /\ handler[r].pc \in Ended)

--------------------------------------------------------------------------------
(* What the documentation says and the code does not do                    *)

Answered(r) == <<"outbound_sms_sent", r>> \in log

(* resolver.py:15, "NO with a valid or expired pending: status=rejected",  *)
(* where "cancel" is one of the NO words (resolver.py:25).  The policy     *)
(* takes it for STOP first: the question stays open.                       *)
CancelRejects ==
    [][\A r \in Requests :
          ~Answered(r) /\ Answered(r)' /\ handler[r].body \in NO
              => user_pending[User(r)] = None]_vars

(* safety/__init__.py:14, "STOP command -> immediate opt-out, single TCPA  *)
(* confirmation, no further messages".  STOP is answered and not recorded. *)
NothingAfterStop ==
    [][\A r, s \in Requests :
          /\ Answered(r) /\ handler[r].body = "stop"
          /\ ~Answered(s) /\ Answered(s)'
          /\ User(s) = User(r)
          => handler[s].body \in START_WORDS]_vars
================================================================================
