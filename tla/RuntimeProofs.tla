------------------------------ MODULE RuntimeProofs ------------------------------
(***************************************************************************)
(* Proofs about Runtime, for any users, requests, bodies and plans.        *)
(*                                                                         *)
(* The argument: a handler that is not waiting has the event loop          *)
(* (LoopHeld), so what it read at one step still holds at the next         *)
(* (TaskHere), and what it wrote is known from where it is (Trace).        *)
(***************************************************************************)
EXTENDS Runtime, ConfirmationStoreProofs

\* r has a handler at one of the labels.
At(r, labels) == handler[r] # None /\ handler[r].pc \in labels

\* Exactly the handler that is neither waiting nor over has the loop.
LoopHeld ==
    \A r \in Requests : loop = r <=> At(r, Labels \ (Awaiting \cup Ended))

\* From the plan to the reply a handler has a plan; a tool runs only if the
\* plan has one; once decided the reply is there, and claims nothing.
ToolLabels == {"dispatch", "geocode", "forecast", "executed"}
HasPlan ==
    \A r \in Requests :
        /\ At(r, {"create", "fill", "update", "created", "updated", "check"} \cup ToolLabels)
             => handler[r].plan # None
        /\ At(r, ToolLabels) => handler[r].plan.tool # "none"
        /\ At(r, {"executed"}) => handler[r].reply # None
        /\ At(r, {"check"}) => \/ handler[r].plan.tool = "none"
                               \/ handler[r].reply # None
        /\ At(r, {"resolved"}) => handler[r].reply \in Resolutions

\* The list the planner was given is the list there is, and the task in the
\* handler's hands is the one that is stored.
TaskHere ==
    \A r \in Requests :
        /\ At(r, {"create"}) => tasks[User(r)] = <<>>
        /\ At(r, {"fill", "update"}) => /\ tasks[User(r)] # <<>>
                                       /\ handler[r].held = Last(r)

\* The labels a live handler can be at before it has done one of the steps.
Fresh  == Ended \cup {"gateway"}
Seen   == Fresh \cup {"inbound"}
Logged == Seen \cup {"identify"}
Known  == Logged \cup {"identified"}
Heard  == Known \cup {"turn"}

\* What a handler has written, by where it is; a request that has not arrived
\* has written nothing.
TraceOf(r) ==
    /\ At(r, Labels \ Fresh)  => <<"internal_event_received", r>> \in log
    /\ At(r, Labels \ Seen)   => <<"inbound_sms_received", r>> \in log
    /\ At(r, Labels \ Logged) => User(r) \in users
    /\ At(r, Labels \ Known)  => <<"user_identified", r>> \in log
    /\ At(r, Labels \ Heard)  => <<"user", r>> \in turns
    /\ At(r, {"sent", "deliver"}) => <<"luna", r>> \in turns
    /\ At(r, {"deliver"}) => <<"outbound_sms_sent", r>> \in log
    /\ At(r, Labels \ ({"sent", "deliver"} \cup Ended)) => <<"luna", r>> \notin turns
    /\ handler[r] = None => /\ \A role \in {"user", "luna"} : <<role, r>> \notin turns
                            /\ \A event \in EventTypes : <<event, r>> \notin log

Trace == \A r \in Requests : TraceOf(r)

\* ProfileFirst for the turns of one message, for the tasks of one user.
TurnsOf(r) ==
    handler[r] # None =>
        (<<"user", r>> \in turns \/ <<"luna", r>> \in turns => User(r) \in users)
TasksOf(u) == tasks[u] # <<>> => u \in users

Inv ==
    /\ TypeOK /\ IndexSound
    /\ LoopHeld /\ HasPlan /\ TaskHere /\ Trace
    /\ OneActiveTask /\ ProfileFirst /\ AuditPrefix /\ NoClaimDelivered

--------------------------------------------------------------------------------
(* How handlers move                                                       *)

\* r's handler moves to label, with this plan and this reply from now on.
Moved(r, label, plan, reply) ==
    /\ handler' \in [Requests -> Handlers \cup {None}]
    /\ handler'[r] # None
    /\ handler'[r].pc = label
    /\ handler'[r].user = handler[r].user /\ handler'[r].body = handler[r].body
    /\ handler'[r].plan = plan /\ handler'[r].reply = reply
    /\ \A s \in Requests : s # r => handler'[s] = handler[s]

\* ... with the plan and the reply it has.
MovedOn(r, label) == Moved(r, label, handler[r].plan, handler[r].reply)

\* A handler that is replaced by another of the same message moves.
LEMMA Moves ==
    ASSUME TypeOK, NEW r \in Requests, handler[r] # None, NEW h \in Handlers,
           handler' = [handler EXCEPT ![r] = h],
           h.user = handler[r].user, h.body = handler[r].body
    PROVE  Moved(r, h.pc, h.plan, h.reply)
BY NoneIsNoHandler DEF TypeOK, Moved

LEMMA GoToMoves ==
    ASSUME TypeOK, NEW r \in Requests, handler[r] # None, NEW label \in Labels,
           GoTo(r, label) \/ Yield(r, label)
    PROVE  MovedOn(r, label)
<1> DEFINE h == [handler[r] EXCEPT !.pc = label]
<1>1. handler[r] \in Handlers
  BY DEF TypeOK
<1>2. h \in Handlers /\ h.user = handler[r].user /\ h.body = handler[r].body
      /\ h.pc = label /\ h.plan = handler[r].plan /\ h.reply = handler[r].reply
  BY <1>1 DEF Handlers
<1>3. handler' = [handler EXCEPT ![r] = h]
  BY <1>1 DEF GoTo, Yield, TypeOK
<1> HIDE DEF h
<1> QED BY <1>2, <1>3, Moves DEF MovedOn

LEMMA ReplyMoves ==
    ASSUME TypeOK, NEW r \in Requests, handler[r] # None, NEW label \in Labels,
           NEW reply \in Replies, ReplyWith(r, reply, label)
    PROVE  Moved(r, label, handler[r].plan, reply)
<1> DEFINE h == [handler[r] EXCEPT !.pc = label, !.reply = reply]
<1>1. handler[r] \in Handlers
  BY DEF TypeOK
<1>2. h \in Handlers /\ h.user = handler[r].user /\ h.body = handler[r].body
      /\ h.pc = label /\ h.plan = handler[r].plan /\ h.reply = reply
  BY <1>1 DEF Handlers
<1>3. handler' = [handler EXCEPT ![r] = h]
  BY <1>1 DEF ReplyWith, TypeOK
<1> HIDE DEF h
<1> QED BY <1>2, <1>3, Moves

LEMMA EndMoves ==
    ASSUME TypeOK, NEW r \in Requests, handler[r] # None, NEW label \in Ended,
           handler' = [handler EXCEPT ![r] = Ending(r, label)]
    PROVE  Moved(r, label, None, None)
<1>1. handler[r] \in Handlers
  BY DEF TypeOK
<1>2. Ending(r, label) \in Handlers /\ Ending(r, label).user = handler[r].user
      /\ Ending(r, label).body = handler[r].body /\ Ending(r, label).pc = label
      /\ Ending(r, label).plan = None /\ Ending(r, label).reply = None
  BY <1>1 DEF Handlers, Ending, Ended, Labels
<1> QED BY <1>2, Moves

\* Only r's handler changes, and it has the loop afterwards unless it waits.
MovedAlone(r) ==
    /\ handler' \in [Requests -> Handlers \cup {None}]
    /\ handler'[r] # None
    /\ \A s \in Requests : s # r => handler'[s] = handler[s]
    /\ loop' = IF handler'[r].pc \in Awaiting \cup Ended THEN None ELSE r

LEMMA MovedKeepsLoop ==
    ASSUME Inv, NEW r \in Requests, loop \in {r, None}, MovedAlone(r)
    PROVE  LoopHeld' /\ loop' \in Requests \cup {None}
<1>1. handler'[r] \in Handlers
  BY DEF MovedAlone
<1> QED BY <1>1, RequestsAssumption DEF Inv, TypeOK, LoopHeld, At, MovedAlone, Handlers

LEMMA WorldKeeps ==
    ASSUME Inv, UNCHANGED world
    PROVE  StoreTypeOK' /\ IndexSound' /\ durable' \in BOOLEAN
BY DEF Inv, TypeOK, StoreTypeOK, IndexSound, world

\* Nobody else is between reading the task list and writing the task.
LEMMA Alone ==
    ASSUME Inv, NEW r \in Requests, loop \in {r, None}, NEW s \in Requests, s # r
    PROVE  ~At(s, {"create", "fill", "update"})
BY RequestsAssumption DEF Inv, LoopHeld, At, Labels, Awaiting, Ended

--------------------------------------------------------------------------------
(* Where each step takes the handler.                                      *)

LEMMA IntakeMoves ==
    ASSUME TypeOK, NEW r \in Requests
    PROVE  /\ Gateway(r)       => handler[r] # None /\ MovedOn(r, "inbound")    /\ loop' = r
           /\ LogInbound(r)    => handler[r] # None /\ MovedOn(r, "identify")   /\ loop' = r
           /\ IdentifyUser(r)  => handler[r] # None /\ MovedOn(r, "identified") /\ loop' = r
           /\ LogIdentified(r) => handler[r] # None /\ MovedOn(r, "turn")       /\ loop' = r
           /\ AppendInbound(r) => handler[r] # None /\ MovedOn(r, "policy")     /\ loop' = r
<1>1. ASSUME handler[r] # None,
             NEW label \in {"inbound", "identify", "identified", "turn", "policy"},
             GoTo(r, label)
      PROVE  MovedOn(r, label) /\ loop' = r
  BY <1>1, GoToMoves DEF GoTo, Labels
<1> QED BY <1>1 DEF Gateway, LogInbound, IdentifyUser, LogIdentified, AppendInbound, Runs

LEMMA AnswerMoves ==
    ASSUME TypeOK, NEW r \in Requests
    PROVE  /\ CheckInbound(r) =>
                 /\ handler[r] # None /\ loop' = r
                 /\ \/ Moved(r, "send", handler[r].plan, "canned")
                    \/ MovedOn(r, "confirm") /\ log' = log
           /\ ResolveConfirmation(r) =>
                 /\ handler[r] # None /\ loop' = r
                 /\ \/ \E outcome \in Resolutions :
                          Moved(r, "resolved", handler[r].plan, outcome)
                    \/ MovedOn(r, "plan")
           /\ LogResolved(r) => handler[r] # None /\ MovedOn(r, "send") /\ loop' = r
<1>1. ASSUME handler[r] # None, NEW label \in {"confirm", "plan", "send"}, GoTo(r, label)
      PROVE  MovedOn(r, label) /\ loop' = r
  BY <1>1, GoToMoves DEF GoTo, Labels
<1>2. ASSUME handler[r] # None, NEW label \in {"send", "resolved"},
             NEW reply \in Resolutions \cup {"canned"}, ReplyWith(r, reply, label)
      PROVE  Moved(r, label, handler[r].plan, reply) /\ loop' = r
  BY <1>2, ReplyMoves DEF ReplyWith, Labels, Replies
<1>3. \A outcome \in Outcomes : outcome = "not_handled" \/ outcome \in Resolutions
  BY DEF Outcomes, Resolutions
<1> QED BY <1>1, <1>2, <1>3 DEF CheckInbound, ResolveConfirmation, LogResolved, Runs

\* The last task of a list that has one.
LEMMA LastType ==
    ASSUME TypeOK, NEW r \in Requests, handler[r] # None, tasks[User(r)] # <<>>
    PROVE  Last(r) \in HeldTasks /\ Last(r).slot = Len(tasks[User(r)])
           /\ Last(r).copy = tasks[User(r)][Len(tasks[User(r)])]
<1> DEFINE mine == tasks[User(r)]
<1>1. mine \in Seq(TravelTasks) /\ mine # <<>>
  BY DEF TypeOK, User, Handlers
<1> HIDE DEF mine
<1>2. Len(mine) \in Nat \ {0} /\ mine[Len(mine)] \in TravelTasks
  BY <1>1
<1>3. Last(r) = [slot |-> Len(mine), copy |-> mine[Len(mine)]]
  BY DEF Last, mine
<1> QED BY <1>2, <1>3 DEF HeldTasks, mine

LEMMA TaskMoves ==
    ASSUME TypeOK, NEW r \in Requests
    PROVE  /\ Plan(r) =>
                 /\ handler[r] # None /\ loop' = r
                 /\ tasks[User(r)] # <<>> => handler'[r].held = Last(r)
                 /\ \E plan \in Plans :
                       Moved(r, IF tasks[User(r)] = <<>> THEN "create" ELSE "update",
                             plan, handler[r].reply)
           /\ CreateTask(r) =>
                 /\ handler[r] # None /\ MovedOn(r, "fill") /\ loop' = r
                 /\ handler'[r].held =
                       [slot |-> Len(tasks[User(r)]) + 1, copy |-> NewTask]
           /\ UpdateTask(r) =>
                 /\ handler[r] # None /\ loop' = r
                 /\ MovedOn(r, IF handler[r].pc = "fill" THEN "created" ELSE "updated")
           /\ LogTask(r) =>
                 /\ handler[r] # None /\ loop' = r
                 /\ MovedOn(r, IF handler[r].plan.tool = "none" THEN "check" ELSE "dispatch")
<1>1. ASSUME handler[r] # None, NEW label \in {"check", "dispatch"}, GoTo(r, label)
      PROVE  MovedOn(r, label) /\ loop' = r
  BY <1>1, GoToMoves DEF GoTo, Labels
<1>2. ASSUME Plan(r)
      PROVE  /\ handler[r] # None /\ loop' = r
             /\ tasks[User(r)] # <<>> => handler'[r].held = Last(r)
             /\ \E plan \in Plans :
                   Moved(r, IF tasks[User(r)] = <<>> THEN "create" ELSE "update",
                         plan, handler[r].reply)
  <2>1. handler[r] # None /\ loop' = r /\ handler[r] \in Handlers
    BY <1>2 DEF Plan, Runs, TypeOK
  <2>2. PICK plan \in Plans : handler' = [handler EXCEPT ![r] = Planned(r, plan)]
    BY <1>2 DEF Plan
  <2>3. /\ Planned(r, plan) \in Handlers /\ Planned(r, plan).user = handler[r].user
        /\ Planned(r, plan).body = handler[r].body /\ Planned(r, plan).plan = plan
        /\ Planned(r, plan).reply = handler[r].reply
        /\ Planned(r, plan).pc = IF tasks[User(r)] = <<>> THEN "create" ELSE "update"
        /\ tasks[User(r)] # <<>> => Planned(r, plan).held = Last(r)
    <3>1. CASE tasks[User(r)] = <<>>
      BY <2>1, <3>1 DEF Planned, Handlers, Labels
    <3>2. CASE tasks[User(r)] # <<>>
      BY <2>1, <3>2, LastType DEF Planned, Handlers, Labels
    <3> QED BY <3>1, <3>2
  <2>4. handler'[r] = Planned(r, plan)
    BY <2>2 DEF TypeOK
  <2> QED BY <2>1, <2>2, <2>3, <2>4, Moves
<1>3. ASSUME CreateTask(r)
      PROVE  /\ handler[r] # None /\ MovedOn(r, "fill") /\ loop' = r
             /\ handler'[r].held = [slot |-> Len(tasks[User(r)]) + 1, copy |-> NewTask]
  <2> DEFINE held == [slot |-> Len(tasks[User(r)]) + 1, copy |-> NewTask]
  <2>1. /\ handler[r] # None /\ loop' = r /\ handler[r] \in Handlers
        /\ handler' = [handler EXCEPT ![r] = Created(r)]
    BY <1>3 DEF CreateTask, Runs, TypeOK
  <2>2. held \in HeldTasks
    <3>1. Len(tasks[User(r)]) \in Nat
      BY <2>1 DEF TypeOK, User, Handlers
    <3> QED BY <3>1 DEF HeldTasks, NewTask, TravelTasks
  <2>3. Created(r) = [handler[r] EXCEPT !.pc = "fill", !.held = held]
    BY DEF Created
  <2> HIDE DEF held
  <2>4. /\ Created(r) \in Handlers /\ Created(r).user = handler[r].user
        /\ Created(r).body = handler[r].body /\ Created(r).plan = handler[r].plan
        /\ Created(r).reply = handler[r].reply /\ Created(r).pc = "fill"
        /\ Created(r).held = held
    BY <2>1, <2>2, <2>3 DEF Handlers, Labels
  <2>5. handler'[r] = Created(r)
    BY <2>1 DEF TypeOK
  <2>6. MovedOn(r, "fill")
    BY <2>1, <2>4, Moves DEF MovedOn
  <2> QED BY <2>1, <2>4, <2>5, <2>6 DEF held
<1>4. ASSUME UpdateTask(r)
      PROVE  /\ handler[r] # None /\ loop' = r
             /\ MovedOn(r, IF handler[r].pc = "fill" THEN "created" ELSE "updated")
  <2> DEFINE label == IF handler[r].pc = "fill" THEN "created" ELSE "updated"
             h == [handler[r] EXCEPT !.pc = label, !.held = None]
  <2>1. handler[r] # None /\ loop' = r /\ handler[r] \in Handlers
    BY <1>4 DEF UpdateTask, Runs, TypeOK
  <2>2. /\ h \in Handlers /\ h.user = handler[r].user /\ h.body = handler[r].body
        /\ h.pc = label /\ h.plan = handler[r].plan /\ h.reply = handler[r].reply
    BY <2>1 DEF Handlers, Labels
  <2>3. handler' = [handler EXCEPT ![r] = h]
    BY <1>4, <2>1 DEF UpdateTask, TypeOK, Handlers
  <2> HIDE DEF h
  <2> QED BY <2>1, <2>2, <2>3, Moves DEF MovedOn
<1> QED BY <1>1, <1>2, <1>3, <1>4 DEF LogTask, Runs

LEMMA ToolMoves ==
    ASSUME TypeOK, NEW r \in Requests
    PROVE  /\ Dispatch(r) \/ Geocoded(r) \/ Forecast(r) =>
                 /\ handler[r] # None
                 /\ \/ \E label \in {"geocode", "forecast"} :
                          MovedOn(r, label) /\ loop' = None
                    \/ \E reply \in {"tool", "claim", "draft"} :
                          Moved(r, "executed", handler[r].plan, reply) /\ loop' = r
           /\ LogTool(r) => handler[r] # None /\ MovedOn(r, "check") /\ loop' = r
<1>1. ASSUME handler[r] # None, NEW label \in {"geocode", "forecast", "check"},
             GoTo(r, label) \/ Yield(r, label)
      PROVE  MovedOn(r, label)
  BY <1>1, GoToMoves DEF Labels
<1>2. ASSUME handler[r] # None, NEW reply \in {"tool", "claim", "draft"},
             ReplyWith(r, reply, "executed")
      PROVE  Moved(r, "executed", handler[r].plan, reply) /\ loop' = r
  BY <1>2, ReplyMoves DEF ReplyWith, Labels, Replies
<1>3. handler[r] # None /\ (ToolAnswers(r) \/ ToolFails(r)) =>
          \E reply \in {"tool", "claim", "draft"} :
              Moved(r, "executed", handler[r].plan, reply) /\ loop' = r
  BY <1>2 DEF ToolAnswers, ToolFails, Draft
<1> QED BY <1>1, <1>3 DEF Dispatch, Geocoded, Forecast, LogTool, Runs, GoTo, Yield

LEMMA ReplyingMoves ==
    ASSUME TypeOK, HasPlan, NEW r \in Requests
    PROVE  /\ CheckOutbound(r) =>
                 /\ handler[r] # None /\ loop' = r
                 /\ \E reply \in Replies \ {"claim"} :
                       Moved(r, "send", handler[r].plan, reply)
           /\ AppendOutbound(r) => handler[r] # None /\ MovedOn(r, "sent") /\ loop' = r
           /\ LogOutbound(r) =>
                 /\ handler[r] # None /\ loop' = None
                 /\ Moved(r, "deliver", None, handler[r].reply)
           /\ Deliver(r) =>
                 /\ handler[r] # None /\ loop' = None
                 /\ \E label \in {"done", "failed"} : Moved(r, label, None, None)
<1>1. ASSUME CheckOutbound(r)
      PROVE  /\ handler[r] # None /\ loop' = r
             /\ \E reply \in Replies \ {"claim"} :
                   Moved(r, "send", handler[r].plan, reply)
  <2>1. handler[r] # None /\ handler[r] \in Handlers /\ handler[r].pc = "check"
    BY <1>1 DEF CheckOutbound, Runs, TypeOK
  <2>2. RawReply(r) \in Replies
    BY <2>1 DEF HasPlan, At, RawReply, Draft, Handlers, Replies
  <2>3. \E reply \in Replies \ {"claim"} : ReplyWith(r, reply, "send")
    BY <1>1, <2>2 DEF CheckOutbound, Compose, Claims, Replies
  <2> QED BY <2>1, <2>3, ReplyMoves DEF ReplyWith, Labels
<1>2. ASSUME AppendOutbound(r) PROVE handler[r] # None /\ MovedOn(r, "sent") /\ loop' = r
  BY <1>2, GoToMoves DEF AppendOutbound, Runs, GoTo, Labels
<1>3. ASSUME LogOutbound(r)
      PROVE  /\ handler[r] # None /\ loop' = None
             /\ Moved(r, "deliver", None, handler[r].reply)
  <2> DEFINE h == [handler[r] EXCEPT !.pc = "deliver", !.plan = None]
  <2>1. handler[r] # None /\ loop' = None /\ handler[r] \in Handlers
    BY <1>3 DEF LogOutbound, Runs, TypeOK
  <2>2. /\ h \in Handlers /\ h.user = handler[r].user /\ h.body = handler[r].body
        /\ h.pc = "deliver" /\ h.plan = None /\ h.reply = handler[r].reply
    BY <2>1 DEF Handlers, Labels
  <2>3. handler' = [handler EXCEPT ![r] = h]
    BY <1>3, <2>1 DEF LogOutbound, TypeOK
  <2> HIDE DEF h
  <2> QED BY <2>1, <2>2, <2>3, Moves
<1>4. ASSUME Deliver(r)
      PROVE  /\ handler[r] # None /\ loop' = None
             /\ \E label \in {"done", "failed"} : Moved(r, label, None, None)
  <2>1. handler[r] # None /\ loop' = None
    BY <1>4 DEF Deliver, Runs
  <2>2. PICK label \in {"done", "failed"} :
            handler' = [handler EXCEPT ![r] = Ending(r, label)]
    BY <1>4 DEF Deliver
  <2> QED BY <2>1, <2>2, EndMoves DEF Ended
<1> QED BY <1>1, <1>2, <1>3, <1>4

--------------------------------------------------------------------------------
(* What one step of a handler keeps: one lemma per part of Inv.            *)

LEMMA StepMovesAlone ==
    ASSUME Inv, NEW r \in Requests, Step(r)
    PROVE  MovedAlone(r)
<1>0. TypeOK /\ HasPlan
  BY DEF Inv
<1> USE DEF MovedAlone, MovedOn, Moved, Awaiting, Ended
<1>1. CASE Gateway(r) \/ LogInbound(r) \/ IdentifyUser(r) \/ LogIdentified(r)
           \/ AppendInbound(r)
  BY <1>0, <1>1, IntakeMoves
<1>2. CASE CheckInbound(r) \/ ResolveConfirmation(r) \/ LogResolved(r)
  BY <1>0, <1>2, AnswerMoves
<1>3. CASE Plan(r) \/ CreateTask(r) \/ UpdateTask(r) \/ LogTask(r)
  BY <1>0, <1>3, TaskMoves
<1>4. CASE Dispatch(r) \/ Geocoded(r) \/ Forecast(r) \/ LogTool(r)
  BY <1>0, <1>4, ToolMoves
<1>5. CASE CheckOutbound(r) \/ AppendOutbound(r) \/ LogOutbound(r) \/ Deliver(r)
  BY <1>0, <1>5, ReplyingMoves
<1> QED BY <1>1, <1>2, <1>3, <1>4, <1>5 DEF Step

LEMMA StepKeepsLoop ==
    ASSUME Inv, NEW r \in Requests, Step(r)
    PROVE  /\ LoopHeld' /\ loop' \in Requests \cup {None}
           /\ handler' \in [Requests -> Handlers \cup {None}]
<1>1. loop \in {r, None}
  BY DEF Step, Gateway, LogInbound, IdentifyUser, LogIdentified, AppendInbound,
     CheckInbound, ResolveConfirmation, LogResolved, Plan, CreateTask, UpdateTask, LogTask,
     Dispatch, Geocoded, Forecast, LogTool, CheckOutbound, AppendOutbound, LogOutbound,
     Deliver, Runs
<1> QED BY <1>1, StepMovesAlone, MovedKeepsLoop DEF MovedAlone

\* Merging a plan's fields into the task at hand is merging them into the last
\* one there is: the list stays a list of tasks, no shorter and no longer.
LEMMA UpdateTaskList ==
    ASSUME TypeOK, HasPlan, TaskHere, NEW r \in Requests, UpdateTask(r)
    PROVE  LET u == User(r) IN
           /\ u \in Users /\ tasks[u] # <<>>
           /\ tasks'[u] \in Seq(TravelTasks) /\ Len(tasks'[u]) = Len(tasks[u])
           /\ handler[r].plan \in Plans
           /\ tasks'[u][Len(tasks'[u])] = Merge(tasks[u][Len(tasks[u])], handler[r].plan)
           /\ \A v \in Users : v # u => tasks'[v] = tasks[v]
           /\ tasks' \in [Users -> Seq(TravelTasks)]
<1> DEFINE u == User(r)
           n == Len(tasks[u])
           t == Merge(tasks[u][n], handler[r].plan)
<1>1. /\ handler[r] \in Handlers /\ handler[r] # None /\ At(r, {"fill", "update"})
      /\ u \in Users
  BY DEF UpdateTask, Runs, TypeOK, At, User, Handlers
<1>2. handler[r].plan \in Plans
  BY <1>1 DEF HasPlan, At, Handlers
<1>3. tasks[u] # <<>> /\ tasks[u] \in Seq(TravelTasks) /\ n \in Nat \ {0}
  BY <1>1 DEF TaskHere, TypeOK
<1>4. tasks[u][n] \in TravelTasks
  BY <1>3
<1>5. t \in TravelTasks
  BY <1>2, <1>4, PlansAssumption DEF Merge, TravelTasks, PlannerOutputs
<1>6. tasks' = [tasks EXCEPT ![u] = [tasks[u] EXCEPT ![n] = t]]
  <2>1. handler[r].held.slot = n /\ handler[r].held.copy = tasks[u][n]
    BY <1>1, <1>3, LastType DEF TaskHere
  <2>2. tasks' = [tasks EXCEPT ![u] = [tasks[u] EXCEPT ![n] =
                     Merge(IF durable THEN tasks[u][n] ELSE tasks[u][n], handler[r].plan)]]
    BY <1>1, <1>3, <2>1 DEF UpdateTask, TypeOK
  <2> QED BY <2>2
<1> HIDE DEF t
<1>7. /\ [tasks[u] EXCEPT ![n] = t] \in Seq(TravelTasks)
      /\ Len([tasks[u] EXCEPT ![n] = t]) = n
      /\ [tasks[u] EXCEPT ![n] = t][n] = t
  BY <1>3, <1>5
<1>8. tasks'[u][Len(tasks'[u])] = t
  BY <1>1, <1>6, <1>7 DEF TypeOK
<1>9. tasks'[u][Len(tasks'[u])] = Merge(tasks[u][Len(tasks[u])], handler[r].plan)
  BY <1>8 DEF t
<1> QED BY <1>1, <1>2, <1>3, <1>5, <1>6, <1>7, <1>9 DEF TypeOK

LEMMA CreateTaskList ==
    ASSUME TypeOK, TaskHere, NEW r \in Requests, CreateTask(r)
    PROVE  /\ User(r) \in Users /\ tasks[User(r)] = <<>>
           /\ Len(tasks'[User(r)]) <= 1 /\ tasks'[User(r)] # <<>>
           /\ tasks'[User(r)] = <<NewTask>>
           /\ \A v \in Users : v # User(r) => tasks'[v] = tasks[v]
           /\ tasks' \in [Users -> Seq(TravelTasks)]
<1> DEFINE u == User(r)
           t == NewTask
<1>1. /\ handler[r] \in Handlers /\ handler[r] # None /\ At(r, {"create"})
      /\ u \in Users
  BY DEF CreateTask, Runs, TypeOK, At, User, Handlers
<1>2. tasks[u] = <<>> /\ t \in TravelTasks
  BY <1>1 DEF TaskHere, TravelTasks, NewTask
<1>3. tasks' = [tasks EXCEPT ![u] = <<t>>]
  BY <1>1, <1>2 DEF CreateTask, TypeOK
<1> HIDE DEF t
<1>4. <<t>> \in Seq(TravelTasks) /\ Len(<<t>>) = 1 /\ <<t>> # <<>>
  BY <1>2
<1>5. tasks'[u] = <<t>> /\ \A v \in Users : v # u => tasks'[v] = tasks[v]
  BY <1>1, <1>3 DEF TypeOK
<1>6. tasks'[u] = <<NewTask>>
  BY <1>5 DEF t
<1> QED BY <1>1, <1>2, <1>3, <1>4, <1>5, <1>6 DEF TypeOK

\* What a step logs is an event of a known type; what the resolver said is one.
LEMMA StepLogs ==
    ASSUME Inv, NEW r \in Requests, Step(r)
    PROVE  log' = log \/ \E event \in EventTypes : Log(r, event)
<1>1. CASE LogResolved(r)
  <2>1. handler[r].reply \in Resolutions
    BY <1>1 DEF LogResolved, Runs, Inv, HasPlan, At
  <2> QED BY <1>1, <2>1 DEF LogResolved, EventTypes
<1>2. CASE ~LogResolved(r)
  BY <1>2 DEF Step, Gateway, LogInbound, IdentifyUser, LogIdentified, AppendInbound,
     CheckInbound, ResolveConfirmation, Plan, CreateTask, UpdateTask, LogTask,
     Dispatch, Geocoded, Forecast, LogTool, CheckOutbound, AppendOutbound, LogOutbound,
     Deliver, EventTypes, memoryVars
<1> QED BY <1>1, <1>2

LEMMA StepKeepsTypes ==
    ASSUME Inv, NEW r \in Requests, Step(r)
    PROVE  TypeOK' /\ IndexSound'
<1>1. /\ loop' \in Requests \cup {None}
      /\ handler' \in [Requests -> Handlers \cup {None}]
  BY StepKeepsLoop
<1>2. users' \subseteq Users
  BY DEF Inv, TypeOK, Step, Gateway, LogInbound, IdentifyUser, LogIdentified, AppendInbound,
     CheckInbound, ResolveConfirmation, LogResolved, Plan, CreateTask, UpdateTask, LogTask,
     Dispatch, Geocoded, Forecast, LogTool, CheckOutbound, AppendOutbound, LogOutbound,
     Deliver, Runs, User, Handlers, memoryVars
<1>3. turns' \subseteq {"user", "luna"} \X Requests
  BY DEF Inv, TypeOK, Step, Gateway, LogInbound, IdentifyUser, LogIdentified, AppendInbound,
     CheckInbound, ResolveConfirmation, LogResolved, Plan, CreateTask, UpdateTask, LogTask,
     Dispatch, Geocoded, Forecast, LogTool, CheckOutbound, AppendOutbound, LogOutbound,
     Deliver, AppendTurn, memoryVars
<1>4. log' \subseteq EventTypes \X Requests
  BY StepLogs DEF Inv, TypeOK, Log
<1>5. tasks' \in [Users -> Seq(TravelTasks)]
  <2>1. CASE CreateTask(r)
    BY <2>1, CreateTaskList DEF Inv
  <2>2. CASE UpdateTask(r)
    BY <2>2, UpdateTaskList DEF Inv
  <2>3. CASE UNCHANGED tasks
    BY <2>3 DEF Inv, TypeOK
  <2> QED BY <2>1, <2>2, <2>3 DEF Step, Gateway, LogInbound, IdentifyUser, LogIdentified,
             AppendInbound, CheckInbound, ResolveConfirmation, LogResolved, Plan, LogTask,
             Dispatch, Geocoded, Forecast, LogTool, CheckOutbound, AppendOutbound,
             LogOutbound, Deliver, memoryVars
<1>6. StoreTypeOK' /\ IndexSound' /\ durable' \in BOOLEAN
  <2>1. CASE ResolveConfirmation(r)
    <3>1. handler[r] \in Handlers /\ User(r) \in Users
      BY <2>1 DEF ResolveConfirmation, Runs, Inv, TypeOK, User, Handlers
    <3>2. /\ now' = now /\ durable' = durable
          /\ \E outcome \in Outcomes :
                ResolveInbound(User(r), Word(handler[r].body), outcome)
      BY <2>1 DEF ResolveConfirmation
    <3>3. PICK outcome \in Outcomes : ResolveInbound(User(r), Word(handler[r].body), outcome)
      BY <3>2
    <3>4. CASE UNCHANGED storeVars
      BY <3>2, <3>4 DEF Inv, TypeOK, storeVars, StoreTypeOK, IndexSound
    <3>5. CASE /\ user_pending[User(r)] \in Ids
               /\ outcome \in {"confirmed", "rejected", "expired"}
               /\ Resolve(user_pending[User(r)], outcome)
      <4>1. now' \in Nat
        BY <3>2 DEF Inv, TypeOK, StoreTypeOK
      <4>2. StoreTypeOK' /\ IndexSound'
        BY <3>1, <3>5, <4>1, ResolveSound DEF Inv, TypeOK, Statuses
      <4> QED BY <3>2, <4>2 DEF Inv, TypeOK
    <3> QED BY <3>1, <3>3, <3>4, <3>5, ResolverActs DEF Inv, TypeOK
  <2>2. CASE UNCHANGED world
    BY <2>2, WorldKeeps
  <2> QED BY <2>1, <2>2 DEF Step, Gateway, LogInbound, IdentifyUser, LogIdentified,
             AppendInbound, CheckInbound, LogResolved, Plan, CreateTask, UpdateTask, LogTask,
             Dispatch, Geocoded, Forecast, LogTool, CheckOutbound, AppendOutbound,
             LogOutbound, Deliver
<1>7. decided_by' \in [Ids -> Requests \cup {None}]
  <2>1. CASE ResolveConfirmation(r)
    BY <2>1 DEF ResolveConfirmation, Inv, TypeOK
  <2>2. CASE UNCHANGED world
    BY <2>2 DEF world, Inv, TypeOK
  <2> QED BY <2>1, <2>2 DEF Step, Gateway, LogInbound, IdentifyUser, LogIdentified,
             AppendInbound, CheckInbound, LogResolved, Plan, CreateTask, UpdateTask, LogTask,
             Dispatch, Geocoded, Forecast, LogTool, CheckOutbound, AppendOutbound,
             LogOutbound, Deliver
<1> QED BY <1>1, <1>2, <1>3, <1>4, <1>5, <1>6, <1>7 DEF TypeOK

LEMMA StepKeepsReplies ==
    ASSUME Inv, NEW r \in Requests, Step(r)
    PROVE  HasPlan' /\ NoClaimDelivered'
<1>0. TypeOK /\ HasPlan /\ NoClaimDelivered
  BY DEF Inv
<1>1. \A s \in Requests : s # r => handler'[s] = handler[s]
  BY StepMovesAlone DEF MovedAlone
<1> USE NoneIsNoHandler DEF MovedOn, Moved, At, ToolLabels
<1> DEFINE Here ==
        /\ At(r, {"create", "fill", "update", "created", "updated", "check"}
                 \cup ToolLabels)' => handler'[r].plan # None
        /\ At(r, ToolLabels)' => handler'[r].plan.tool # "none"
        /\ At(r, {"executed"})' => handler'[r].reply # None
        /\ At(r, {"check"})' => \/ handler'[r].plan.tool = "none"
                                \/ handler'[r].reply # None
        /\ At(r, {"resolved"})' => handler'[r].reply \in Resolutions
        /\ At(r, {"send", "sent", "deliver"})' => handler'[r].reply \notin {"claim", None}
<1>2. CASE Gateway(r) \/ LogInbound(r) \/ IdentifyUser(r) \/ LogIdentified(r)
           \/ AppendInbound(r)
  <2>1. Here
    BY <1>0, <1>2, IntakeMoves
  <2> QED BY <1>0, <1>1, <2>1 DEF HasPlan, NoClaimDelivered
<1>3. CASE CheckInbound(r) \/ ResolveConfirmation(r) \/ LogResolved(r)
  <2>1. Here
    BY <1>0, <1>3, AnswerMoves
    DEF HasPlan, CheckInbound, ResolveConfirmation, LogResolved, Runs, Replies, Resolutions
  <2> QED BY <1>0, <1>1, <2>1 DEF HasPlan, NoClaimDelivered
<1>4. CASE Plan(r) \/ CreateTask(r) \/ UpdateTask(r) \/ LogTask(r)
  <2>1. CASE Plan(r)
    <3>1. Here
      BY <1>0, <2>1, TaskMoves
    <3> QED BY <1>0, <1>1, <3>1 DEF HasPlan, NoClaimDelivered
  <2>2. CASE CreateTask(r)
    <3>1. handler[r].plan # None
      BY <1>0, <2>2 DEF HasPlan, CreateTask, Runs
    <3>2. handler'[r].pc = "fill" /\ handler'[r].plan = handler[r].plan
      BY <1>0, <2>2, TaskMoves
    <3>3. Here
      BY <3>1, <3>2
    <3> QED BY <1>0, <1>1, <3>3 DEF HasPlan, NoClaimDelivered
  <2>3. CASE UpdateTask(r)
    <3>1. handler[r].plan # None
      BY <1>0, <2>3 DEF HasPlan, UpdateTask, Runs
    <3>2. handler'[r].pc \in {"created", "updated"} /\ handler'[r].plan = handler[r].plan
      BY <1>0, <2>3, TaskMoves
    <3>3. Here
      BY <3>1, <3>2
    <3> QED BY <1>0, <1>1, <3>3 DEF HasPlan, NoClaimDelivered
  <2>4. CASE LogTask(r)
    <3>1. Here
      BY <1>0, <2>4, TaskMoves DEF HasPlan, LogTask, Runs
    <3> QED BY <1>0, <1>1, <3>1 DEF HasPlan, NoClaimDelivered
  <2> QED BY <1>4, <2>1, <2>2, <2>3, <2>4
<1>5. CASE Dispatch(r) \/ Geocoded(r) \/ Forecast(r) \/ LogTool(r)
  <2>1. Here
    BY <1>0, <1>5, ToolMoves DEF HasPlan, Dispatch, Geocoded, Forecast, LogTool, Runs, Replies
  <2> QED BY <1>0, <1>1, <2>1 DEF HasPlan, NoClaimDelivered
<1>6. CASE CheckOutbound(r) \/ AppendOutbound(r) \/ LogOutbound(r) \/ Deliver(r)
  <2>1. Here
    BY <1>0, <1>6, ReplyingMoves
    DEF NoClaimDelivered, CheckOutbound, AppendOutbound, LogOutbound, Deliver, Runs, Replies
  <2> QED BY <1>0, <1>1, <2>1 DEF HasPlan, NoClaimDelivered
<1> QED BY <1>2, <1>3, <1>4, <1>5, <1>6 DEF Step

LEMMA StepKeepsTasks ==
    ASSUME Inv, NEW r \in Requests, Step(r)
    PROVE  TaskHere' /\ OneActiveTask'
<1>0. TypeOK /\ HasPlan /\ TaskHere /\ OneActiveTask
  BY DEF Inv
<1>1. \A s \in Requests : s # r => handler'[s] = handler[s]
  BY StepMovesAlone DEF MovedAlone
<1> USE DEF MovedOn, Moved
<1>2. CASE CreateTask(r) \/ UpdateTask(r)
  <2>1. loop \in {r, None}
    BY <1>2 DEF CreateTask, UpdateTask, Runs
  <2>2. \A s \in Requests : s # r => ~At(s, {"create", "fill", "update"})'
    BY <1>1, <2>1, Alone DEF At
  <2>3. CASE CreateTask(r)
    <3>1. /\ User(r) \in Users /\ Len(tasks'[User(r)]) <= 1 /\ tasks'[User(r)] # <<>>
          /\ \A v \in Users : v # User(r) => tasks'[v] = tasks[v]
          /\ tasks[User(r)] = <<>> /\ tasks'[User(r)] = <<NewTask>>
      BY <1>0, <2>3, CreateTaskList
    <3>2. OneActiveTask'
      <4> SUFFICES ASSUME NEW v \in Users PROVE Len(tasks'[v]) <= 1
        BY DEF OneActiveTask
      <4>1. CASE v = User(r)
        BY <3>1, <4>1
      <4>2. CASE v # User(r)
        BY <1>0, <3>1, <4>2 DEF OneActiveTask
      <4> QED BY <4>1, <4>2
    <3>3. /\ handler[r] # None /\ MovedOn(r, "fill")
          /\ handler'[r].held = [slot |-> Len(tasks[User(r)]) + 1, copy |-> NewTask]
      BY <1>0, <2>3, TaskMoves
    <3>4. handler'[r].held = Last(r)'
      <4> DEFINE t == NewTask
      <4>1. handler'[r].held = [slot |-> 1, copy |-> t]
        BY <3>1, <3>3
      <4>2. tasks'[User(r)'] = <<t>>
        BY <3>1, <3>3 DEF User
      <4> HIDE DEF t
      <4>3. Len(<<t>>) = 1 /\ <<t>>[1] = t
        OBVIOUS
      <4> QED BY <4>1, <4>2, <4>3 DEF Last
    <3>5. TaskHere'
      BY <2>2, <3>1, <3>3, <3>4 DEF TaskHere, At, User
    <3> QED BY <3>2, <3>5
  <2>4. CASE UpdateTask(r)
    BY <1>0, <2>2, <2>4, TaskMoves, UpdateTaskList DEF TaskHere, OneActiveTask, At, User
  <2> QED BY <1>2, <2>3, <2>4
<1>3. CASE Plan(r)
  <2>1. tasks' = tasks
    BY <1>3 DEF Plan
  <2>2. /\ handler'[r].user = handler[r].user
        /\ handler'[r].pc = IF tasks[User(r)] = <<>> THEN "create" ELSE "update"
        /\ tasks[User(r)] # <<>> => handler'[r].held = Last(r)
    BY <1>0, <1>3, TaskMoves
  <2>3. ASSUME NEW s \in Requests, handler'[s].user = handler[s].user
        PROVE  Last(s)' = Last(s) /\ User(s)' = User(s)
    BY <2>1, <2>3 DEF Last, User
  <2>4. OneActiveTask'
    BY <1>0, <2>1 DEF OneActiveTask
  <2>5. TaskHere'
    <3> SUFFICES ASSUME NEW s \in Requests
                 PROVE  /\ At(s, {"create"})' => tasks'[User(s)'] = <<>>
                        /\ At(s, {"fill", "update"})' =>
                              tasks'[User(s)'] # <<>> /\ handler'[s].held = Last(s)'
      BY DEF TaskHere
    <3>1. CASE s = r
      BY <2>1, <2>2, <2>3, <3>1 DEF At
    <3>2. CASE s # r
      BY <1>0, <1>1, <2>1, <2>3, <3>2 DEF TaskHere, At
    <3> QED BY <3>1, <3>2
  <2> QED BY <2>4, <2>5
<1>4. ASSUME tasks' = tasks, ~At(r, {"create", "fill", "update"})'
      PROVE  TaskHere' /\ OneActiveTask'
  BY <1>0, <1>1, <1>4 DEF TaskHere, OneActiveTask, At, User, Last
<1>5. CASE Gateway(r) \/ LogInbound(r) \/ IdentifyUser(r) \/ LogIdentified(r)
           \/ AppendInbound(r)
  BY <1>0, <1>4, <1>5, IntakeMoves
  DEF Gateway, LogInbound, IdentifyUser, LogIdentified, AppendInbound, At
<1>6. CASE CheckInbound(r) \/ ResolveConfirmation(r) \/ LogResolved(r)
  BY <1>0, <1>4, <1>6, AnswerMoves DEF CheckInbound, ResolveConfirmation, LogResolved, memoryVars, At
<1>7. CASE LogTask(r)
  BY <1>0, <1>4, <1>7, TaskMoves DEF LogTask, At
<1>8. CASE Dispatch(r) \/ Geocoded(r) \/ Forecast(r) \/ LogTool(r)
  BY <1>0, <1>4, <1>8, ToolMoves DEF Dispatch, Geocoded, Forecast, LogTool, memoryVars, At
<1>9. CASE CheckOutbound(r) \/ AppendOutbound(r) \/ LogOutbound(r) \/ Deliver(r)
  BY <1>0, <1>4, <1>9, ReplyingMoves
  DEF CheckOutbound, AppendOutbound, LogOutbound, Deliver, memoryVars, At
<1> QED BY <1>2, <1>3, <1>5, <1>6, <1>7, <1>8, <1>9 DEF Step

\* A step only adds to the record, and only entries of its own message.
Adds(r) ==
    /\ users \subseteq users' /\ turns \subseteq turns' /\ log \subseteq log'
    /\ \A s \in Requests : s # r =>
          /\ handler'[s] = handler[s]
          /\ \A x : (<<x, s>> \in turns' => <<x, s>> \in turns)
                    /\ (<<x, s>> \in log' => <<x, s>> \in log)

LEMMA StepAdds ==
    ASSUME Inv, NEW r \in Requests, Step(r)
    PROVE  Adds(r)
<1>1. \A s \in Requests : s # r => handler'[s] = handler[s]
  BY StepMovesAlone DEF MovedAlone
<1>2. /\ users \subseteq users'
      /\ turns' = turns \/ \E role \in {"user", "luna"} : AppendTurn(r, role)
      /\ log' = log \/ \E event \in EventTypes : Log(r, event)
  BY StepLogs DEF Step, Gateway, LogInbound, IdentifyUser, LogIdentified, AppendInbound,
     CheckInbound, ResolveConfirmation, LogResolved, Plan, CreateTask, UpdateTask, LogTask,
     Dispatch, Geocoded, Forecast, LogTool, CheckOutbound, AppendOutbound, LogOutbound,
     Deliver, memoryVars
<1> QED BY <1>1, <1>2 DEF Adds, AppendTurn, Log

LEMMA StepKeepsTrace ==
    ASSUME Inv, NEW r \in Requests, Step(r)
    PROVE  Trace' /\ AuditPrefix' /\ \A s \in Requests : TurnsOf(s)'
<1>0. /\ TypeOK /\ HasPlan /\ TraceOf(r) /\ Recorded(r) /\ TurnsOf(r)
      /\ Trace /\ AuditPrefix /\ \A s \in Requests : TurnsOf(s)
  BY DEF Inv, Trace, AuditPrefix, ProfileFirst, TurnsOf
<1>1. Adds(r)
  BY StepAdds
<1>2. \A s \in Requests : s # r => TraceOf(s)' /\ Recorded(s)' /\ TurnsOf(s)'
  <2> SUFFICES ASSUME NEW s \in Requests, s # r
               PROVE  TraceOf(s)' /\ Recorded(s)' /\ TurnsOf(s)'
    OBVIOUS
  <2>1. TraceOf(s) /\ Recorded(s) /\ TurnsOf(s)
    BY <1>0 DEF Trace, AuditPrefix
  <2>2. /\ handler'[s] = handler[s] /\ durable' = durable
        /\ users \subseteq users' /\ turns \subseteq turns' /\ log \subseteq log'
        /\ \A x : /\ <<x, s>> \in turns' <=> <<x, s>> \in turns
                  /\ <<x, s>> \in log' <=> <<x, s>> \in log
    BY <1>1 DEF Adds, Step, Gateway, LogInbound, IdentifyUser, LogIdentified, AppendInbound,
       CheckInbound, ResolveConfirmation, LogResolved, Plan, CreateTask, UpdateTask, LogTask,
       Dispatch, Geocoded, Forecast, LogTool, CheckOutbound, AppendOutbound, LogOutbound,
       Deliver, world
  <2>3. TraceOf(s)'
    BY <2>1, <2>2 DEF TraceOf, At, User
  <2>4. Recorded(s)'
    BY <2>1, <2>2 DEF Recorded
  <2>5. TurnsOf(s)'
    BY <2>1, <2>2 DEF TurnsOf, User
  <2> QED BY <2>3, <2>4, <2>5
<1>3. TraceOf(r)' /\ Recorded(r)' /\ TurnsOf(r)'
  <2> USE <1>0 DEF TraceOf, Recorded, TurnsOf, MovedOn, Moved, At, User, Log, AppendTurn,
      Runs, Labels, Ended, Fresh, Seen, Logged, Known, Heard, memoryVars
  <2>1. CASE Gateway(r)
    BY <2>1, IntakeMoves DEF Gateway
  <2>2. CASE LogInbound(r)
    BY <2>2, IntakeMoves DEF LogInbound
  <2>3. CASE IdentifyUser(r)
    BY <2>3, IntakeMoves DEF IdentifyUser
  <2>4. CASE LogIdentified(r)
    BY <2>4, IntakeMoves DEF LogIdentified
  <2>5. CASE AppendInbound(r)
    BY <2>5, IntakeMoves DEF AppendInbound
  <2>6. CASE CheckInbound(r)
    BY <2>6, AnswerMoves DEF CheckInbound
  <2>7. CASE ResolveConfirmation(r)
    <3>1. /\ At(r, {"confirm"}) /\ At(r, {"resolved", "plan"})' /\ User(r)' = User(r)
          /\ UNCHANGED <<users, turns, log>> /\ durable' = durable
      BY <2>7, AnswerMoves DEF ResolveConfirmation
    <3> QED BY <3>1
  <2>8. CASE LogResolved(r)
    <3>1. /\ At(r, {"resolved"}) /\ At(r, {"send"})' /\ User(r)' = User(r)
          /\ UNCHANGED <<users, turns>> /\ log' = log \cup {<<handler[r].reply, r>>}
          /\ durable' = durable
      BY <2>8, AnswerMoves DEF LogResolved, world
    <3>2. handler[r].reply \in Resolutions
      BY <3>1 DEF HasPlan
    <3> QED BY <3>1, <3>2 DEF Resolutions
  <2>9. CASE Plan(r)
    BY <2>9, TaskMoves DEF Plan
  <2>10. CASE CreateTask(r)
    BY <2>10, TaskMoves DEF CreateTask
  <2>11. CASE UpdateTask(r)
    <3>1. /\ At(r, {"fill", "update"}) /\ At(r, {"created", "updated"})'
          /\ User(r)' = User(r) /\ UNCHANGED <<users, turns, log>>
      BY <2>11, TaskMoves DEF UpdateTask
    <3> QED BY <3>1
  <2>12. CASE LogTask(r)
    BY <2>12, TaskMoves DEF LogTask
  <2>13. CASE Dispatch(r) \/ Geocoded(r) \/ Forecast(r)
    BY <2>13, ToolMoves DEF Dispatch, Geocoded, Forecast
  <2>14. CASE LogTool(r)
    BY <2>14, ToolMoves DEF LogTool
  <2>15. CASE CheckOutbound(r)
    BY <2>15, ReplyingMoves DEF CheckOutbound
  <2>16. CASE AppendOutbound(r)
    BY <2>16, ReplyingMoves DEF AppendOutbound
  <2>17. CASE LogOutbound(r)
    <3>1. /\ At(r, {"sent"}) /\ At(r, {"deliver"})' /\ User(r)' = User(r)
          /\ log' = log \cup {<<"outbound_sms_sent", r>>}
          /\ users' = users /\ turns' = turns
      BY <2>17, ReplyingMoves DEF LogOutbound
    <3>2. TraceOf(r)' /\ TurnsOf(r)'
      BY <3>1
    <3>3. Recorded(r)'
      BY <3>1
    <3> QED BY <3>2, <3>3
  <2>18. CASE Deliver(r)
    BY <2>18, ReplyingMoves DEF Deliver, world
  <2> QED BY <2>1, <2>2, <2>3, <2>4, <2>5, <2>6, <2>7, <2>8, <2>9, <2>10, <2>11, <2>12,
             <2>13, <2>14, <2>15, <2>16, <2>17, <2>18 DEF Step
<1> QED BY <1>2, <1>3 DEF Trace, AuditPrefix

LEMMA StepKeepsProfiles ==
    ASSUME Inv, NEW r \in Requests, Step(r)
    PROVE  ProfileFirst'
<1>1. \A s \in Requests : TurnsOf(s)'
  BY StepKeepsTrace
<1>2. \A u \in Users : TasksOf(u)'
  <2> SUFFICES ASSUME NEW u \in Users, tasks'[u] # <<>>
               PROVE  u \in users'
    BY DEF TasksOf
  <2>1. TypeOK /\ HasPlan /\ TaskHere /\ TraceOf(r) /\ users \subseteq users'
    BY StepAdds DEF Inv, Trace, Adds
  <2>2. tasks[u] # <<>> => u \in users
    BY DEF Inv, ProfileFirst
  <2>3. CASE CreateTask(r)
    <3>1. User(r) \in users
      BY <2>1, <2>3 DEF CreateTask, Runs, TraceOf, At, Labels, Logged, Seen, Fresh, Ended
    <3>2. u # User(r) => tasks'[u] = tasks[u]
      BY <2>1, <2>3, CreateTaskList
    <3> QED BY <2>1, <2>2, <3>1, <3>2
  <2>4. CASE UpdateTask(r)
    <3>1. /\ tasks[User(r)] # <<>> /\ User(r) \in Users
          /\ u # User(r) => tasks'[u] = tasks[u]
      BY <2>1, <2>4, UpdateTaskList
    <3> QED BY <2>1, <2>2, <3>1
  <2>5. CASE UNCHANGED tasks
    BY <2>1, <2>2, <2>5
  <2> QED BY <2>3, <2>4, <2>5 DEF Step, Gateway, LogInbound, IdentifyUser, LogIdentified,
             AppendInbound, CheckInbound, ResolveConfirmation, LogResolved, Plan, LogTask,
             Dispatch, Geocoded, Forecast, LogTool, CheckOutbound, AppendOutbound,
             LogOutbound, Deliver, memoryVars
<1> QED BY <1>1, <1>2 DEF ProfileFirst, TurnsOf, TasksOf

LEMMA StepKeepsInv ==
    ASSUME Inv, NEW r \in Requests, Step(r)
    PROVE  Inv'
BY StepKeepsLoop, StepKeepsTypes, StepKeepsReplies, StepKeepsTasks, StepKeepsTrace,
   StepKeepsProfiles DEF Inv

--------------------------------------------------------------------------------
(* What happens around the steps.                                          *)

LEMMA ReceiveKeepsInv ==
    ASSUME Inv, NEW r \in Requests, NEW u \in Users, NEW body \in Bodies,
           Receive(r, u, body)
    PROVE  Inv'
<1> DEFINE h == [user |-> u, body |-> body, pc |-> "gateway", plan |-> None,
               held |-> None, reply |-> None]
<1>1. h \in Handlers /\ h # None
  BY NoneIsNoHandler DEF Handlers, Labels
<1>2. /\ h.pc = "gateway"
      /\ handler[r] = None /\ handler' = [handler EXCEPT ![r] = h]
      /\ loop' = loop /\ UNCHANGED world /\ UNCHANGED memoryVars
  BY DEF Receive
<1> HIDE DEF h
<1>3. /\ handler' \in [Requests -> Handlers \cup {None}]
      /\ handler'[r] = h
      /\ \A s \in Requests : s # r => handler'[s] = handler[s]
  BY <1>1, <1>2 DEF Inv, TypeOK
<1>4. TypeOK' /\ IndexSound'
  BY <1>2, <1>3, WorldKeeps DEF Inv, TypeOK, memoryVars, world
<1>5. LoopHeld' /\ HasPlan' /\ NoClaimDelivered'
  BY <1>1, <1>2, <1>3
  DEF Inv, LoopHeld, HasPlan, NoClaimDelivered, At, Labels, Awaiting, Ended, ToolLabels
<1>6. TaskHere' /\ OneActiveTask'
  BY <1>1, <1>2, <1>3 DEF Inv, TaskHere, OneActiveTask, At, User, Last, memoryVars
<1>7. Trace'
  BY <1>1, <1>2, <1>3 DEF Inv, Trace, TraceOf, At, User, memoryVars,
     Fresh, Seen, Logged, Known, Heard
<1>8. ProfileFirst' /\ AuditPrefix'
  BY <1>1, <1>2, <1>3 DEF Inv, Trace, TraceOf, ProfileFirst, AuditPrefix, Recorded, User,
     memoryVars, EventTypes, world
<1> QED BY <1>4, <1>5, <1>6, <1>7, <1>8 DEF Inv

LEMMA FailKeepsInv ==
    ASSUME Inv, NEW r \in Requests, Fail(r)
    PROVE  Inv'
<1>1. /\ handler[r] # None /\ loop \in {r, None} /\ loop' = None
      /\ UNCHANGED world /\ UNCHANGED memoryVars
      /\ Moved(r, "failed", None, None)
  BY EndMoves DEF Fail, Inv, Ended
<1>2. MovedAlone(r)
  BY <1>1 DEF Moved, MovedAlone, Ended
<1> USE DEF Moved
<1>3. TypeOK' /\ IndexSound' /\ LoopHeld'
  BY <1>1, <1>2, WorldKeeps, MovedKeepsLoop DEF Inv, TypeOK, memoryVars, world
<1>4. HasPlan' /\ NoClaimDelivered'
  BY <1>1 DEF Inv, HasPlan, NoClaimDelivered, At, ToolLabels
<1>5. TaskHere' /\ OneActiveTask'
  BY <1>1 DEF Inv, TaskHere, OneActiveTask, At, User, Last, memoryVars
<1>6. Trace'
  BY <1>1 DEF Inv, Trace, TraceOf, At, User, memoryVars, Fresh, Seen, Logged, Known, Heard,
     Ended
<1>7. ProfileFirst' /\ AuditPrefix'
  BY <1>1 DEF Inv, ProfileFirst, AuditPrefix, Recorded, User, memoryVars, world
<1> QED BY <1>3, <1>4, <1>5, <1>6, <1>7 DEF Inv

LEMMA RestartKeepsInv ==
    ASSUME Inv, Restart
    PROVE  Inv'
<1>1. ASSUME NEW r \in Requests
      PROVE  /\ handler'[r] \in Handlers \cup {None}
             /\ handler'[r] = None <=> handler[r] = None
             /\ handler[r] # None => /\ handler'[r].user = handler[r].user
                                     /\ handler'[r].pc \in Ended
             /\ handler[r] # None /\ handler[r].pc \in Ended => handler'[r] = handler[r]
             /\ handler[r] # None /\ handler[r].pc \notin Ended => handler'[r].pc = "lost"
  <2>1. handler[r] \in Handlers \cup {None}
    BY DEF Inv, TypeOK
  <2>2. handler[r] # None =>
            /\ Ending(r, "lost") \in Handlers /\ Ending(r, "lost").pc = "lost"
            /\ Ending(r, "lost").user = handler[r].user
    BY <2>1 DEF Ending, Handlers, Labels
  <2>3. handler'[r] = IF handler[r] # None /\ handler[r].pc \notin Ended
                      THEN Ending(r, "lost") ELSE handler[r]
    BY DEF Restart
  <2> QED BY <2>1, <2>2, <2>3, NoneIsNoHandler DEF Ended
<1>2. /\ loop' = None /\ durable' = durable /\ now' = now
      /\ store' = [c \in Ids |-> None] /\ user_pending' = [u \in Users |-> None]
      /\ decided_by' = [c \in Ids |-> None]
      /\ \/ durable /\ UNCHANGED memoryVars
         \/ /\ ~durable /\ users' = {} /\ turns' = {} /\ log' = {}
            /\ tasks' = [u \in Users |-> <<>>]
  BY DEF Restart
<1>3. \A r \in Requests : ~At(r, Labels \ Ended)'
  BY <1>1 DEF At
<1>4. TypeOK' /\ IndexSound'
  <2>1. handler' \in [Requests -> Handlers \cup {None}]
    BY <1>1 DEF Restart
  <2>2. StoreTypeOK' /\ IndexSound'
    BY <1>2 DEF Inv, TypeOK, StoreTypeOK, IndexSound
  <2>3. /\ users' \subseteq Users /\ turns' \subseteq {"user", "luna"} \X Requests
        /\ log' \subseteq EventTypes \X Requests /\ tasks' \in [Users -> Seq(TravelTasks)]
    <3>1. CASE UNCHANGED memoryVars
      BY <3>1 DEF Inv, TypeOK, memoryVars
    <3>2. CASE /\ users' = {} /\ turns' = {} /\ log' = {}
               /\ tasks' = [u \in Users |-> <<>>]
      <4>1. <<>> \in Seq(TravelTasks)
        OBVIOUS
      <4> QED BY <3>2, <4>1
    <3> QED BY <1>2, <3>1, <3>2
  <2>4. durable' \in BOOLEAN
    BY <1>2 DEF Inv, TypeOK
  <2> QED BY <1>2, <2>1, <2>2, <2>3, <2>4 DEF TypeOK
<1>5. LoopHeld'
  BY <1>2, <1>3, RequestsAssumption DEF LoopHeld, At
<1>6. HasPlan' /\ NoClaimDelivered'
  BY <1>3 DEF HasPlan, NoClaimDelivered, At, ToolLabels, Labels, Ended
<1>7. TaskHere' /\ OneActiveTask'
  <2>1. TaskHere'
    BY <1>3 DEF TaskHere, At, Labels, Ended
  <2>2. OneActiveTask'
    BY <1>2 DEF Inv, OneActiveTask, memoryVars
  <2> QED BY <2>1, <2>2
<1>8. Trace'
  BY <1>1, <1>2, <1>3 DEF Inv, Trace, TraceOf, At, memoryVars, Labels, Fresh, Seen, Logged,
     Known, Heard, Ended
<1>9. ProfileFirst'
  BY <1>1, <1>2 DEF Inv, ProfileFirst, User, memoryVars
<1>10. AuditPrefix'
  BY <1>1, <1>2 DEF Inv, AuditPrefix, Recorded, memoryVars, Ended
<1> QED BY <1>4, <1>5, <1>6, <1>7, <1>8, <1>9, <1>10 DEF Inv

\* Everything but the confirmations stays as it is.
LEMMA QuietKeepsInv ==
    ASSUME Inv, StoreTypeOK', IndexSound',
           UNCHANGED <<durable, memoryVars, handler, loop, decided_by>>
    PROVE  Inv'
BY DEF Inv, TypeOK, LoopHeld, HasPlan, TaskHere, Trace, TraceOf, OneActiveTask, ProfileFirst,
   AuditPrefix, Recorded, NoClaimDelivered, At, User, Last, memoryVars

LEMMA InitInv == Init => Inv
<1> SUFFICES ASSUME Init PROVE Inv
  OBVIOUS
<1>1. TypeOK /\ IndexSound
  BY DEF Init, StoreInit, TypeOK, StoreTypeOK, IndexSound
<1>2. LoopHeld /\ HasPlan /\ TaskHere /\ NoClaimDelivered
  BY RequestsAssumption DEF Init, LoopHeld, HasPlan, TaskHere, NoClaimDelivered, At
<1>3. Trace /\ OneActiveTask /\ ProfileFirst /\ AuditPrefix
  BY DEF Init, Trace, TraceOf, OneActiveTask, ProfileFirst, AuditPrefix, Recorded, At
<1> QED BY <1>1, <1>2, <1>3 DEF Inv

LEMMA NextInv == Inv /\ [Next]_vars => Inv'
<1> SUFFICES ASSUME Inv, [Next]_vars PROVE Inv'
  OBVIOUS
<1>1. CASE \E r \in Requests, u \in Users, body \in Bodies : Receive(r, u, body)
  BY <1>1, ReceiveKeepsInv
<1>2. CASE \E r \in Requests : Step(r)
  BY <1>2, StepKeepsInv
<1>3. CASE \E r \in Requests : Fail(r)
  BY <1>3, FailKeepsInv
<1>4. ASSUME NEW u \in Users, NEW c \in Ids, AskUser(u, c)
      PROVE  Inv'
  <2>1. /\ StoreTypeOK /\ IndexSound /\ Create(u, c) /\ now' \in Nat
        /\ UNCHANGED <<durable, memoryVars, handler, loop, decided_by>>
    BY <1>4 DEF Inv, TypeOK, StoreTypeOK, AskUser
  <2> QED BY <2>1, CreateSound, QuietKeepsInv
<1>5. CASE Restart
  BY <1>5, RestartKeepsInv
<1>6. CASE Tick \/ UNCHANGED vars
  <2>1. /\ UNCHANGED <<store, user_pending, durable, memoryVars, handler, loop, decided_by>>
        /\ now' \in Nat
    BY <1>6 DEF Tick, vars, memoryVars, Inv, TypeOK, StoreTypeOK
  <2>2. StoreTypeOK' /\ IndexSound'
    BY <2>1 DEF Inv, TypeOK, StoreTypeOK, IndexSound
  <2> QED BY <2>1, <2>2, QuietKeepsInv
<1> QED BY <1>1, <1>2, <1>3, <1>4, <1>5, <1>6 DEF Next

LEMMA InvHolds == Spec => []Inv
BY InitInv, NextInv, PTL DEF Spec

--------------------------------------------------------------------------------
(* Decisions: an invariant of its own, on top of Inv.                      *)

\* Only what the policy lets pass comes to the resolver.
Passed == \A r \in Requests : At(r, {"confirm"}) => Verdict(handler[r].body) = "allowed"

Decisions == Passed /\ DecisionsAccounted

LEMMA StepKeepsMessage ==
    ASSUME Inv, NEW r \in Requests, Step(r)
    PROVE  /\ handler[r] # None /\ handler'[r] # None
           /\ handler'[r].user = handler[r].user /\ handler'[r].body = handler[r].body
           /\ handler'[r].pc = "confirm" => CheckInbound(r)
<1>0. TypeOK /\ HasPlan
  BY DEF Inv
<1> USE DEF MovedOn, Moved
<1>1. CASE Gateway(r) \/ LogInbound(r) \/ IdentifyUser(r) \/ LogIdentified(r)
           \/ AppendInbound(r)
  BY <1>0, <1>1, IntakeMoves
<1>2. CASE CheckInbound(r) \/ ResolveConfirmation(r) \/ LogResolved(r)
  BY <1>0, <1>2, AnswerMoves
<1>3. CASE Plan(r) \/ CreateTask(r) \/ UpdateTask(r) \/ LogTask(r)
  BY <1>0, <1>3, TaskMoves
<1>4. CASE Dispatch(r) \/ Geocoded(r) \/ Forecast(r) \/ LogTool(r)
  BY <1>0, <1>4, ToolMoves
<1>5. CASE CheckOutbound(r) \/ AppendOutbound(r) \/ LogOutbound(r) \/ Deliver(r)
  BY <1>0, <1>5, ReplyingMoves
<1> QED BY <1>1, <1>2, <1>3, <1>4, <1>5 DEF Step

LEMMA StepKeepsPassed ==
    ASSUME Inv, Passed, NEW r \in Requests, Step(r)
    PROVE  Passed'
<1> SUFFICES ASSUME NEW s \in Requests, At(s, {"confirm"})'
             PROVE  Verdict(handler'[s].body) = "allowed"
  BY DEF Passed, Verdict
<1>1. CASE s # r
  <2>1. handler'[s] = handler[s]
    BY <1>1, StepMovesAlone DEF MovedAlone
  <2> QED BY <2>1 DEF Passed, At
<1>2. CASE s = r
  <2>1. CheckInbound(r) /\ handler'[r].body = handler[r].body
    BY <1>2, StepKeepsMessage DEF At
  <2>2. handler'[r].pc = "confirm"
    BY <1>2 DEF At
  <2>3. MovedOn(r, "confirm") \/ handler'[r].pc = "send"
    BY <2>1, AnswerMoves DEF Inv, Moved
  <2>4. ~ReplyWith(r, "canned", "send")
    <3> SUFFICES ASSUME ReplyWith(r, "canned", "send") PROVE FALSE
      OBVIOUS
    <3>1. Moved(r, "send", handler[r].plan, "canned")
      BY <2>1, ReplyMoves DEF Inv, Labels, Replies, CheckInbound, Runs
    <3> QED BY <2>2, <3>1 DEF Moved
  <2>5. Verdict(handler[r].body) = "allowed"
    BY <2>1, <2>4 DEF CheckInbound
  <2> QED BY <1>2, <2>1, <2>5
<1> QED BY <1>1, <1>2

\* The policy does not hand commands to the resolver, and each word the resolver
\* takes for a YES or a NO decides what it says.
LEMMA WordDecides ==
    ASSUME NEW body, Verdict(body) = "allowed", Word(body) \in {"yes", "no"}
    PROVE  /\ body \in (YES \cup NO) \ (STOP_WORDS \cup START_WORDS)
           /\ Word(body) = "yes" => body \in YES
           /\ Word(body) = "no" => body \in NO
BY DEF Word, Verdict

\* A confirmation a step changes is one its message decides.
LEMMA StepDecides ==
    ASSUME Inv, Passed, NEW r \in Requests, Step(r), NEW c \in Ids, store'[c] # store[c]
    PROVE  decided_by'[c] = r /\ DecidedBy(r, c)'
<1>1. ResolveConfirmation(r)
  BY DEF Step, Gateway, LogInbound, IdentifyUser, LogIdentified, AppendInbound,
     CheckInbound, LogResolved, Plan, CreateTask, UpdateTask, LogTask,
     Dispatch, Geocoded, Forecast, LogTool, CheckOutbound, AppendOutbound, LogOutbound,
     Deliver, world
<1>2. /\ handler[r] # None /\ handler[r].pc = "confirm" /\ User(r) \in Users
      /\ Verdict(handler[r].body) = "allowed"
  BY <1>1 DEF ResolveConfirmation, Runs, Inv, TypeOK, Handlers, Passed, At, User
<1>3. PICK outcome \in Outcomes :
          /\ ResolveInbound(User(r), Word(handler[r].body), outcome)
          /\ IF outcome = "not_handled" THEN GoTo(r, "plan")
                                        ELSE ReplyWith(r, outcome, "resolved")
  BY <1>1 DEF ResolveConfirmation
<1>4. /\ user_pending[User(r)] \in Ids /\ outcome \in {"confirmed", "rejected", "expired"}
      /\ Resolve(user_pending[User(r)], outcome)
  BY <1>2, <1>3, ResolverActs DEF Inv, TypeOK, storeVars
<1>5. c = user_pending[User(r)] /\ store[c].user_id = User(r)
      /\ store'[c].user_id = User(r) /\ store'[c].status = outcome
  BY <1>2, <1>4, NoneAssumption
  DEF Resolve, Inv, TypeOK, StoreTypeOK, PendingConfirmations, IndexSound
<1>6. /\ Word(handler[r].body) \in {"yes", "no"}
      /\ outcome = "confirmed" => Word(handler[r].body) = "yes"
      /\ outcome = "rejected" => Word(handler[r].body) = "no"
  BY <1>3, <1>4 DEF ResolveInbound
<1>7. /\ handler[r].body \in (YES \cup NO) \ (STOP_WORDS \cup START_WORDS)
      /\ outcome \in {"confirmed", "expired"} \/ handler[r].body \in NO
      /\ outcome \in {"rejected", "expired"} \/ handler[r].body \in YES
  BY <1>2, <1>4, <1>6, WordDecides
<1>8. Moved(r, "resolved", handler[r].plan, outcome)
  BY <1>2, <1>3, <1>4, ReplyMoves DEF Inv, Labels, Replies, Resolutions
<1>9. decided_by'[c] = r
  BY <1>1 DEF ResolveConfirmation
<1> QED BY <1>5, <1>7, <1>8, <1>9 DEF DecidedBy, Moved, User

\* Once decided by a message, always.
LEMMA DecidedStays ==
    ASSUME Inv, NEW s \in Requests, Step(s), NEW c \in Ids, store'[c] = store[c],
           NEW r \in Requests, DecidedBy(r, c)
    PROVE  DecidedBy(r, c)'
<1>1. Adds(s)
  BY StepAdds
<1>2. CASE r # s
  <2>1. /\ handler'[r] = handler[r]
        /\ log \subseteq log'
        /\ <<"luna", r>> \in turns' => <<"luna", r>> \in turns
    BY <1>1, <1>2 DEF Adds
  <2> QED BY <2>1 DEF DecidedBy, User
<1>3. CASE r = s
  <2>1. handler'[r] # None /\ User(r)' = User(r) /\ handler'[r].body = handler[r].body
    BY <1>3, StepKeepsMessage DEF User
  <2>2. <<store[c].status, r>> \in log'
    <3>1. CASE handler[r].pc = "resolved" /\ handler[r].reply = store[c].status
      <4>1. LogResolved(r)
        BY <1>3, <3>1 DEF Step, Gateway, LogInbound, IdentifyUser, LogIdentified,
           AppendInbound, CheckInbound, ResolveConfirmation, Plan, CreateTask, UpdateTask,
           LogTask, Dispatch, Geocoded, Forecast, LogTool, CheckOutbound, AppendOutbound,
           LogOutbound, Deliver, Runs
      <4> QED BY <3>1, <4>1 DEF LogResolved, Log
    <3>2. handler[r].pc # "failed"
      BY <1>3 DEF Step, Gateway, LogInbound, IdentifyUser, LogIdentified, AppendInbound,
         CheckInbound, ResolveConfirmation, LogResolved, Plan, CreateTask, UpdateTask,
         LogTask, Dispatch, Geocoded, Forecast, LogTool, CheckOutbound, AppendOutbound,
         LogOutbound, Deliver, Runs
    <3> QED BY <1>1, <3>1, <3>2 DEF DecidedBy, Adds
  <2> QED BY <2>1, <2>2 DEF DecidedBy
<1> QED BY <1>2, <1>3

\* Who decided a confirmation is only written when its status is.
LEMMA StepKeepsDecider ==
    ASSUME Inv, NEW r \in Requests, Step(r), NEW c \in Ids, store'[c] = store[c]
    PROVE  decided_by'[c] = decided_by[c]
<1>1. CASE ResolveConfirmation(r)
  BY <1>1 DEF ResolveConfirmation
<1>2. CASE UNCHANGED world
  BY <1>2 DEF world
<1> QED BY <1>1, <1>2 DEF Step, Gateway, LogInbound, IdentifyUser, LogIdentified,
           AppendInbound, CheckInbound, LogResolved, Plan, CreateTask, UpdateTask, LogTask,
           Dispatch, Geocoded, Forecast, LogTool, CheckOutbound, AppendOutbound,
           LogOutbound, Deliver

LEMMA StepKeepsDecisions ==
    ASSUME Inv, Decisions, NEW r \in Requests, Step(r)
    PROVE  Decisions'
<1>1. Passed'
  BY StepKeepsPassed DEF Decisions
<1>2. ASSUME NEW c \in Ids, store'[c] # None, store'[c].status # "pending"
      PROVE  decided_by'[c] # None /\ DecidedBy(decided_by[c], c)'
  <2>1. CASE store'[c] # store[c]
    <3>1. decided_by'[c] = r /\ DecidedBy(r, c)'
      BY <2>1, StepDecides DEF Decisions
    <3> QED BY <3>1, RequestsAssumption DEF DecidedBy, User
  <2>2. CASE store'[c] = store[c]
    <3>1. decided_by[c] # None /\ DecidedBy(decided_by[c], c)
      BY <1>2, <2>2 DEF Decisions, DecisionsAccounted
    <3>2. PICK s \in Requests : s = decided_by[c]
      BY <3>1 DEF Inv, TypeOK
    <3>3. decided_by'[c] = s
      BY <2>2, <3>2, StepKeepsDecider
    <3>4. DecidedBy(s, c)'
      BY <2>2, <3>1, <3>2, DecidedStays
    <3> QED BY <3>1, <3>2, <3>3, <3>4 DEF DecidedBy, User
  <2> QED BY <2>1, <2>2
<1> QED BY <1>1, <1>2 DEF Decisions, DecisionsAccounted

LEMMA InitDecisions == Init => Decisions
BY DEF Init, StoreInit, Decisions, Passed, DecisionsAccounted, At

LEMMA NextDecisions == Inv /\ Decisions /\ [Next]_vars => Decisions'
<1> SUFFICES ASSUME Inv, Decisions, [Next]_vars PROVE Decisions'
  OBVIOUS
<1> USE DEF Decisions
<1>0. \A c \in Ids : decided_by[c] # None => decided_by[c] \in Requests
  BY DEF Inv, TypeOK
<1>1. ASSUME NEW r \in Requests, NEW u \in Users, NEW body \in Bodies, Receive(r, u, body)
      PROVE  Decisions'
  <2>1. /\ handler[r] = None /\ UNCHANGED <<store, log, turns, decided_by>>
        /\ \A s \in Requests : s # r => handler'[s] = handler[s]
        /\ handler'[r].pc = "gateway"
    BY <1>1 DEF Receive, world, memoryVars, Inv, TypeOK
  <2>2. Passed'
    BY <2>1 DEF Passed, At, Verdict
  <2>3. ASSUME NEW s \in Requests, NEW c \in Ids, DecidedBy(s, c) PROVE DecidedBy(s, c)'
    BY <2>1, <2>3 DEF DecidedBy, User
  <2> QED BY <1>0, <2>1, <2>2, <2>3 DEF DecisionsAccounted
<1>2. ASSUME NEW r \in Requests, Step(r) PROVE Decisions'
  BY <1>2, StepKeepsDecisions
<1>3. ASSUME NEW r \in Requests, Fail(r) PROVE Decisions'
  <2>1. /\ UNCHANGED <<store, log, turns, decided_by>> /\ Moved(r, "failed", None, None)
    BY <1>3, EndMoves DEF Fail, Inv, Ended, world, memoryVars
  <2>2. Passed'
    BY <2>1 DEF Passed, At, Verdict, Moved
  <2>3. ASSUME NEW s \in Requests, NEW c \in Ids, DecidedBy(s, c) PROVE DecidedBy(s, c)'
    <3>1. CASE s # r
      BY <2>1, <2>3, <3>1 DEF DecidedBy, User, Moved
    <3>2. CASE s = r
      <4>1. handler[r].pc = "resolved" => <<"luna", r>> \notin turns
        BY <2>3, <3>2 DEF DecidedBy, Inv, Trace, TraceOf, At, Labels, Ended
      <4>2. handler'[r].pc = "failed"
        BY <2>1 DEF Moved
      <4> QED BY <2>1, <2>3, <3>2, <4>1, <4>2 DEF DecidedBy, User, Moved
    <3> QED BY <3>1, <3>2
  <2> QED BY <1>0, <2>1, <2>2, <2>3 DEF DecisionsAccounted
<1>4. ASSUME NEW u \in Users, NEW c \in Ids, AskUser(u, c) PROVE Decisions'
  <2>1. /\ UNCHANGED <<handler, log, turns, decided_by>>
        /\ \A d \in Ids : d # c => store'[d] = store[d]
        /\ store'[c].status = "pending"
    BY <1>4 DEF AskUser, Create, memoryVars, Inv, TypeOK, StoreTypeOK
  <2>2. Passed'
    BY <2>1 DEF Passed, At, Verdict
  <2>3. ASSUME NEW s \in Requests, NEW d \in Ids, d # c, DecidedBy(s, d)
        PROVE  DecidedBy(s, d)'
    BY <2>1, <2>3 DEF DecidedBy, User
  <2> QED BY <1>0, <2>1, <2>2, <2>3 DEF DecisionsAccounted
<1>5. CASE Restart
  <2>1. \A r \in Requests : handler'[r] # None => handler'[r].pc \in Ended
    <3> SUFFICES ASSUME NEW r \in Requests, handler'[r] # None
                 PROVE  handler'[r].pc \in Ended
      OBVIOUS
    <3>1. CASE handler[r] # None /\ handler[r].pc \notin Ended
      <4>1. handler'[r] = Ending(r, "lost") /\ handler[r] \in Handlers
        BY <1>5, <3>1 DEF Restart, Inv, TypeOK
      <4> QED BY <4>1 DEF Ending, Handlers, Ended
    <3>2. CASE ~(handler[r] # None /\ handler[r].pc \notin Ended)
      BY <1>5, <3>2 DEF Restart
    <3> QED BY <3>1, <3>2
  <2>2. \A c \in Ids : store'[c] = None
    BY <1>5 DEF Restart
  <2> QED BY <2>1, <2>2 DEF Passed, At, Ended, DecisionsAccounted
<1>6. CASE Tick \/ UNCHANGED vars
  <2>1. UNCHANGED <<store, handler, log, turns, decided_by>>
    BY <1>6 DEF Tick, vars, memoryVars
  <2> QED BY <2>1 DEF Passed, At, Verdict, DecisionsAccounted, DecidedBy, User
<1> QED BY <1>1, <1>2, <1>3, <1>4, <1>5, <1>6 DEF Next

--------------------------------------------------------------------------------
(* The theorems                                                            *)

(* Every reachable state is one the program's types allow.                 *)
THEOREM TypeCorrect == Spec => []TypeOK
<1>1. Inv => TypeOK
  BY DEF Inv
<1> QED BY <1>1, InvHolds, PTL

(* However many messages arrive, crash or fail, a user has at most one     *)
(* active task: list_active_tasks() and create_task() are never separated  *)
(* by another handler's (runtime.py:82-106).                               *)
THEOREM NeverTwoTasks == Spec => []OneActiveTask
<1>1. Inv => OneActiveTask
  BY DEF Inv
<1> QED BY <1>1, InvHolds, PTL

(* No turn or task on record without its user's profile                    *)
(* (runtime.py:49-56, 96-100).                                             *)
THEOREM ProfileAlwaysFirst == Spec => []ProfileFirst
<1>1. Inv => ProfileFirst
  BY DEF Inv
<1> QED BY <1>1, InvHolds, PTL

(* The record of a message is a prefix of its history at every crash point *)
(* (runtime.py:46-56, 139-151).                                            *)
THEOREM AuditAlwaysPrefix == Spec => []AuditPrefix
<1>1. Inv => AuditPrefix
  BY DEF Inv
<1> QED BY <1>1, InvHolds, PTL

(* No plan, tool failure or interleaving gets a claimed booking to a       *)
(* channel (runtime.py:121-136).                                           *)
THEOREM ClaimNeverDelivered == Spec => []NoClaimDelivered
<1>1. Inv => NoClaimDelivered
  BY DEF Inv
<1> QED BY <1>1, InvHolds, PTL

(* Every decided confirmation was decided by the one message decided_by    *)
(* names, a YES or NO of its user that says what the status says; and that *)
(* message's own entry in the log has this status, unless it is about to   *)
(* be written or could not be (runtime.py:59-79).                          *)
THEOREM DecisionsAlwaysAccounted == Spec => []DecisionsAccounted
<1>1. Decisions => DecisionsAccounted
  BY DEF Decisions
<1>2. Spec => []Decisions
  BY InitDecisions, NextDecisions, InvHolds, PTL DEF Spec
<1> QED BY <1>1, <1>2, PTL

(* A handler in the middle of its work always has the event loop, and is   *)
(* the only one: the atomicity the runtime never asks for and relies on.   *)
THEOREM OneHandlerRuns == Spec => []LoopHeld
<1>1. Inv => LoopHeld
  BY DEF Inv
<1> QED BY <1>1, InvHolds, PTL

--------------------------------------------------------------------------------
(* The memory behind the runtime                                           *)

\* What does not touch profiles and tasks does not touch the memory.
LEMMA MemoryStutters ==
    ASSUME UNCHANGED <<users, tasks>>
    PROVE  UNCHANGED Store!vars
BY DEF Store!vars, Facts

LEMMA IdentifyIntroduces ==
    ASSUME Inv, NEW r \in Requests, IdentifyUser(r)
    PROVE  Store!Next
<1>1. User(r) \in Users
  BY DEF IdentifyUser, Runs, User, Inv, TypeOK, Handlers
<1>2. users' = users \cup {User(r)} /\ tasks' = tasks
  BY DEF IdentifyUser
<1>3. Store!Introduce(User(r))
  BY <1>2 DEF Store!Introduce, Facts
<1> QED BY <1>1, <1>3 DEF Store!Next

\* At "create" the user was identified, and the list found empty is empty.
LEMMA CreateBegins ==
    ASSUME Inv, NEW r \in Requests, CreateTask(r)
    PROVE  Store!Next
<1> DEFINE t == NewTask
<1> PICK u \in Users : u = User(r)
  BY CreateTaskList DEF Inv
<1>1. /\ tasks[u] = <<>> /\ tasks'[u] = <<t>>
      /\ \A v \in Users : v # u => tasks'[v] = tasks[v]
  BY CreateTaskList DEF Inv
<1>2. u \in users /\ users' = users
  <2>1. At(r, Labels \ Logged)
    BY DEF CreateTask, Runs, At, Labels, Logged, Seen, Fresh, Ended
  <2> QED BY <2>1 DEF Inv, Trace, TraceOf, CreateTask
<1>3. Facts(u) = None /\ Facts(u)' = {}
  <2>1. <<t>> # <<>> /\ Len(<<t>>) = 1 /\ <<t>>[1] = t /\ t.known = {}
    BY DEF NewTask
  <2> HIDE DEF t
  <2> QED BY <1>1, <2>1 DEF Facts
<1>4. \A v \in Users : v # u => Facts(v)' = Facts(v)
  BY <1>1 DEF Facts
<1> HIDE DEF t
<1>5. [v \in Users |-> Facts(v)]' = [[v \in Users |-> Facts(v)] EXCEPT ![u] = {}]
  BY <1>1, <1>3, <1>4
<1>6. Store!Begin(u)
  BY <1>1, <1>2, <1>3, <1>5 DEF Store!Begin
<1> QED BY <1>6 DEF Store!Next

\* The task a handler fills or updates is there, and is merged with its plan.
LEMMA UpdateLearns ==
    ASSUME Inv, NEW r \in Requests, UpdateTask(r)
    PROVE  Store!Next
<1> PICK u \in Users, known \in SUBSET Fields : u = User(r) /\ known = handler[r].plan.known
  <2>1. handler[r].plan \in Plans /\ User(r) \in Users
    BY UpdateTaskList DEF Inv
  <2> QED BY <2>1, PlansAssumption DEF PlannerOutputs
<1>1. /\ tasks[u] # <<>> /\ handler[r].plan \in Plans
      /\ tasks[u] \in Seq(TravelTasks) /\ tasks'[u] \in Seq(TravelTasks)
      /\ Len(tasks'[u]) = Len(tasks[u])
      /\ tasks'[u][Len(tasks'[u])] = Merge(tasks[u][Len(tasks[u])], handler[r].plan)
      /\ \A v \in Users : v # u => tasks'[v] = tasks[v]
  BY UpdateTaskList DEF Inv, TypeOK
<1>2. users' = users
  BY DEF UpdateTask
<1>3. /\ Facts(u) \in SUBSET Fields /\ Facts(u) # None
      /\ Facts(u)' = Facts(u) \cup known
  <2>1. tasks[u][Len(tasks[u])] \in TravelTasks /\ tasks'[u] # <<>>
    BY <1>1
  <2>2. Facts(u) = tasks[u][Len(tasks[u])].known
    BY <1>1 DEF Facts
  <2>3. Facts(u)' = tasks'[u][Len(tasks'[u])].known
    BY <2>1 DEF Facts
  <2> QED BY <1>1, <2>1, <2>2, <2>3, NoneIsNoFacts DEF Merge, TravelTasks
<1>4. \A v \in Users : v # u => Facts(v)' = Facts(v)
  BY <1>1 DEF Facts
<1>5. [v \in Users |-> Facts(v)]' =
          [[v \in Users |-> Facts(v)] EXCEPT ![u] = Facts(u) \cup known]
  BY <1>1, <1>3, <1>4
<1>6. Store!Learn(u, known)
  BY <1>1, <1>2, <1>3, <1>5 DEF Store!Learn
<1> QED BY <1>6 DEF Store!Next

\* A restart loses all of it or, with SQLite, nothing.
LEMMA RestartForgets ==
    ASSUME Restart
    PROVE  Store!Forget \/ UNCHANGED <<users, tasks>>
<1>1. CASE UNCHANGED memoryVars
  BY <1>1 DEF memoryVars
<1>2. CASE users' = {} /\ tasks' = [u \in Users |-> <<>>]
  BY <1>2 DEF Store!Forget, Store!NoFacts, Facts
<1> QED BY <1>1, <1>2 DEF Restart

(* The runtime, with its interleavings, crashes and database errors, keeps *)
(* to the memory either backend implements: it begins no task for a user   *)
(* unknown or with a task, and takes nothing a task knows from it          *)
(* (runtime.py:49-101).                                                    *)
THEOREM RuntimeKeepsMemory == Spec => MemorySpec
<1>1. Init => Store!Init
  BY DEF Init, Store!Init, Store!NoFacts, Facts
<1>2. Inv /\ [Next]_vars => [Store!Next]_(Store!vars)
  <2> SUFFICES ASSUME Inv, [Next]_vars PROVE [Store!Next]_(Store!vars)
    OBVIOUS
  <2>1. ASSUME NEW r \in Requests, IdentifyUser(r) PROVE Store!Next
    BY <2>1, IdentifyIntroduces
  <2>2. ASSUME NEW r \in Requests, CreateTask(r) PROVE Store!Next
    BY <2>2, CreateBegins
  <2>3. ASSUME NEW r \in Requests, UpdateTask(r) PROVE Store!Next
    BY <2>3, UpdateLearns
  <2>4. CASE Restart
    BY <2>4, RestartForgets, MemoryStutters DEF Store!Next
  <2>5. CASE UNCHANGED <<users, tasks>>
    BY <2>5, MemoryStutters
  <2>6. \/ \E r \in Requests : IdentifyUser(r) \/ CreateTask(r) \/ UpdateTask(r)
        \/ Restart
        \/ UNCHANGED <<users, tasks>>
    BY DEF Next, Step, Receive, Fail, AskUser, Tick, Gateway, LogInbound, LogIdentified,
           AppendInbound, CheckInbound, ResolveConfirmation, LogResolved, Plan, LogTask,
           Dispatch, Geocoded, Forecast, LogTool, CheckOutbound, AppendOutbound,
           LogOutbound, Deliver, memoryVars, vars
  <2> QED BY <2>1, <2>2, <2>3, <2>4, <2>5, <2>6
<1> QED BY <1>1, <1>2, InvHolds, PTL DEF Spec, MemorySpec, Store!Spec
================================================================================
