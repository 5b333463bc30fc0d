----------------------------- MODULE BackendsProofs -----------------------------
(***************************************************************************)
(* Proofs about Backends, for any users, messages, tasks and clock.        *)
(*                                                                         *)
(* The argument: from get_user() on a handler holds the event loop, so     *)
(* what it read is still so when it acts on it (HandlerSound): the user is *)
(* still unknown when the profile is created, there is still no task when  *)
(* one is created, and the copy SQLite handed out is still the row when it *)
(* is written back.  While it awaits the tool, others only add to the task *)
(* it stored (Grows).                                                      *)
(***************************************************************************)
EXTENDS Backends, FiniteSetTheorems, TLAPS

\* m has a handler at one of the labels.
At(m, labels) == handler[m] # None /\ handler[m].pc \in labels

\* Between two awaits.
Slice == {"create_user", "turn", "list", "create", "fill", "update"}

\* The object of a handler is its task's: the same in memory, in SQLite a copy
\* that the plan may have been added to.
ObjectOf(m) ==
    LET t == handler[m].task
        object == handler[m].object
    IN
    /\ t \in TasksOf(User(m))
    /\ object \in Tasks
    /\ object.user_id = tasks[t].user_id
    /\ object.created_at = tasks[t].created_at
    /\ tasks[t].known \subseteq object.known
    /\ handler[m].pc = "fill" \/ backend = "in_memory" => object = tasks[t]
    /\ handler[m].pc = "update" => handler[m].plan \subseteq object.known

StoredOf(m) == \E t \in TasksOf(User(m)) : handler[m].plan \subseteq tasks[t].known

\* What a handler has read or written is still so.
HandlerSound(m) ==
    /\ At(m, Slice) => loop = m
    /\ At(m, {"create_user"}) => users[User(m)] = None
    /\ At(m, (Slice \cup {"tool"}) \ {"create_user"}) => users[User(m)] # None
    /\ At(m, {"create"}) => TasksOf(User(m)) = {}
    /\ At(m, {"fill", "update"}) => ObjectOf(m)
    /\ At(m, {"tool"}) => StoredOf(m)

\* One task per user, and only for a user with a profile.
OneTask ==
    \A s, t \in TaskIds :
        tasks[s] # None =>
            /\ users[tasks[s].user_id] # None
            /\ tasks[t] # None /\ tasks[t].user_id = tasks[s].user_id => s = t

Inv == TypeOK /\ (\A m \in Messages : HandlerSound(m)) /\ OneTask

--------------------------------------------------------------------------------
(* How a step changes the state                                            *)

USE NoneAssumption, NoneIsNoFacts

LEMMA HandlerTypes ==
    ASSUME TypeOK, NEW m \in Messages, handler[m] # None
    PROVE  /\ handler[m] \in Handlers
           /\ User(m) \in Users /\ handler[m].plan \subseteq Fields
           /\ handler[m].pc \in Labels
           /\ handler[m].task \in TaskIds \cup {None}
           /\ handler[m].object \in Tasks \cup {None}
BY DEF TypeOK, Handlers, User

\* m's handler moves to label, with this task and object from now on.
Moved(m, label, task, object) ==
    /\ handler' \in [Messages -> Handlers \cup {None}]
    /\ handler'[m] # None
    /\ handler'[m].pc = label
    /\ handler'[m].user = handler[m].user /\ handler'[m].plan = handler[m].plan
    /\ handler'[m].task = task /\ handler'[m].object = object
    /\ \A n \in Messages : n # m => handler'[n] = handler[n]

LEMMA Moves ==
    ASSUME TypeOK, NEW m \in Messages, handler[m] # None,
           NEW label \in Labels, NEW t \in TaskIds \cup {None},
           NEW object \in Tasks \cup {None},
           handler' = [handler EXCEPT ![m] = [handler[m] EXCEPT !.pc = label, !.task = t,
                                                                !.object = object]]
    PROVE  Moved(m, label, t, object)
<1> DEFINE h == [handler[m] EXCEPT !.pc = label, !.task = t, !.object = object]
<1>1. handler[m] \in Handlers
  BY DEF TypeOK
<1>2. h \in Handlers /\ h.pc = label /\ h.user = handler[m].user
      /\ h.plan = handler[m].plan /\ h.task = t /\ h.object = object
  BY <1>1 DEF Handlers
<1>3. handler' = [handler EXCEPT ![m] = h]
  OBVIOUS
<1> HIDE DEF h
<1> QED BY <1>2, <1>3 DEF TypeOK, Moved

LEMMA GoToMoves ==
    ASSUME TypeOK, NEW m \in Messages, handler[m] # None, NEW label \in Labels,
           GoTo(m, label) \/ Yield(m, label)
    PROVE  Moved(m, label, handler[m].task, handler[m].object)
<1>1. handler[m] \in Handlers
  BY DEF TypeOK
<1>2. handler' = [handler EXCEPT ![m] = [handler[m] EXCEPT !.pc = label,
                      !.task = handler[m].task, !.object = handler[m].object]]
  BY <1>1 DEF GoTo, Yield, TypeOK, Handlers
<1> QED BY <1>2, Moves, HandlerTypes

LEMMA HoldMoves ==
    ASSUME TypeOK, NEW m \in Messages, handler[m] # None, NEW label \in Labels,
           NEW t \in TaskIds, NEW object \in Tasks, Hold(m, t, object, label)
    PROVE  Moved(m, label, t, object)
<1>1. handler[m] \in Handlers
  BY DEF TypeOK
<1>2. handler' = [handler EXCEPT ![m] = [handler[m] EXCEPT !.pc = label,
                      !.task = t, !.object = object]]
  BY <1>1 DEF Hold, TypeOK, Handlers
<1> QED BY <1>2, Moves

LEMMA EndMoves ==
    ASSUME TypeOK, NEW m \in Messages, handler[m] # None, NEW label \in Ended,
           handler' = [handler EXCEPT ![m] = Ending(m, label)]
    PROVE  Moved(m, label, None, None)
BY Moves DEF Ending, Ended, Labels

\* Nobody loses a profile, a task or a field.
Grows ==
    /\ backend' = backend
    /\ \A u \in Users : users[u] # None => users'[u] # None
    /\ \A t \in TaskIds : tasks[t] # None =>
          /\ tasks'[t] # None
          /\ tasks'[t].user_id = tasks[t].user_id
          /\ tasks[t].known \subseteq tasks'[t].known

LEMMA QuietGrows ==
    ASSUME UNCHANGED <<backend, users, tasks>>
    PROVE  Grows
BY DEF Grows

\* While m runs, the other handlers wait and keep what they have.
LEMMA StepKeepsOthers ==
    ASSUME Inv, NEW m \in Messages, loop \in {m, None}, Grows, TypeOK',
           \A n \in Messages : n # m => handler'[n] = handler[n],
           NEW n \in Messages, n # m
    PROVE  HandlerSound(n)'
<1>1. ~At(n, Slice) /\ ~At(n, Slice)'
  BY DEF Inv, HandlerSound, At, Slice
<1>2. CASE At(n, {"tool"})
  <2>1. users[User(n)] # None /\ StoredOf(n)
    BY <1>2 DEF Inv, HandlerSound, Slice, At
  <2>2. PICK t \in TasksOf(User(n)) : handler[n].plan \subseteq tasks[t].known
    BY <2>1 DEF StoredOf
  <2>3. t \in TasksOf(User(n))' /\ handler'[n].plan \subseteq tasks'[t].known
    BY <2>2 DEF Grows, TasksOf, User
  <2>4. StoredOf(n)'
    BY <2>3 DEF StoredOf, User
  <2>5. users'[User(n)'] # None
    <3>1. User(n) \in Users /\ User(n)' = User(n)
      BY <1>2, HandlerTypes DEF Inv, At, User
    <3> QED BY <2>1, <3>1 DEF Grows
  <2> QED BY <1>1, <2>4, <2>5 DEF HandlerSound, At, Slice
<1>3. CASE ~At(n, {"tool"})
  BY <1>1, <1>3 DEF HandlerSound, At, Slice
<1> QED BY <1>2, <1>3

--------------------------------------------------------------------------------
(* Each step                                                               *)

\* What a step of m's handler has to show.
Kept(m) == /\ TypeOK' /\ Grows /\ OneTask' /\ HandlerSound(m)'
           /\ \A n \in Messages : n # m => handler'[n] = handler[n]

LEMMA KeptIsEnough ==
    ASSUME Inv, NEW m \in Messages, loop \in {m, None}, Kept(m)
    PROVE  Inv'
BY StepKeepsOthers DEF Inv, Kept

LEMMA GetUserKept ==
    ASSUME Inv, NEW m \in Messages, GetUser(m)
    PROVE  Kept(m)
<1> DEFINE label == IF users[User(m)] = None THEN "create_user" ELSE "turn"
<1>1. handler[m] # None /\ User(m) \in Users /\ label \in Labels
  BY HandlerTypes DEF Inv, GetUser, Runs, Labels
<1>2. Moved(m, label, handler[m].task, handler[m].object) /\ loop' = m
  BY <1>1, GoToMoves DEF Inv, GetUser, GoTo
<1>3. TypeOK' /\ Grows /\ OneTask'
  BY <1>2, QuietGrows DEF GetUser, stored, Inv, TypeOK, OneTask, Moved
<1>4. HandlerSound(m)'
  BY <1>2 DEF HandlerSound, At, Slice, Moved, User, GetUser, stored
<1> QED BY <1>2, <1>3, <1>4 DEF Kept, Moved

LEMMA CreateUserKept ==
    ASSUME Inv, NEW m \in Messages, CreateUser(m)
    PROVE  /\ Kept(m) /\ UNCHANGED tasks
           /\ \A u \in Users : users'[u] # None <=> users[u] # None \/ u = User(m)
           /\ users[User(m)] = None
<1>1. handler[m] # None /\ User(m) \in Users /\ "turn" \in Labels /\ clock # None
  BY HandlerTypes DEF Inv, CreateUser, Runs, Labels, TypeOK
<1>2. Moved(m, "turn", handler[m].task, handler[m].object) /\ loop' = m
  BY <1>1, GoToMoves DEF Inv, CreateUser, GoTo
<1>3. users[User(m)] = None
  BY DEF CreateUser, Runs, Inv, HandlerSound, At
<1>4. users' = [users EXCEPT ![User(m)] = clock]
  BY <1>3 DEF CreateUser
<1>5. \A u \in Users : users'[u] # None <=> users[u] # None \/ u = User(m)
  BY <1>1, <1>4 DEF Inv, TypeOK
<1>6. TypeOK'
  BY <1>1, <1>2, <1>4 DEF CreateUser, Inv, TypeOK, Moved
<1>7. Grows /\ OneTask'
  BY <1>5 DEF CreateUser, Inv, Grows, OneTask, TypeOK, Tasks
<1>8. users'[User(m)'] # None
  BY <1>1, <1>2, <1>5 DEF Moved, User
<1>9. HandlerSound(m)'
  BY <1>2, <1>8 DEF HandlerSound, At, Slice, Moved
<1> QED BY <1>2, <1>3, <1>5, <1>6, <1>7, <1>9 DEF Kept, Moved, CreateUser

LEMMA AppendTurnTypes ==
    ASSUME TypeOK, NEW m \in Messages, handler[m] # None,
           NEW role \in Roles, AppendTurn(m, role)
    PROVE  /\ conversations' \in [Users -> Seq(Turns)]
           /\ rows' \in Seq(Rows)
           /\ said' \in [Users -> Seq(Turns)]
<1> DEFINE u == User(m)
           turn == <<role, m>>
           row == [user_id |-> u, turn |-> turn, timestamp |-> clock]
<1>1. u \in Users /\ turn \in Turns /\ row \in Rows
  BY HandlerTypes DEF Turns, Rows, TypeOK
<1>2. \/ conversations' = [conversations EXCEPT ![u] = Append(@, turn)] /\ rows' = rows
      \/ conversations' = conversations /\ rows' = Append(rows, row)
  BY DEF AppendTurn
<1>3. said' = [said EXCEPT ![u] = Append(@, turn)]
  BY DEF AppendTurn
<1> HIDE DEF u, turn, row
<1>4. Append(said[u], turn) \in Seq(Turns) /\ Append(conversations[u], turn) \in Seq(Turns)
  BY <1>1 DEF TypeOK
<1>5. Append(rows, row) \in Seq(Rows)
  BY <1>1 DEF TypeOK
<1> QED BY <1>1, <1>2, <1>3, <1>4, <1>5 DEF TypeOK

LEMMA AppendInboundKept ==
    ASSUME Inv, NEW m \in Messages, AppendInbound(m)
    PROVE  Kept(m)
<1>1. handler[m] # None /\ "list" \in Labels /\ "user" \in Roles
  BY DEF AppendInbound, Runs, Labels, Roles
<1>2. Moved(m, "list", handler[m].task, handler[m].object) /\ loop' = m
  BY <1>1, GoToMoves DEF Inv, AppendInbound, GoTo
<1>3. /\ conversations' \in [Users -> Seq(Turns)]
      /\ rows' \in Seq(Rows) /\ said' \in [Users -> Seq(Turns)]
  BY <1>1, AppendTurnTypes DEF Inv, AppendInbound
<1>4. TypeOK' /\ Grows /\ OneTask'
  BY <1>2, <1>3, QuietGrows DEF AppendInbound, Inv, TypeOK, OneTask, Moved
<1>5. users[User(m)] # None
  BY DEF AppendInbound, Runs, Inv, HandlerSound, At, Slice
<1>6. HandlerSound(m)'
  BY <1>2, <1>5 DEF HandlerSound, At, Slice, Moved, User, AppendInbound
<1> QED BY <1>2, <1>4, <1>6 DEF Kept, Moved

LEMMA AppendOutboundKept ==
    ASSUME Inv, NEW m \in Messages, AppendOutbound(m)
    PROVE  Kept(m)
<1>1. handler[m] # None /\ "done" \in Ended /\ "luna" \in Roles
  BY DEF AppendOutbound, Runs, Ended, Roles
<1>2. Moved(m, "done", None, None) /\ loop' = None
  BY <1>1, EndMoves DEF Inv, AppendOutbound
<1>3. /\ conversations' \in [Users -> Seq(Turns)]
      /\ rows' \in Seq(Rows) /\ said' \in [Users -> Seq(Turns)]
  BY <1>1, AppendTurnTypes DEF Inv, AppendOutbound
<1>4. TypeOK' /\ Grows /\ OneTask'
  BY <1>2, <1>3, QuietGrows DEF AppendOutbound, Inv, TypeOK, OneTask, Moved
<1>5. HandlerSound(m)'
  BY <1>2 DEF HandlerSound, At, Slice, Moved
<1> QED BY <1>2, <1>4, <1>5 DEF Kept, Moved

LEMMA ListActiveTasksKept ==
    ASSUME Inv, NEW m \in Messages, ListActiveTasks(m)
    PROVE  Kept(m)
<1>1. handler[m] # None /\ users[User(m)] # None /\ {"create", "fill"} \subseteq Labels
  BY DEF ListActiveTasks, Runs, Inv, HandlerSound, At, Slice, Labels
<1>2. CASE TasksOf(User(m)) = {} /\ GoTo(m, "create")
  <2>1. Moved(m, "create", handler[m].task, handler[m].object) /\ loop' = m
    BY <1>1, <1>2, GoToMoves DEF Inv, GoTo
  <2>2. TypeOK' /\ Grows /\ OneTask'
    BY <2>1, QuietGrows DEF ListActiveTasks, stored, Inv, TypeOK, OneTask, Moved
  <2>3. HandlerSound(m)'
    BY <1>1, <1>2, <2>1 DEF HandlerSound, At, Slice, Moved, User, TasksOf,
                            ListActiveTasks, stored
  <2> QED BY <2>1, <2>2, <2>3 DEF Kept, Moved
<1>3. ASSUME NEW t \in Newest(User(m)), Hold(m, t, tasks[t], "fill")
      PROVE  Kept(m)
  <2>1. t \in TasksOf(User(m)) /\ t \in TaskIds /\ tasks[t] \in Tasks
    BY <1>3 DEF Newest, TasksOf, Inv, TypeOK
  <2>2. Moved(m, "fill", t, tasks[t]) /\ loop' = m
    BY <1>1, <1>3, <2>1, HoldMoves DEF Inv, Hold
  <2>3. TypeOK' /\ Grows /\ OneTask'
    BY <2>2, QuietGrows DEF ListActiveTasks, stored, Inv, TypeOK, OneTask, Moved
  <2>4. ObjectOf(m)'
    BY <2>1, <2>2 DEF ObjectOf, Moved, User, TasksOf, ListActiveTasks, stored
  <2>5. HandlerSound(m)'
    BY <1>1, <2>2, <2>4 DEF HandlerSound, At, Slice, Moved, User, ListActiveTasks, stored
  <2> QED BY <2>2, <2>3, <2>5 DEF Kept, Moved
<1> QED BY <1>2, <1>3 DEF ListActiveTasks
LEMMA CreateTaskKept ==
    ASSUME Inv, NEW m \in Messages, CreateTask(m)
    PROVE  /\ Kept(m) /\ UNCHANGED users
           /\ \E t \in TaskIds : /\ tasks[t] = None
                                 /\ tasks' = [tasks EXCEPT ![t] = NewTask(m)]
           /\ users[User(m)] # None /\ TasksOf(User(m)) = {}
<1>1. /\ handler[m] # None /\ User(m) \in Users /\ "fill" \in Labels
      /\ users[User(m)] # None /\ TasksOf(User(m)) = {}
  BY HandlerTypes DEF CreateTask, Runs, Inv, HandlerSound, At, Slice, Labels
<1>2. NewTask(m) \in Tasks /\ NewTask(m) # None /\ NewTask(m).user_id = User(m)
  BY <1>1 DEF NewTask, Tasks, Inv, TypeOK
<1>3. PICK t \in TaskIds : /\ tasks[t] = None
                           /\ tasks' = [tasks EXCEPT ![t] = NewTask(m)]
                           /\ Hold(m, t, NewTask(m), "fill")
  BY DEF CreateTask
<1>4. Moved(m, "fill", t, NewTask(m)) /\ loop' = m
  BY <1>1, <1>2, <1>3, HoldMoves DEF Inv, Hold
<1>5. TypeOK'
  BY <1>2, <1>3, <1>4 DEF CreateTask, Inv, TypeOK, Moved
<1>6. tasks'[t] = NewTask(m) /\ \A s \in TaskIds : s # t => tasks'[s] = tasks[s]
  BY <1>3 DEF Inv, TypeOK
<1>7. Grows
  BY <1>3, <1>6 DEF Grows, CreateTask
<1>8. OneTask'
  BY <1>1, <1>2, <1>3, <1>6 DEF OneTask, TasksOf, Inv, CreateTask
<1>9. ObjectOf(m)'
  BY <1>2, <1>4, <1>6 DEF ObjectOf, Moved, TasksOf, User
<1>10. HandlerSound(m)'
  BY <1>1, <1>4, <1>9 DEF HandlerSound, At, Slice, Moved, User, CreateTask
<1> QED BY <1>1, <1>3, <1>4, <1>5, <1>7, <1>8, <1>10 DEF Kept, Moved, CreateTask

\* What a handler that fills or saves its task works on.
LEMMA HasTask ==
    ASSUME Inv, NEW m \in Messages, At(m, {"fill", "update"})
    PROVE  LET t == handler[m].task
               object == handler[m].object
           IN  /\ t \in TaskIds /\ tasks[t] \in Tasks /\ tasks[t] # None
               /\ tasks[t].user_id = User(m) /\ users[User(m)] # None
               /\ object \in Tasks /\ object # None
               /\ object.user_id = User(m) /\ object.created_at = tasks[t].created_at
               /\ tasks[t].known \subseteq object.known
               /\ handler[m].plan \subseteq Fields
<1>1. handler[m] # None /\ users[User(m)] # None /\ ObjectOf(m)
  BY DEF Inv, HandlerSound, At, Slice
<1>2. handler[m].plan \subseteq Fields
  BY <1>1, HandlerTypes DEF Inv
<1> QED BY <1>1, <1>2 DEF ObjectOf, TasksOf, Inv, TypeOK

\* A task that gains fields is still the user's only one.
LEMMA LearningKeeps ==
    ASSUME Inv, NEW t \in TaskIds, tasks[t] # None, NEW known \in SUBSET Fields,
           tasks[t].known \subseteq known,
           tasks' = [tasks EXCEPT ![t] = [tasks[t] EXCEPT !.known = known]],
           UNCHANGED <<backend, users>>
    PROVE  /\ tasks' \in [TaskIds -> Tasks \cup {None}]
           /\ Grows /\ OneTask'
           /\ tasks'[t] # None /\ tasks'[t].known = known
           /\ tasks'[t].user_id = tasks[t].user_id
           /\ tasks'[t].created_at = tasks[t].created_at
<1> DEFINE task == [tasks[t] EXCEPT !.known = known]
<1>1. tasks[t] \in Tasks
  BY DEF Inv, TypeOK
<1>2. task \in Tasks /\ task # None /\ task.known = known
      /\ task.user_id = tasks[t].user_id /\ task.created_at = tasks[t].created_at
  BY <1>1 DEF Tasks
<1>3. tasks' = [tasks EXCEPT ![t] = task]
  OBVIOUS
<1> HIDE DEF task
<1>4. tasks'[t] = task /\ \A s \in TaskIds : s # t => tasks'[s] = tasks[s]
  BY <1>3 DEF Inv, TypeOK
<1>5. tasks' \in [TaskIds -> Tasks \cup {None}]
  BY <1>2, <1>3 DEF Inv, TypeOK
<1>6. Grows
  BY <1>2, <1>4 DEF Grows
<1>7. OneTask'
  BY <1>2, <1>4 DEF OneTask, Inv
<1> QED BY <1>2, <1>4, <1>5, <1>6, <1>7
\* Filling changes the stored task in memory, and only the copy with SQLite.
LEMMA FillTaskKept ==
    ASSUME Inv, NEW m \in Messages, FillTask(m)
    PROVE  /\ Kept(m) /\ UNCHANGED users
           /\ \/ UNCHANGED tasks
              \/ tasks' = [tasks EXCEPT ![handler[m].task].known = @ \cup handler[m].plan]
           /\ At(m, {"fill", "update"})
<1> DEFINE t == handler[m].task
           object == handler[m].object
           plan == handler[m].plan
<1>1. At(m, {"fill", "update"}) /\ handler[m].pc = "fill" /\ handler[m] # None
  BY DEF FillTask, Runs, At
<1>2. /\ t \in TaskIds /\ tasks[t] \in Tasks /\ tasks[t] # None
      /\ tasks[t].user_id = User(m) /\ users[User(m)] # None
      /\ object \in Tasks /\ object.user_id = User(m)
      /\ object.created_at = tasks[t].created_at /\ plan \subseteq Fields
  BY <1>1, HasTask
<1>3. object = tasks[t]
  BY <1>1 DEF Inv, HandlerSound, ObjectOf
<1>4. "update" \in Labels
  BY DEF Labels
<1> DEFINE filled == [object EXCEPT !.known = @ \cup plan]
<1>5. /\ filled \in Tasks /\ filled.known = tasks[t].known \cup plan
      /\ filled.user_id = User(m) /\ filled.created_at = tasks[t].created_at
  BY <1>2, <1>3 DEF Tasks
<1>6. CASE backend = "in_memory"
  <2>1. tasks' = [tasks EXCEPT ![t] = [tasks[t] EXCEPT !.known = tasks[t].known \cup plan]]
    BY <1>2, <1>6 DEF FillTask, Inv, TypeOK
  <2>2. tasks[t].known \cup plan \in SUBSET Fields
    BY <1>2 DEF Tasks
  <2>3. /\ tasks' \in [TaskIds -> Tasks \cup {None}] /\ Grows /\ OneTask'
        /\ tasks'[t] # None /\ tasks'[t].known = tasks[t].known \cup plan
        /\ tasks'[t].user_id = tasks[t].user_id
        /\ tasks'[t].created_at = tasks[t].created_at
    <3>1. UNCHANGED <<backend, users>>
      BY DEF FillTask
    <3>2. tasks[t].known \subseteq tasks[t].known \cup plan
      OBVIOUS
    <3> HIDE DEF t, plan
    <3> QED BY <1>2, <2>1, <2>2, <3>1, <3>2, LearningKeeps
  <2>4. tasks'[t] \in Tasks
    BY <1>2, <2>3
  <2>5. Hold(m, t, tasks'[t], "update")
    BY <1>2, <1>6 DEF FillTask
  <2>6. Moved(m, "update", t, tasks'[t]) /\ loop' = m
    BY <1>1, <1>2, <1>4, <2>4, <2>5, HoldMoves DEF Inv, Hold
  <2>7. ObjectOf(m)'
    BY <1>2, <2>3, <2>4, <2>6 DEF ObjectOf, Moved, TasksOf, User
  <2>8. HandlerSound(m)'
    BY <1>2, <2>6, <2>7 DEF HandlerSound, At, Slice, Moved, User, FillTask
  <2>9. TypeOK'
    BY <2>3, <2>6 DEF FillTask, Inv, TypeOK, Moved
  <2> QED BY <1>1, <1>2, <1>6, <2>3, <2>6, <2>8, <2>9 DEF Kept, Moved, FillTask
<1>7. CASE backend # "in_memory"
  <2>1. UNCHANGED <<backend, users, tasks>> /\ Hold(m, t, filled, "update")
    BY <1>7 DEF FillTask, Filled
  <2>2. Moved(m, "update", t, filled) /\ loop' = m
    <3>1. loop' = m
      BY <2>1 DEF Hold
    <3> HIDE DEF t, filled
    <3> QED BY <1>1, <1>2, <1>4, <1>5, <2>1, <3>1, HoldMoves DEF Inv
  <2>3. TypeOK' /\ Grows /\ OneTask'
    <3>1. UNCHANGED <<backend, users, tasks, conversations, rows, said, clock>>
      BY <2>1 DEF FillTask
    <3> HIDE DEF filled, t
    <3> QED BY <2>2, <3>1, QuietGrows DEF Inv, TypeOK, OneTask, Moved
  <2> HIDE DEF filled
  <2>4. ObjectOf(m)'
    BY <1>2, <1>5, <1>7, <2>1, <2>2 DEF ObjectOf, Moved, TasksOf, User
  <2>5. HandlerSound(m)'
    BY <1>2, <2>1, <2>2, <2>4 DEF HandlerSound, At, Slice, Moved, User
  <2> QED BY <1>1, <2>1, <2>2, <2>3, <2>5 DEF Kept, Moved
<1> QED BY <1>6, <1>7

\* Saving changes nothing in memory, and brings the row up to the copy.
LEMMA UpdateTaskKept ==
    ASSUME Inv, NEW m \in Messages, UpdateTask(m)
    PROVE  LET t == handler[m].task IN
           /\ Kept(m) /\ UNCHANGED users
           /\ At(m, {"fill", "update"})
           /\ \/ UNCHANGED tasks
              \/ tasks' = [tasks EXCEPT ![t] =
                              [tasks[t] EXCEPT !.known = handler[m].object.known]]
<1> DEFINE t == handler[m].task
           object == handler[m].object
<1>1. At(m, {"fill", "update"}) /\ handler[m].pc = "update" /\ handler[m] # None
      /\ "tool" \in Labels
  BY DEF UpdateTask, Runs, At, Labels
<1>2. /\ t \in TaskIds /\ tasks[t] \in Tasks /\ tasks[t] # None
      /\ tasks[t].user_id = User(m) /\ users[User(m)] # None
      /\ object \in Tasks /\ tasks[t].known \subseteq object.known
  BY <1>1, HasTask
<1>3. handler[m].plan \subseteq object.known /\ (backend = "in_memory" => object = tasks[t])
  BY <1>1 DEF Inv, HandlerSound, ObjectOf, At
<1>4. Moved(m, "tool", t, object) /\ loop' = None
  BY <1>1, GoToMoves DEF Inv, UpdateTask, Yield
<1>5. /\ tasks' \in [TaskIds -> Tasks \cup {None}] /\ Grows /\ OneTask'
      /\ tasks'[t] # None /\ tasks'[t].user_id = User(m)
      /\ handler[m].plan \subseteq tasks'[t].known
      /\ \/ UNCHANGED tasks
         \/ tasks' = [tasks EXCEPT ![t] = [tasks[t] EXCEPT !.known = object.known]]
  <2>1. CASE backend = "in_memory"
    <3>1. tasks' = tasks
      BY <1>2, <1>3, <2>1 DEF UpdateTask, Inv, TypeOK
    <3> QED BY <1>2, <1>3, <2>1, <3>1, QuietGrows DEF UpdateTask, Inv, TypeOK, OneTask
  <2>2. CASE backend # "in_memory"
    <3>1. tasks' = [tasks EXCEPT ![t] = [tasks[t] EXCEPT !.known = object.known]]
      BY <1>2, <2>2 DEF UpdateTask, Inv, TypeOK
    <3>2. object.known \in SUBSET Fields
      BY <1>2 DEF Tasks
    <3>3. UNCHANGED <<backend, users>>
      BY DEF UpdateTask
    <3> HIDE DEF t, object
    <3>4. /\ tasks' \in [TaskIds -> Tasks \cup {None}] /\ Grows /\ OneTask'
          /\ tasks'[t] # None /\ tasks'[t].known = object.known
          /\ tasks'[t].user_id = tasks[t].user_id
      BY <1>2, <3>1, <3>2, <3>3, LearningKeeps
    <3> QED BY <1>2, <1>3, <3>1, <3>4
  <2> QED BY <2>1, <2>2
<1>6. TypeOK'
  BY <1>4, <1>5 DEF UpdateTask, Inv, TypeOK, Moved
<1>7. StoredOf(m)'
  <2>1. t \in TasksOf(User(m))' /\ handler'[m].plan \subseteq tasks'[t].known
    BY <1>2, <1>4, <1>5 DEF TasksOf, User, Moved
  <2> QED BY <1>4, <2>1 DEF StoredOf, Moved, User
<1>8. HandlerSound(m)'
  BY <1>2, <1>4, <1>7 DEF HandlerSound, At, Slice, Moved, User, UpdateTask
<1> QED BY <1>1, <1>4, <1>5, <1>6, <1>8 DEF Kept, Moved, UpdateTask

\* The handler of a message that comes in, and of one that fails.
LEMMA ReceiveKept ==
    ASSUME Inv, NEW m \in Messages, NEW u \in Users, NEW plan \in SUBSET Fields,
           Receive(m, u, plan)
    PROVE  Kept(m) /\ UNCHANGED <<users, tasks, loop>>
<1> DEFINE h == [user |-> u, plan |-> plan, pc |-> "get_user", task |-> None,
                 object |-> None]
<1>1. h \in Handlers /\ h.pc = "get_user"
  BY DEF Handlers, Labels
<1>2. handler' = [handler EXCEPT ![m] = h]
  BY DEF Receive
<1> HIDE DEF h
<1>3. handler' \in [Messages -> Handlers \cup {None}] /\ handler'[m] = h
      /\ \A n \in Messages : n # m => handler'[n] = handler[n]
  BY <1>1, <1>2 DEF Inv, TypeOK
<1>4. TypeOK' /\ Grows /\ OneTask'
  BY <1>3, QuietGrows DEF Receive, stored, Inv, TypeOK, OneTask
<1>5. HandlerSound(m)'
  BY <1>1, <1>3 DEF HandlerSound, At, Slice
<1> QED BY <1>3, <1>4, <1>5 DEF Kept, Receive, stored

LEMMA FailKept ==
    ASSUME Inv, NEW m \in Messages, Fail(m)
    PROVE  Kept(m) /\ UNCHANGED <<users, tasks>>
<1>1. Moved(m, "failed", None, None) /\ loop' = None
  BY EndMoves DEF Inv, Fail, Ended
<1>2. TypeOK' /\ Grows /\ OneTask'
  BY <1>1, QuietGrows DEF Fail, stored, Inv, TypeOK, OneTask, Moved
<1>3. HandlerSound(m)'
  BY <1>1 DEF HandlerSound, At, Slice, Moved
<1> QED BY <1>1, <1>2, <1>3 DEF Kept, Moved, Fail, stored
--------------------------------------------------------------------------------
(* The invariant                                                           *)

LEMMA StepKept ==
    ASSUME Inv, NEW m \in Messages, Step(m)
    PROVE  Kept(m) /\ loop \in {m, None}
<1>1. Kept(m)
  BY GetUserKept, CreateUserKept, AppendInboundKept, ListActiveTasksKept, CreateTaskKept,
     FillTaskKept, UpdateTaskKept, AppendOutboundKept DEF Step
<1>2. loop \in {m, None}
  BY DEF Step, GetUser, CreateUser, AppendInbound, ListActiveTasks, CreateTask, FillTask,
         UpdateTask, AppendOutbound, Runs
<1> QED BY <1>1, <1>2

LEMMA ReceiveKeepsInv ==
    ASSUME Inv, NEW m \in Messages, NEW u \in Users, NEW plan \in SUBSET Fields,
           Receive(m, u, plan)
    PROVE  Inv'
<1>1. Kept(m) /\ UNCHANGED <<users, tasks, loop>>
  BY ReceiveKept
<1>2. ASSUME NEW n \in Messages, n # m PROVE HandlerSound(n)'
  <2>1. handler'[n] = handler[n] /\ HandlerSound(n) /\ UNCHANGED backend
    BY <1>1, <1>2 DEF Kept, Inv, Receive
  <2> QED BY <1>1, <2>1 DEF HandlerSound, At, User, ObjectOf, StoredOf, TasksOf
<1> QED BY <1>1, <1>2 DEF Kept, Inv

LEMMA RestartKeepsInv ==
    ASSUME Inv, Restart
    PROVE  Inv'
<1>1. ASSUME NEW m \in Messages
      PROVE  /\ handler'[m] \in Handlers \cup {None}
             /\ handler'[m] # None => handler'[m].pc \in Ended
  <2>1. CASE handler[m] # None /\ handler[m].pc \notin Ended
    <3>1. handler'[m] = Ending(m, "lost")
      BY <2>1 DEF Restart
    <3>2. handler[m] \in Handlers
      BY <2>1 DEF Inv, TypeOK
    <3> QED BY <3>1, <3>2 DEF Ending, Handlers, Ended, Labels
  <2>2. CASE ~(handler[m] # None /\ handler[m].pc \notin Ended)
    BY <2>2 DEF Restart, Inv, TypeOK
  <2> QED BY <2>1, <2>2
<1>2. \A m \in Messages : HandlerSound(m)'
  BY <1>1 DEF HandlerSound, At, Slice, Ended
<1>3. handler' \in [Messages -> Handlers \cup {None}]
  BY <1>1 DEF Restart
<1>4. TypeOK' /\ OneTask'
  <2>1. CASE backend = "sqlite"
    BY <1>3, <2>1 DEF Restart, stored, Inv, TypeOK, OneTask
  <2>2. CASE backend # "sqlite"
    <3>1. users' = NoUsers /\ tasks' = NoTasks /\ conversations' = NoTurns
          /\ said' = NoTurns /\ UNCHANGED <<rows, backend, clock>> /\ loop' = None
      BY <2>2 DEF Restart
    <3>2. NoTurns \in [Users -> Seq(Turns)]
      BY DEF NoTurns
    <3> QED BY <1>3, <3>1, <3>2 DEF Inv, TypeOK, OneTask, NoUsers, NoTasks
  <2> QED BY <2>1, <2>2
<1> QED BY <1>2, <1>4 DEF Inv

LEMMA QuietKeepsInv ==
    ASSUME Inv, SetClock \/ UNCHANGED vars
    PROVE  Inv'
<1>1. UNCHANGED <<backend, users, tasks, conversations, rows, said, handler, loop>>
      /\ clock' \in Times
  BY DEF SetClock, vars, stored, Inv, TypeOK
<1>2. TypeOK' /\ OneTask'
  BY <1>1 DEF Inv, TypeOK, OneTask
<1>3. ASSUME NEW m \in Messages PROVE HandlerSound(m)'
  <2>1. HandlerSound(m)
    BY DEF Inv
  <2> QED BY <1>1, <2>1 DEF HandlerSound, At, User, ObjectOf, StoredOf, TasksOf
<1> QED BY <1>2, <1>3 DEF Inv

LEMMA InitInv == Init => Inv
<1> SUFFICES ASSUME Init PROVE Inv
  OBVIOUS
<1>1. TypeOK
  BY DEF Init, TypeOK, NoUsers, NoTasks, NoTurns
<1>2. \A m \in Messages : HandlerSound(m)
  BY DEF Init, HandlerSound, At
<1>3. OneTask
  BY DEF Init, OneTask, NoTasks
<1> QED BY <1>1, <1>2, <1>3 DEF Inv

LEMMA NextInv == Inv /\ [Next]_vars => Inv'
<1> SUFFICES ASSUME Inv, [Next]_vars PROVE Inv'
  OBVIOUS
<1>1. ASSUME NEW m \in Messages, NEW u \in Users, NEW plan \in SUBSET Fields,
             Receive(m, u, plan)
      PROVE  Inv'
  BY <1>1, ReceiveKeepsInv
<1>2. ASSUME NEW m \in Messages, Step(m) PROVE Inv'
  BY <1>2, StepKept, KeptIsEnough
<1>3. ASSUME NEW m \in Messages, Fail(m) PROVE Inv'
  <2>1. loop \in {m, None}
    BY <1>3 DEF Fail
  <2> QED BY <1>3, <2>1, FailKept, KeptIsEnough
<1>4. CASE Restart
  BY <1>4, RestartKeepsInv
<1>5. CASE SetClock \/ UNCHANGED vars
  BY <1>5, QuietKeepsInv
<1> QED BY <1>1, <1>2, <1>3, <1>4, <1>5 DEF Next

LEMMA InvHolds == Spec => []Inv
BY InitInv, NextInv, PTL DEF Spec

--------------------------------------------------------------------------------
(* The properties                                                          *)

(* The stores, the conversations and the handlers keep their types.        *)
THEOREM TypeCorrect == Spec => []TypeOK
<1>1. Inv => TypeOK
  BY DEF Inv
<1> QED BY <1>1, InvHolds, PTL

(* While a handler waits for its tool, what it planned is in the store, on *)
(* either backend, for any number of messages, failures and restarts.      *)
THEOREM PlanAlwaysStored == Spec => []PlanIsStored
<1>1. Inv => PlanIsStored
  BY DEF Inv, HandlerSound, At, StoredOf, PlanIsStored
<1> QED BY <1>1, InvHolds, PTL

(* No step makes a profile again over an old one, on either backend.       *)
THEOREM ProfilesAreKept == Spec => ProfileNeverReplaced
<1>1. Inv /\ [Next]_vars =>
        [\A u \in Users :
            users[u] # None /\ users'[u] # None => users'[u] = users[u]]_vars
  <2> SUFFICES ASSUME Inv, [Next]_vars, NEW u \in Users, users[u] # None, users'[u] # None
               PROVE  users'[u] = users[u]
    OBVIOUS
  <2>1. ASSUME NEW m \in Messages, CreateUser(m) PROVE users'[u] = users[u]
    <3>1. users[User(m)] = None
      BY <2>1, CreateUserKept
    <3> QED BY <2>1, <3>1 DEF CreateUser, Inv, TypeOK
  <2>2. CASE Restart
    BY <2>2 DEF Restart, stored, NoUsers
  <2>3. \/ \E m \in Messages : CreateUser(m)
        \/ Restart
        \/ UNCHANGED users
    BY DEF Next, Receive, Step, GetUser, AppendInbound, ListActiveTasks, CreateTask,
           FillTask, UpdateTask, AppendOutbound, Fail, SetClock, stored, vars
  <2> QED BY <2>1, <2>2, <2>3
<1> QED BY <1>1, InvHolds, PTL DEF Spec, ProfileNeverReplaced

--------------------------------------------------------------------------------
(* The conversation                                                        *)

\* The places of a user's rows in the table.
Mine(u, table) == {i \in DOMAIN table : table[i].user_id = u}

\* Counting the user's rows finds one for every number.
Counted(u, table) ==
    \A n \in 1..Cardinality(Mine(u, table)) :
        \E i \in Mine(u, table) : Cardinality(Mine(u, table) \cap 1..i) = n

\* A user's places, and those up to one of them, are finitely many.
LEMMA MineFinite ==
    ASSUME NEW u \in Users, NEW table \in Seq(Rows)
    PROVE  /\ IsFiniteSet(Mine(u, table)) /\ Cardinality(Mine(u, table)) \in Nat
           /\ \A i \in Nat : LET upTo == Mine(u, table) \cap 1..i IN
                 Cardinality(upTo) \in Nat /\ Cardinality(upTo) <= Cardinality(Mine(u, table))
<1>1. /\ Mine(u, table) \in SUBSET Nat /\ Len(table) \in Nat
      /\ \A i \in Mine(u, table) : i <= Len(table)
  BY DEF Mine
<1>2. IsFiniteSet(Mine(u, table))
  BY <1>1, FS_BoundedSetOfNaturals
<1>3. ASSUME NEW i \in Nat
      PROVE  LET upTo == Mine(u, table) \cap 1..i IN
             Cardinality(upTo) \in Nat /\ Cardinality(upTo) <= Cardinality(Mine(u, table))
  <2>1. Mine(u, table) \cap 1..i \in SUBSET Mine(u, table)
    OBVIOUS
  <2> QED BY <1>2, <2>1, FS_Subset, FS_CardinalityType
<1> QED BY <1>2, <1>3, FS_CardinalityType

\* The nth of the places.
Nth(mine, n) == CHOOSE i \in mine : Cardinality(mine \cap 1..i) = n

LEMMA TurnsOfMine ==
    ASSUME NEW u, NEW table
    PROVE  TurnsOf(u, table) =
              [n \in 1..Cardinality(Mine(u, table)) |-> table[Nth(Mine(u, table), n)].turn]
BY Zenon DEF TurnsOf, Mine, Nth

LEMMA OthersRow ==
    ASSUME NEW u \in Users, NEW table \in Seq(Rows), NEW row \in Rows, row.user_id # u,
           Counted(u, table)
    PROVE  /\ TurnsOf(u, Append(table, row)) = TurnsOf(u, table)
           /\ Counted(u, Append(table, row))
<1>1. Mine(u, Append(table, row)) = Mine(u, table)
  BY DEF Mine
<1>2. \A i \in Mine(u, table) : Append(table, row)[i] = table[i]
  BY DEF Mine
<1>3. TurnsOf(u, Append(table, row)) = TurnsOf(u, table)
  <2> DEFINE mine == Mine(u, table)
             place(n) == Nth(mine, n)
  <2>1. \A n \in 1..Cardinality(mine) : place(n) \in mine
    BY DEF Counted, Nth
  <2>2. TurnsOf(u, table) = [n \in 1..Cardinality(mine) |-> table[place(n)].turn]
    BY TurnsOfMine, Zenon
  <2>3. TurnsOf(u, Append(table, row)) =
            [n \in 1..Cardinality(mine) |-> Append(table, row)[place(n)].turn]
    BY <1>1, TurnsOfMine, Zenon
  <2> HIDE DEF mine, place
  <2> QED BY <1>2, <2>1, <2>2, <2>3 DEF mine
<1> QED BY <1>1, <1>3 DEF Counted

LEMMA OwnRow ==
    ASSUME NEW u \in Users, NEW table \in Seq(Rows), NEW row \in Rows, row.user_id = u,
           Counted(u, table), TurnsOf(u, table) \in Seq(Turns)
    PROVE  /\ TurnsOf(u, Append(table, row)) = Append(TurnsOf(u, table), row.turn)
           /\ Counted(u, Append(table, row))
<1> DEFINE last == Len(table) + 1
           mine == Mine(u, table)
           count == Cardinality(mine)
           grown == Mine(u, Append(table, row))
           place(n) == Nth(mine, n)
           placeNow(n) == Nth(grown, n)
<1>1. grown = mine \cup {last} /\ last \notin mine /\ mine \subseteq 1..Len(table)
  BY DEF Mine
<1>2. IsFiniteSet(mine) /\ count \in Nat
      /\ \A i \in Nat : /\ Cardinality(mine \cap 1..i) \in Nat
                        /\ Cardinality(mine \cap 1..i) <= count
  BY MineFinite
<1>3. Cardinality(grown) = count + 1
  BY <1>1, <1>2, FS_AddElement
<1>4. \A i \in mine : grown \cap 1..i = mine \cap 1..i
  BY <1>1
<1>5. Cardinality(grown \cap 1..last) = count + 1
  <2>1. grown \cap 1..last = grown
    BY <1>1
  <2> QED BY <1>3, <2>1
<1>6. /\ Append(table, row)[last] = row
      /\ \A i \in mine : Append(table, row)[i] = table[i]
  BY <1>1
<1>7. TurnsOf(u, table) = [n \in 1..count |-> table[place(n)].turn]
  BY TurnsOfMine, Zenon
<1>8. TurnsOf(u, Append(table, row)) =
          [n \in 1..(count + 1) |-> Append(table, row)[placeNow(n)].turn]
  BY <1>3, TurnsOfMine, Zenon
<1>9. ASSUME NEW n \in 1..count
      PROVE  place(n) \in mine /\ placeNow(n) = place(n)
  <2>1. \E i \in mine : Cardinality(mine \cap 1..i) = n
    BY DEF Counted
  <2>2. \A i : i \in mine /\ Cardinality(mine \cap 1..i) = n
               <=> i \in grown /\ Cardinality(grown \cap 1..i) = n
    <3> HIDE DEF mine, grown, last, count
    <3>1. Cardinality(grown \cap 1..last) # n
      BY <1>2, <1>5
    <3> TAKE i
    <3>2. CASE i \in mine
      BY <1>1, <1>4, <3>2
    <3>3. CASE i = last
      BY <1>1, <3>1, <3>3
    <3> QED BY <1>1, <3>2, <3>3
  <2> HIDE DEF mine, grown
  <2> QED BY <2>1, <2>2 DEF Nth
<1>10. placeNow(count + 1) = last
  <2>1. \A i : i \in grown /\ Cardinality(grown \cap 1..i) = count + 1 <=> i = last
    <3>1. \A i \in mine : Cardinality(grown \cap 1..i) # count + 1
      <4>1. \A i \in mine : i \in Nat
        BY <1>1
      <4> HIDE DEF mine, grown, last
      <4> QED BY <1>2, <1>4, <4>1
    <3>2. Cardinality(grown \cap 1..last) = count + 1
      BY <1>3, <1>5
    <3> HIDE DEF mine, grown, last, count
    <3> QED BY <1>1, <3>1, <3>2
  <2> HIDE DEF mine, grown, last, count
  <2> QED BY <2>1 DEF Nth
<1>11. Counted(u, Append(table, row))
  <2> SUFFICES ASSUME NEW n \in 1..(count + 1)
               PROVE  \E i \in grown : Cardinality(grown \cap 1..i) = n
    BY <1>3 DEF Counted
  <2>1. CASE n = count + 1
    BY <1>1, <1>3, <1>5, <2>1
  <2>2. CASE n # count + 1
    <3>1. n \in 1..count
      BY <1>2, <2>2
    <3>2. PICK i \in mine : Cardinality(mine \cap 1..i) = n
      BY <3>1 DEF Counted
    <3> QED BY <1>1, <1>4, <3>2
  <2> QED BY <2>1, <2>2
<1>12. TurnsOf(u, Append(table, row)) = Append(TurnsOf(u, table), row.turn)
  <2> HIDE DEF mine, grown, last, count, place, placeNow
  <2>1. Len(TurnsOf(u, table)) = count
    BY <1>2, <1>7
  <2>2. \A n \in 1..count : Append(table, row)[placeNow(n)].turn = table[place(n)].turn
    BY <1>6, <1>9
  <2>3. Append(table, row)[placeNow(count + 1)].turn = row.turn
    BY <1>6, <1>10
  <2> DEFINE before == TurnsOf(u, table)
             after  == TurnsOf(u, Append(table, row))
  <2>4. /\ DOMAIN after = 1..(count + 1)
        /\ after = [n \in DOMAIN after |-> after[n]]
        /\ \A n \in 1..count : after[n] = before[n]
        /\ after[count + 1] = row.turn
    <3>1. \A n \in 1..count : n \in 1..(count + 1)
      BY <1>2
    <3>2. count + 1 \in 1..(count + 1)
      BY <1>2
    <3> QED BY <1>7, <1>8, <2>2, <2>3, <3>1, <3>2, Zenon
  <2> HIDE DEF before, after
  <2>5. before \in Seq(Turns) /\ Len(before) = count
    BY <2>1 DEF before
  <2> QED BY <1>2, <2>4, <2>5 DEF before, after
<1> QED BY <1>11, <1>12

\* The argument for ConversationInOrder: SQLite's rows can be counted through.
Books == ConversationInOrder /\ \A u \in Users : Counted(u, rows)

LEMMA InitBooks == Init => Books
<1> SUFFICES ASSUME Init PROVE Books
  OBVIOUS
<1>1. ASSUME NEW u \in Users
      PROVE  TurnsOf(u, rows) = <<>> /\ Counted(u, rows)
  <2>1. Mine(u, rows) = {} /\ Cardinality(Mine(u, rows)) = 0
    BY FS_EmptySet DEF Init, Mine
  <2>2. TurnsOf(u, rows) = [n \in 1..0 |-> rows[Nth(Mine(u, rows), n)].turn]
    BY <2>1, TurnsOfMine, Zenon
  <2> QED BY <2>1, <2>2 DEF Counted
<1> QED BY <1>1 DEF Init, Books, ConversationInOrder, GetConversation, NoTurns

LEMMA AppendTurnBooks ==
    ASSUME TypeOK, Books, NEW m \in Messages, handler[m] # None, NEW role \in Roles,
           AppendTurn(m, role), UNCHANGED backend
    PROVE  Books'
<1> DEFINE turn == <<role, m>>
           row  == [user_id |-> User(m), turn |-> turn, timestamp |-> clock]
<1>1. User(m) \in Users /\ turn \in Turns /\ row \in Rows
      /\ row.user_id = User(m) /\ row.turn = turn
  BY HandlerTypes DEF Turns, Rows, TypeOK
<1>2. /\ said' = [said EXCEPT ![User(m)] = Append(said[User(m)], turn)]
      /\ IF backend = "in_memory"
         THEN /\ conversations' = [conversations EXCEPT
                                       ![User(m)] = Append(conversations[User(m)], turn)]
              /\ rows' = rows
         ELSE conversations' = conversations /\ rows' = Append(rows, row)
  BY DEF AppendTurn
<1> HIDE DEF turn, row
<1> SUFFICES ASSUME NEW u \in Users
             PROVE  (GetConversation(u) = said[u])' /\ Counted(u, rows')
  BY DEF Books, ConversationInOrder
<1>3. GetConversation(u) = said[u] /\ Counted(u, rows)
  BY DEF Books, ConversationInOrder
<1>4. said'[u] = IF u = User(m) THEN Append(said[u], turn) ELSE said[u]
  BY <1>1, <1>2 DEF TypeOK
<1>5. CASE backend = "in_memory"
  BY <1>2, <1>3, <1>4, <1>5 DEF TypeOK, GetConversation
<1>6. CASE backend # "in_memory"
  <2>1. rows' = Append(rows, row) /\ TurnsOf(u, rows) = said[u]
    BY <1>2, <1>3, <1>6 DEF GetConversation
  <2>2. GetConversation(u)' = TurnsOf(u, rows')
    BY <1>6 DEF GetConversation
  <2>3. rows \in Seq(Rows) /\ said[u] \in Seq(Turns)
    BY DEF TypeOK
  <2>4. CASE u = User(m)
    BY <1>1, <1>3, <1>4, <2>1, <2>2, <2>3, <2>4, OwnRow
  <2>5. CASE u # User(m)
    BY <1>1, <1>3, <1>4, <2>1, <2>2, <2>3, <2>5, OthersRow
  <2> QED BY <2>4, <2>5
<1> QED BY <1>5, <1>6

LEMMA NextBooks == TypeOK /\ Books /\ [Next]_vars => Books'
<1> SUFFICES ASSUME TypeOK, Books, [Next]_vars PROVE Books'
  OBVIOUS
<1>1. ASSUME NEW m \in Messages, AppendInbound(m) \/ AppendOutbound(m) PROVE Books'
  BY <1>1, AppendTurnBooks DEF AppendInbound, AppendOutbound, Runs, Roles
<1>2. CASE UNCHANGED <<backend, conversations, rows, said>>
  BY <1>2 DEF Books, ConversationInOrder, GetConversation
<1>3. CASE Restart /\ backend # "sqlite"
  <2>1. backend = "in_memory" /\ UNCHANGED <<backend, rows>> /\ conversations' = said'
    BY <1>3 DEF Restart, TypeOK
  <2> QED BY <2>1 DEF Books, ConversationInOrder, GetConversation
<1>4. \/ \E m \in Messages : AppendInbound(m) \/ AppendOutbound(m)
      \/ UNCHANGED <<backend, conversations, rows, said>>
      \/ Restart /\ backend # "sqlite"
  BY DEF Next, Receive, Step, GetUser, CreateUser, ListActiveTasks, CreateTask, FillTask,
         UpdateTask, Fail, SetClock, Restart, stored, vars
<1> QED BY <1>1, <1>2, <1>3, <1>4

(* A conversation is read back in the order it was held, for any number of *)
(* turns and users, whatever the clock does (sqlite.py:113-127).           *)
THEOREM ConversationAlwaysInOrder == Spec => []ConversationInOrder
<1>1. Inv => TypeOK
  BY DEF Inv
<1>2. Books => ConversationInOrder
  BY DEF Books
<1> QED BY <1>1, <1>2, InitBooks, NextBooks, InvHolds, PTL DEF Spec

--------------------------------------------------------------------------------
(* The memory the runtime counts on                                        *)

\* The fields of a user's only task are the user's facts.
FactsFromTask ==
    \A u \in Users : \A t \in TasksOf(u) : Facts(u) = tasks[t].known

LEMMA FactsOfTask == TypeOK /\ OneTask => FactsFromTask
<1> SUFFICES ASSUME TypeOK, OneTask, NEW u \in Users, NEW t \in TasksOf(u)
             PROVE  Facts(u) = tasks[t].known
  BY DEF FactsFromTask
<1>1. t \in TaskIds /\ tasks[t] \in Tasks /\ \A s \in TasksOf(u) : s = t
  BY DEF TypeOK, TasksOf, OneTask
<1>2. tasks[t].created_at \in Nat
  BY <1>1, MaxTimeAssumption DEF Tasks, Times
<1>3. Newest(u) = {t}
  BY <1>1, <1>2 DEF Newest
<1>4. (CHOOSE s \in Newest(u) : TRUE) = t
  BY <1>3
<1> QED BY <1>1, <1>4 DEF Facts

LEMMA NoFactsWithoutTask ==
    ASSUME NEW u \in Users, TasksOf(u) = {}
    PROVE  Facts(u) = None
BY DEF Facts
\* A step that changes neither users nor tasks is a stutter of the memory.
LEMMA StoreStutters ==
    ASSUME UNCHANGED <<users, tasks>>
    PROVE  UNCHANGED Store!vars
<1>1. ASSUME NEW u \in Users PROVE Facts(u)' = Facts(u)
  BY DEF Facts, TasksOf, Newest
<1> QED BY <1>1 DEF Store!vars

LEMMA CreateUserIntroduces ==
    ASSUME Inv, NEW m \in Messages, CreateUser(m)
    PROVE  Store!Next
<1> PICK v \in Users : v = User(m)
  BY HandlerTypes DEF CreateUser, Runs, Inv
<1>1. UNCHANGED tasks /\ \A u \in Users : users'[u] # None <=> users[u] # None \/ u = v
  BY CreateUserKept
<1>2. ASSUME NEW u \in Users PROVE Facts(u)' = Facts(u)
  BY <1>1 DEF Facts, TasksOf, Newest
<1>3. {u \in Users : users[u] # None}' = {u \in Users : users[u] # None} \cup {v}
  BY <1>1
<1>4. Store!Introduce(v)
  BY <1>2, <1>3 DEF Store!Introduce
<1> QED BY <1>4 DEF Store!Next

LEMMA CreateTaskBegins ==
    ASSUME Inv, NEW m \in Messages, CreateTask(m)
    PROVE  Store!Begin(User(m))
<1> PICK u \in Users : u = User(m)
  BY HandlerTypes DEF CreateTask, Runs, Inv
<1>1. /\ UNCHANGED users /\ TypeOK' /\ OneTask'
      /\ users[u] # None /\ TasksOf(u) = {}
  BY CreateTaskKept DEF Kept
<1>2. PICK t \in TaskIds : tasks[t] = None /\ tasks' = [tasks EXCEPT ![t] = NewTask(m)]
  BY CreateTaskKept
<1>3. tasks'[t] = NewTask(m) /\ \A s \in TaskIds : s # t => tasks'[s] = tasks[s]
  BY <1>2 DEF Inv, TypeOK
<1>4. NewTask(m) # None /\ NewTask(m).user_id = u /\ NewTask(m).known = {}
  <2>1. NewTask(m) \in Tasks
    BY <1>1 DEF NewTask, Tasks, Inv, TypeOK
  <2> QED BY <2>1 DEF NewTask
<1>5. t \in TasksOf(u)' /\ tasks'[t].known = {}
  BY <1>3, <1>4 DEF TasksOf
<1>6. Facts(u) = None
  BY <1>1, NoFactsWithoutTask
<1>7. ASSUME NEW v \in Users PROVE Facts(v)' = IF v = u THEN {} ELSE Facts(v)
  <2>1. CASE v = u
    <3>1. FactsFromTask'
      BY <1>1, FactsOfTask, PTL
    <3> QED BY <1>1, <1>5, <2>1, <3>1 DEF FactsFromTask
  <2>2. CASE v # u
    <3>1. TasksOf(v)' = TasksOf(v) /\ \A s \in TasksOf(v) : s # t
      BY <1>2, <1>3, <1>4, <2>2 DEF TasksOf
    <3>2. \A s \in TasksOf(v) : tasks'[s] = tasks[s]
      BY <1>3, <3>1 DEF TasksOf
    <3>3. Newest(v)' = Newest(v) /\ Newest(v) \subseteq TasksOf(v)
      BY <3>1, <3>2 DEF Newest
    <3>4. CASE TasksOf(v) = {}
      BY <2>2, <3>1, <3>4 DEF Facts
    <3>5. CASE TasksOf(v) # {}
      <4>1. PICK s \in TasksOf(v) : TRUE
        BY <3>5
      <4>2. FactsFromTask /\ FactsFromTask'
        BY <1>1, FactsOfTask, PTL DEF Inv
      <4> QED BY <2>2, <3>1, <3>2, <4>1, <4>2 DEF FactsFromTask
    <3> QED BY <3>4, <3>5
  <2> QED BY <2>1, <2>2
<1> QED BY <1>1, <1>6, <1>7 DEF Store!Begin
\* A task that gains fields: its user learns them.
LEMMA LearningLearns ==
    ASSUME Inv, NEW m \in Messages, At(m, {"fill", "update"}),
           NEW known \in SUBSET Fields, UNCHANGED users, TypeOK', OneTask',
           tasks' = [tasks EXCEPT ![handler[m].task] =
                        [tasks[handler[m].task] EXCEPT
                            !.known = tasks[handler[m].task].known \cup known]]
    PROVE  Store!Learn(User(m), known)
<1> PICK u \in Users, t \in TaskIds : u = User(m) /\ t = handler[m].task
  BY HasTask, HandlerTypes DEF Inv, At
<1>1. tasks[t] \in Tasks /\ tasks[t] # None /\ tasks[t].user_id = u
  BY HasTask
<1> DEFINE task == [tasks[t] EXCEPT !.known = tasks[t].known \cup known]
<1>2. task \in Tasks /\ task # None /\ task.user_id = u
      /\ task.created_at = tasks[t].created_at
      /\ task.known = tasks[t].known \cup known
  BY <1>1 DEF Tasks
<1>3. tasks' = [tasks EXCEPT ![t] = task]
  OBVIOUS
<1> HIDE DEF task
<1>4. tasks'[t] = task /\ \A s \in TaskIds : s # t => tasks'[s] = tasks[s]
  BY <1>3 DEF Inv, TypeOK
<1>5. FactsFromTask /\ FactsFromTask'
  BY FactsOfTask, PTL DEF Inv
<1>6. t \in TasksOf(u) /\ t \in TasksOf(u)'
  BY <1>1, <1>2, <1>4 DEF TasksOf
<1>7. Facts(u) = tasks[t].known /\ Facts(u)' = tasks[t].known \cup known
  BY <1>2, <1>4, <1>5, <1>6 DEF FactsFromTask
<1>8. ASSUME NEW v \in Users, v # u PROVE Facts(v)' = Facts(v)
  <2>1. TasksOf(v)' = TasksOf(v) /\ \A s \in TasksOf(v) : s # t
    BY <1>1, <1>2, <1>4, <1>8 DEF TasksOf
  <2>2. CASE TasksOf(v) = {}
    BY <2>1, <2>2 DEF Facts
  <2>3. CASE TasksOf(v) # {}
    <3>1. PICK s \in TasksOf(v) : TRUE
      BY <2>3
    <3>2. s \in TasksOf(v)' /\ tasks'[s] = tasks[s]
      BY <1>4, <2>1, <3>1 DEF TasksOf
    <3>3. Facts(v) = tasks[s].known
      BY <1>5, <3>1 DEF FactsFromTask
    <3>4. Facts(v)' = tasks'[s].known
      BY <1>5, <3>2 DEF FactsFromTask
    <3> QED BY <3>2, <3>3, <3>4
  <2> QED BY <2>2, <2>3
<1>9. Facts(u) # None
  BY <1>1, <1>7 DEF Tasks
<1> QED BY <1>7, <1>8, <1>9 DEF Store!Learn

LEMMA RestartForgets ==
    ASSUME Restart
    PROVE  Store!Forget \/ UNCHANGED Store!vars
<1>1. CASE backend = "sqlite"
  BY <1>1, StoreStutters DEF Restart, stored
<1>2. CASE backend # "sqlite"
  <2>1. users' = NoUsers /\ tasks' = NoTasks
    BY <1>2 DEF Restart
  <2>2. ASSUME NEW u \in Users PROVE Facts(u)' = None /\ users'[u] = None
    BY <2>1 DEF Facts, TasksOf, NoTasks, NoUsers
  <2> QED BY <2>2 DEF Store!Forget, Store!NoFacts
<1> QED BY <1>1, <1>2

(* Either backend, under the calls the runtime makes, implements the       *)
(* memory: profiles stay, a user has one task, and it only gains fields.   *)
THEOREM BackendsImplementMemory == Spec => MemorySpec
<1>1. Init => Store!Init
  <2> SUFFICES ASSUME Init PROVE Store!Init
    OBVIOUS
  <2>1. ASSUME NEW u \in Users PROVE Facts(u) = None /\ users[u] = None
    BY DEF Init, Facts, TasksOf, NoTasks, NoUsers
  <2> QED BY <2>1 DEF Store!Init, Store!NoFacts
<1>2. Inv /\ [Next]_vars => [Store!Next]_(Store!vars)
  <2> SUFFICES ASSUME Inv, [Next]_vars PROVE [Store!Next]_(Store!vars)
    OBVIOUS
  <2>1. ASSUME NEW m \in Messages, CreateUser(m) PROVE Store!Next
    BY <2>1, CreateUserIntroduces
  <2>2. ASSUME NEW m \in Messages, CreateTask(m) PROVE Store!Next
    <3>1. User(m) \in Users
      BY <2>2, HandlerTypes DEF CreateTask, Runs, Inv
    <3> QED BY <2>2, <3>1, CreateTaskBegins DEF Store!Next
  <2>3. ASSUME NEW m \in Messages, FillTask(m) PROVE [Store!Next]_(Store!vars)
    <3>1. CASE UNCHANGED tasks
      BY <2>3, <3>1, FillTaskKept, StoreStutters
    <3>2. CASE tasks' = [tasks EXCEPT ![handler[m].task].known = @ \cup handler[m].plan]
      <4>1. /\ At(m, {"fill", "update"}) /\ UNCHANGED users /\ TypeOK' /\ OneTask'
            /\ handler[m] # None
        BY <2>3, FillTaskKept DEF Kept, At
      <4>2. handler[m].plan \in SUBSET Fields /\ User(m) \in Users
        BY <4>1, HandlerTypes DEF Inv
      <4>3. Store!Learn(User(m), handler[m].plan)
        BY <3>2, <4>1, <4>2, LearningLearns
      <4> QED BY <4>2, <4>3 DEF Store!Next
    <3> QED BY <2>3, <3>1, <3>2, FillTaskKept
  <2>4. ASSUME NEW m \in Messages, UpdateTask(m) PROVE [Store!Next]_(Store!vars)
    <3> DEFINE t == handler[m].task
               known == handler[m].object.known
    <3>1. /\ At(m, {"fill", "update"}) /\ UNCHANGED users /\ TypeOK' /\ OneTask'
          /\ \/ UNCHANGED tasks
             \/ tasks' = [tasks EXCEPT ![t] = [tasks[t] EXCEPT !.known = known]]
      BY <2>4, UpdateTaskKept DEF Kept
    <3>2. /\ handler[m] # None /\ known \in SUBSET Fields
          /\ known = tasks[t].known \cup known
      BY <3>1, HasTask DEF At, Tasks
    <3>3. CASE UNCHANGED tasks
      BY <3>1, <3>3, StoreStutters
    <3>4. CASE tasks' = [tasks EXCEPT ![t] = [tasks[t] EXCEPT !.known = known]]
      <4>1. tasks' = [tasks EXCEPT ![t] =
                         [tasks[t] EXCEPT !.known = tasks[t].known \cup known]]
        BY <3>2, <3>4
      <4>2. Store!Learn(User(m), known)
        BY <3>1, <3>2, <4>1, LearningLearns
      <4>3. User(m) \in Users
        BY <3>2, HandlerTypes DEF Inv
      <4> QED BY <3>2, <4>2, <4>3 DEF Store!Next
    <3> QED BY <3>1, <3>3, <3>4
  <2>5. CASE Restart
    BY <2>5, RestartForgets DEF Store!Next
  <2>6. CASE UNCHANGED <<users, tasks>>
    BY <2>6, StoreStutters
  <2>7. \/ \E m \in Messages : CreateUser(m) \/ CreateTask(m) \/ FillTask(m) \/ UpdateTask(m)
        \/ Restart
        \/ UNCHANGED <<users, tasks>>
    BY DEF Next, Receive, Step, GetUser, AppendInbound, ListActiveTasks, AppendOutbound,
           Fail, SetClock, stored, vars
  <2> QED BY <2>1, <2>2, <2>3, <2>4, <2>5, <2>6, <2>7
<1> QED BY <1>1, <1>2, InvHolds, PTL DEF Spec, MemorySpec, Store!Spec
================================================================================
