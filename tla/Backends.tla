-------------------------------- MODULE Backends --------------------------------
(***************************************************************************)
(* The two memory backends (luna/memory/backends/in_memory.py, sqlite.py)  *)
(* under the calls the runtime makes for one message (agent/runtime.py).   *)
(*                                                                         *)
(* They differ in what they hand out.  The in-memory backend returns the   *)
(* stored TravelTask itself: who changes it changes the store.  SQLite     *)
(* returns a copy made from the row: nothing is stored before UPDATE, and  *)
(* then the whole copy is, however old it is.  They differ too where a     *)
(* call meets what it did not expect: create_user() for a known user, or   *)
(* update_task() for an unknown task.  The properties say that the runtime *)
(* never notices.                                                          *)
(*                                                                         *)
(* From the user's profile to the stored task a handler never awaits, so   *)
(* it holds the event loop; then a tool may await, then the reply is       *)
(* written.  Timestamps come from the wall clock, which may be set back.   *)
(***************************************************************************)
EXTENDS Naturals, Sequences, FiniteSets

CONSTANTS
    Users,
    Messages,   \* identities of the messages handled: bounds their number
    TaskIds,    \* uuids of tasks: bounds their number
    Fields,     \* names of the travel fields
    None,
    MaxTime     \* bound on the clock

ASSUME MaxTimeAssumption == MaxTime \in Nat

Times == 0 .. MaxTime
Roles == {"user", "luna"}
Turns == Roles \X Messages

\* TravelTask: of its planned fields the ones that are merged.
Tasks == [user_id: Users, known: SUBSET Fields, created_at: Times]

Labels == {"get_user", "create_user", "turn", "list", "create", "fill", "update",
           "tool", "done", "failed", "lost"}
Ended  == {"done", "failed", "lost"}

\* task: the id of the task a handler works on.  object: the TravelTask it holds.
Handlers == [user: Users, plan: SUBSET Fields, pc: Labels,
             task: TaskIds \cup {None}, object: Tasks \cup {None}]

ASSUME NoneAssumption == None \notin Messages \cup Times \cup TaskIds \cup Tasks \cup Handlers
ASSUME NoneIsNoFacts == \A known \in SUBSET Fields : known # None

VARIABLES
    backend,        \* LUNA_MEMORY_BACKEND
    users,          \* _users, or the table users: created_at of each user
    tasks,          \* _tasks, or the table tasks
    conversations,  \* _conversations: a list per user
    rows,           \* the table conversation_turns, by its AUTOINCREMENT id
    said,           \* what append_turn() was called for, by user (history)
    handler,        \* the handler of each message
    loop,           \* the message whose handler holds the event loop, or None
    clock           \* the wall clock

stored == <<users, tasks, conversations, rows, said>>
vars   == <<backend, users, tasks, conversations, rows, said, handler, loop, clock>>

Rows == [user_id: Users, turn: Turns, timestamp: Times]

TypeOK ==
    /\ backend \in {"in_memory", "sqlite"}
    /\ users \in [Users -> Times \cup {None}]
    /\ tasks \in [TaskIds -> Tasks \cup {None}]
    /\ conversations \in [Users -> Seq(Turns)]
    /\ rows \in Seq(Rows)
    /\ said \in [Users -> Seq(Turns)]
    /\ handler \in [Messages -> Handlers \cup {None}]
    /\ loop \in Messages \cup {None}
    /\ clock \in Times

NoUsers == [u \in Users |-> None]
NoTasks == [t \in TaskIds |-> None]
NoTurns == [u \in Users |-> <<>>]

Init ==
    /\ backend \in {"in_memory", "sqlite"}
    /\ users = NoUsers /\ tasks = NoTasks
    /\ conversations = NoTurns /\ rows = <<>> /\ said = NoTurns
    /\ handler = [m \in Messages |-> None]
    /\ loop = None
    /\ clock \in Times

--------------------------------------------------------------------------------
(* How a handler moves                                                     *)

User(m) == handler[m].user

Runs(m, label) == /\ handler[m] # None /\ handler[m].pc = label
                  /\ loop \in {m, None}

GoTo(m, label) == /\ handler' = [handler EXCEPT ![m].pc = label]
                  /\ loop' = m

Yield(m, label) == /\ handler' = [handler EXCEPT ![m].pc = label]
                   /\ loop' = None

Ending(m, label) == [handler[m] EXCEPT !.pc = label, !.task = None, !.object = None]

\* It goes on with the TravelTask of id t.
Hold(m, t, object, label) ==
    /\ handler' = [handler EXCEPT ![m].pc = label, ![m].task = t, ![m].object = object]
    /\ loop' = m

\* A message comes in that gets as far as the planner; plan is what it will find.
Receive(m, u, plan) ==
    /\ handler[m] = None
    /\ handler' = [handler EXCEPT ![m] = [user |-> u, plan |-> plan, pc |-> "get_user",
                                          task |-> None, object |-> None]]
    /\ UNCHANGED <<backend, stored, loop, clock>>

--------------------------------------------------------------------------------
(* Users and conversations                                                 *)

\* A slip: the profile is created as a matter of course.
GetUserAnyway(m) ==
    /\ Runs(m, "get_user")
    /\ GoTo(m, "create_user")
    /\ UNCHANGED <<backend, stored, clock>>

\* get_user(): a profile is created only where there is none.
GetUser(m) ==
    /\ Runs(m, "get_user")
    /\ GoTo(m, IF users[User(m)] = None THEN "create_user" ELSE "turn")
    /\ UNCHANGED <<backend, stored, clock>>

\* create_user(): the dictionary is assigned to, the table keeps what it has.
CreateUser(m) ==
    /\ Runs(m, "create_user")
    /\ users' = [users EXCEPT ![User(m)] =
                    IF backend = "sqlite" /\ @ # None THEN @ ELSE clock]
    /\ GoTo(m, "turn")
    /\ UNCHANGED <<backend, tasks, conversations, rows, said, clock>>

\* append_turn()
AppendTurn(m, role) ==
    LET u == User(m) IN
    /\ IF backend = "in_memory"
       THEN /\ conversations' = [conversations EXCEPT ![u] = Append(@, <<role, m>>)]
            /\ UNCHANGED rows
       ELSE /\ rows' = Append(rows, [user_id |-> u, turn |-> <<role, m>>,
                                     timestamp |-> clock])
            /\ UNCHANGED conversations
    /\ said' = [said EXCEPT ![u] = Append(@, <<role, m>>)]

AppendInbound(m) ==
    /\ Runs(m, "turn")
    /\ AppendTurn(m, "user")
    /\ GoTo(m, "list")
    /\ UNCHANGED <<backend, users, tasks, clock>>

\* After the tool, which may have awaited the network.
AppendOutbound(m) ==
    /\ Runs(m, "tool")
    /\ AppendTurn(m, "luna")
    /\ handler' = [handler EXCEPT ![m] = Ending(m, "done")]
    /\ loop' = None
    /\ UNCHANGED <<backend, users, tasks, clock>>

\* The rows of a user, as the table has them.
TurnsOf(u, table) ==
    LET mine   == {i \in DOMAIN table : table[i].user_id = u}
        row(n) == table[CHOOSE i \in mine : Cardinality(mine \cap 1..i) = n]
    IN  [n \in 1..Cardinality(mine) |-> row(n).turn]

\* A slip: ORDER BY timestamp, as for tasks and events.
ConversationByTime(u) ==
    IF backend = "in_memory" THEN conversations[u]
    ELSE LET upTo[t \in Times] ==
                 (IF t = 0 THEN <<>> ELSE upTo[t - 1])
                     \o SelectSeq(rows, LAMBDA row : row.timestamp = t)
         IN  TurnsOf(u, upTo[MaxTime])

\* get_conversation(): the list, or the user's rows ORDER BY id.
GetConversation(u) ==
    IF backend = "in_memory" THEN conversations[u] ELSE TurnsOf(u, rows)

--------------------------------------------------------------------------------
(* Tasks                                                                   *)

TasksOf(u) == {t \in TaskIds : tasks[t] # None /\ tasks[t].user_id = u}

\* active_tasks[-1]: ordered by created_at, in no order where these are equal.
Newest(u) == {t \in TasksOf(u) :
                 \A s \in TasksOf(u) : tasks[s].created_at <= tasks[t].created_at}

\* A slip: the planner call is awaited.
ListThenAwait(m) ==
    /\ Runs(m, "list")
    /\ \/ /\ TasksOf(User(m)) = {}
          /\ Yield(m, "create")
       \/ \E t \in Newest(User(m)) :
             /\ handler' = [handler EXCEPT ![m].pc = "fill", ![m].task = t,
                                           ![m].object = tasks[t]]
             /\ loop' = None
    /\ UNCHANGED <<backend, stored, clock>>

\* list_active_tasks(), then planner.run().  No code ends a task: all are active.
ListActiveTasks(m) ==
    /\ Runs(m, "list")
    /\ \/ /\ TasksOf(User(m)) = {}
          /\ GoTo(m, "create")
       \/ \E t \in Newest(User(m)) : Hold(m, t, tasks[t], "fill")
    /\ UNCHANGED <<backend, stored, clock>>

\* A slip: the date is left to the database.
NewTaskUndated(m) == [user_id |-> User(m), known |-> {}, created_at |-> None]

NewTask(m) == [user_id |-> User(m), known |-> {}, created_at |-> clock]

\* A slip: the task is left for update_task() to store.
CreateTaskUnstored(m) ==
    /\ Runs(m, "create")
    /\ \E t \in TaskIds :
          /\ tasks[t] = None
          /\ Hold(m, t, NewTask(m), "fill")
    /\ UNCHANGED <<backend, stored, clock>>

\* create_task(): stored under a new id.
CreateTask(m) ==
    /\ Runs(m, "create")
    /\ \E t \in TaskIds :
          /\ tasks[t] = None
          /\ tasks' = [tasks EXCEPT ![t] = NewTask(m)]
          /\ Hold(m, t, NewTask(m), "fill")
    /\ UNCHANGED <<backend, users, conversations, rows, said, clock>>

\* The object, after the assignments of _update_task().
Filled(m) ==
    [handler[m].object EXCEPT !.known = @ \cup handler[m].plan]

\* The assignments: in memory to the stored object, if it is stored.
FillTask(m) ==
    LET t == handler[m].task IN
    /\ Runs(m, "fill")
    /\ tasks' = IF backend = "in_memory" /\ tasks[t] # None
                THEN [tasks EXCEPT ![t].known = @ \cup handler[m].plan] ELSE tasks
    /\ Hold(m, t, IF backend = "in_memory" /\ tasks[t] # None
                  THEN tasks'[t] ELSE Filled(m), "update")
    /\ UNCHANGED <<backend, users, conversations, rows, said, clock>>

\* update_task(): the object is put under its id, or the row, if there is one,
\* gets the object's values, all but created_at and user_id.
UpdateTask(m) ==
    LET t      == handler[m].task
        object == handler[m].object
    IN
    /\ Runs(m, "update")
    /\ tasks' = [tasks EXCEPT ![t] =
                    IF backend = "in_memory" THEN object
                    ELSE IF @ = None THEN @ ELSE [@ EXCEPT !.known = object.known]]
    /\ Yield(m, "tool")
    /\ UNCHANGED <<backend, users, conversations, rows, said, clock>>

--------------------------------------------------------------------------------
(* Failures and the clock                                                  *)

\* sqlite3 raises in the next call: the webhook ends with an HTTP error.
Fail(m) ==
    /\ backend = "sqlite"
    /\ handler[m] # None /\ handler[m].pc \notin Ended \cup {"fill"}
    /\ loop \in {m, None}
    /\ handler' = [handler EXCEPT ![m] = Ending(m, "failed")]
    /\ loop' = None
    /\ UNCHANGED <<backend, stored, clock>>

\* The process ends and is started again.
Restart ==
    /\ handler' = [m \in Messages |->
                      IF handler[m] # None /\ handler[m].pc \notin Ended
                      THEN Ending(m, "lost") ELSE handler[m]]
    /\ loop' = None
    /\ IF backend = "sqlite" THEN UNCHANGED stored
       ELSE /\ users' = NoUsers /\ tasks' = NoTasks
            /\ conversations' = NoTurns /\ said' = NoTurns
            /\ UNCHANGED rows
    /\ UNCHANGED <<backend, clock>>

\* Time passes, or the clock is set back.
SetClock ==
    /\ clock' \in Times
    /\ UNCHANGED <<backend, stored, handler, loop>>

Step(m) ==
    \/ GetUser(m) \/ CreateUser(m) \/ AppendInbound(m)
    \/ ListActiveTasks(m) \/ CreateTask(m) \/ FillTask(m) \/ UpdateTask(m)
    \/ AppendOutbound(m)

Next ==
    \/ \E m \in Messages, u \in Users, plan \in SUBSET Fields : Receive(m, u, plan)
    \/ \E m \in Messages : Step(m) \/ Fail(m)
    \/ Restart
    \/ SetClock

Spec == Init /\ [][Next]_vars

--------------------------------------------------------------------------------
(* Safety                                                                  *)

(* What a user said is stored by the time the user gets the reply: while a *)
(* handler waits for its tool, the task in the store has the fields of its *)
(* plan, on either backend and whoever else ran since.  SQLite would drop  *)
(* the update of a task that was not inserted (runtime.py:88-101,          *)
(* sqlite.py:184-207).                                                     *)
PlanIsStored ==
    \A m \in Messages :
        handler[m] # None /\ handler[m].pc = "tool" =>
            \E t \in TasksOf(User(m)) : handler[m].plan \subseteq tasks[t].known

(* A user's profile is never made again over the old one, though in memory *)
(* create_user() would do it without a word (runtime.py:49-52,             *)
(* in_memory.py:28-31, sqlite.py:102-109).                                 *)
ProfileNeverReplaced ==
    [][\A u \in Users :
          users[u] # None /\ users'[u] # None => users'[u] = users[u]]_vars

(* A conversation is read back in the order it was held, on either backend *)
(* and whatever is done to the clock (sqlite.py:113-127).                  *)
ConversationInOrder == \A u \in Users : GetConversation(u) = said[u]

\* What the active task of a user knows.
Facts(u) == IF TasksOf(u) = {} THEN None
            ELSE tasks[CHOOSE t \in Newest(u) : TRUE].known

(* Either backend is the Memory the runtime counts on: handing out stored  *)
(* objects or copies comes to the same, no update is lost to an older copy *)
(* and no user has a second task (runtime.py:82-101, 154-164).             *)
Store == INSTANCE Memory WITH
            profiles <- {u \in Users : users[u] # None},
            facts    <- [u \in Users |-> Facts(u)]

MemorySpec == Store!Spec
================================================================================
