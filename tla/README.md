# A verification of Luna

Luna (`src/luna`, Python, FastAPI) is a travel assistant on SMS. These TLA+ modules model the
parts of it where order, time and failure matter. TLC checks them on small instances, and TLAPS
proves the most important safety properties for every value of the constants.

Paths below are relative to `src/luna` unless they start with `src/`.

## 1. Inventory

| component | state | operations | what makes it correct |
|---|---|---|---|
| confirmation store and resolver (`confirmation/`) | `_store` (id → confirmation), `_user_pending` (user → id), both in memory | `create`, `get_pending`, `resolve`, `resolve_inbound` | the index holds the user's own undecided confirmation; a decision is final, never late, and taken on the open question only |
| proactive gate (`scheduler/proactive_engine.py`, `gateway/router.py:59-94`) | none of its own; reads the event log, the confirmation index and the clock | `evaluate`, the `proactive_sent` entry of its caller | cap per day, in the log and in what is received; retry at the next moment the window is open; deferral while a question is open |
| agent runtime (`agent/runtime.py`, `agent/task_manager.py`, `gateway/event_gateway.py`) | tasks, profiles, conversation turns, event log (in the backend); the locals of each handler | thirteen steps of `handle()` | one active task per user, which only learns; a truthful and ordered record, a source for every decision, no claim of a booking in a reply, every message answered |
| policy (`policy/policy.py`) | none | `check_inbound`, `check_outbound` | commands first, no claim of a booking leaves |
| planner (`reasoning/planner.py`) | trace data of one call | `run`, two attempts, fallback | always a plan, at most one retry, a truthful trace, no tool selected without its arguments |
| tools and location (`tools/`, `location/`) | a cache of implementations | `dispatch`, `run`, `normalize_location` | one status per call, whatever the network and the arguments do; "ok" only from a tool that is on |
| backends (`memory/`, `events/`) | users, turns, tasks, events, in dictionaries or SQLite tables | one call, one commit | both backends are the same memory to the runtime: nothing learned is lost, no profile replaced, conversations in order |
| composer (`composer/`) | none | `compose` | every reply fits one SMS: rewrite, option cap, prompt, length cap |
| channels and routes (`channels/`, `gateway/router.py`) | none | parse, answer, `send_reply` | the user reads what is on record; a message is answered before it is acknowledged; only messages of users are answered |
| scheduler jobs, orchestrator stub, `workflow/`, `safety/`, settings | none | none that anything calls | the docstrings of `safety/` promise what the runtime should keep |

**How they interact.** A webhook awaits the body of the request, calls `event_gateway.handle`,
which calls `runtime.handle`, and then delivers the reply. The runtime calls policy, resolver,
planner, task manager, dispatcher, policy again and composer in turn and writes to the backend in
between. The proactive gate reads what the runtime and the confirmation store wrote. Nothing in
`src/luna` calls `confirmation_store.create`: it is for parts not yet written and for tests, and
the models let the environment call it at any time.

**What is hard.**

* *Interleaving.* All routes are coroutines on one event loop. A handler gives the loop up only
  at the two Open-Meteo calls and at the Telnyx call. Everything between is atomic for other
  handlers, but only as long as nobody adds an `await`.
* *Crashes.* Every SQLite call commits on its own, so a crash or an error leaves a prefix of a
  handler's writes. Confirmations live in memory only.
* *Delivery.* Replies carry no confirmation id and may be late or repeated; webhooks may repeat;
  Telnyx may fail after the reply was recorded as sent, and posts reports of Luna's own SMS to the
  URL of the users' messages.
* *Two memories.* The in-memory backend hands out the objects it stores, SQLite copies; each has
  its own answer to a second profile and to an unknown task; the clock can be set back.
* *Time.* Deadlines, the daily cap and the send window are computed from clocks read at different
  moments.
* *Failure of services.* Claude may answer nonsense or not at all, tools may fail after the draft
  was written.

`PROJECT.json` lists each of these hazards at its line.

## 2. Modules

| module | models | state ↔ code | actions ↔ code |
|---|---|---|---|
| `ConfirmationStore` | store and resolver, one operator per function | `store`, `user_pending`, `now` ↔ `_store`, `_user_pending`, the clock | `Create`, `GetPending`, `Resolve`, `ResolveInbound` |
| `Confirmation` | the store under late, repeated and lost replies | `inbox`: replies users have sent | `AskUser`, `SendReply`, `DeliverReply`, `Tick` |
| `ConfirmationGate` | the promise: one open question per user | `open`, `state` | `Ask`, `Decide` |
| `Proactive` | `evaluate()` and `simulate_proactive()` | `request` (where it is, its decision), `sent` (entries per user and day); `received` is a history of what the caller was handed, by day | `Evaluate` (checks 1-3), `CheckPendingAndWindow` (4-6), `LogSent`, `Respond`, `Restart` |
| `Runtime` | `handle()` for concurrent messages | `users`, `turns`, `tasks`, `log` ↔ the tables; `handler` ↔ the locals, with the `TravelTask` read at step 7 in `held`; `loop` ↔ the event loop; `decided_by` is a history of which message decided a confirmation | one action per write or await: `Gateway` … `Deliver`; `Fail`, `Restart`, `AskUser` |
| `Planner` | `run()`, `_run_claude`, `_run_fallback`, over turns sharing a task | `pc`, `td`, `answers`, `plan`, `log`, `task` (of its known fields, those that are blank are told apart) | `Run`, `FirstAttempt`, `SecondAttempt`, `LogFallbackUsed`, `Fallback`, `LogRun`, `UpdateTask`, `DatabaseFails` |
| `PlannerCall` | the promise of `run()`: one plan, one `planner_run` entry | `calling`, `plan`, `recorded` | `Call`, `Return`, `Fail`, `Use` |
| `Backends` | both backends under the calls of the runtime | `users`, `tasks` ↔ both stores; `conversations` ↔ the lists, `rows` ↔ the table; `said` is a history of what was stored; `handler` ↔ the locals, with the `TravelTask` held | `GetUser`, `CreateUser`, `AppendInbound`, `ListActiveTasks`, `CreateTask`, `FillTask` (the assignments), `UpdateTask`, `AppendOutbound`; `Fail`, `Restart`, `SetClock` |
| `Memory` | the promise of a backend: profiles, and one growing task per user | `profiles`, `facts` | `Introduce`, `Begin`, `Learn`, `Forget` |
| `Composer` | `compose()` as functions on sequences of lines | no state; a line is an option or not, has a length, makes a claim, ends with the beginning of one (`opens`) or begins with the end of one (`closes`) | `LimitOptions`, `Prompt`, `Capped`, `Compose` |
| `Tools` | `dispatch()`, the weather provider, `normalize_location()` | `call`: each call's request, where it waits, its status | `Dispatch` (to the first await), `Geocoded`, `Forecast` |
| `ToolCall` | the promise of `dispatch()`: one status per call, never an exception | `asked`, `answer` | `Call`, `Return`, `CallAndReturn` |
| `Channels` | the three inbound routes and the way back, over `Composer` and `Tools` | `mail`: what was posted; `handler`: where each delivery is, and the reply that `handle()` returns and `Send` or `Answer` hand on; `turns`, `recorded` ↔ the conversation; `carried`: what reached the phone; `acked`: messages with an answer of 2xx | `Parse`, `Handle`, `Decide`, `ToolStep`, `ToolReturned`, `Compile`, `Send`, `Answer`; `Post`, `Report`, `Repost`; `Fail`, `Restart` |

`Confirmation`, `Proactive` and `Runtime` extend `ConfirmationStore`, so the same operators run
against users' replies, under the gate and inside the message loop. `Runtime` calls the planner in
one step, `Plan`; `Planner` is shown to implement that step as `PlannerCall` describes it.
`Channels` extends `Composer` and `Tools`, so each reply it follows has been through both; in it
the message loop of `Runtime` is no more than what it writes and says. `Runtime` has the awaits of a
tool and the first rule of the composer; what goes on inside them is in `Tools` and `Composer`.
`MC*` modules hold the instances, `*Proofs` the theorems.

Definitions introduced by a comment "A slip" are mistakes one could make in the definition below
them. No specification uses them: they are there to show that the properties would notice.

**Abstractions.** A text is the class that policy and resolver put it in; a body or a reply is one
of a few words. The fields of a task are sets of names, so overwriting a value with another is not
seen; what is told apart of a value is whether it is blank, in `Planner`. There a message body is the set of
topics its words name, the kinds of place phrases in it, and whether an end of the journey is blank (`planner.py:406`
matches a single blank, and line 413 strips it to nothing); regular expressions themselves are not modelled (a destination of two words
after "from … to" loses the second to the lazy group of `_RE_FROM_TO`: a matter of text). Time is
counted in ticks. The confirmation's answer repeats `human_summary` without the outbound check
(`runtime.py:71-79`); the model's `canned` covers texts written in the code, and that summary too.
`NoClaimDelivered` is about drafts and tools. `Runtime`'s `Compose` is the composer's first rule; all
four are in `Composer`, where a text is a sequence of lines. The patterns of `policy.py:48-59` match across
line breaks, so a claim is made by one line, or by a line that `opens` it and a later one that `closes` it with
nothing but blank lines between (`JoinedWithout`). Such a phrase is broken in one place, and which opening
goes with which closing is not told apart; a line that is cut keeps its flags, and a cut that happens to
finish a word is not modelled. In `Runtime` a merged task is stored as `_update_task` does it: SQLite gets a
copy of the task read at step 7 with the plan merged in, in memory the object read is the stored one.
`Channels` lets handlers interleave at any step, more than the
event loop does, and takes the database to be durable. In `Backends` every task is active, since no
code ends one, and of the merged fields `known_fields` stands for all.

## 3. Runs

| run | question | instance |
|---|---|---|
| `confirmation` | do the two dictionaries stay in step and implement the gate, for any replies? | 2 users, 3 confirmations, 2 replies delivered any number of times, deadlines of 1 tick in 3 |
| `proactive` | do cap and retry time hold although the clock moves and the process dies during a request? | 2 users, cap 2, SQLite, days of 4 hours of 2 ticks, a clock of 10 ticks that passes midnight; windows ordinary, always open, and at hour 24 |
| `runtime` | what do interleaving, crashes and database errors leave behind, and is every message answered? | 1 user, 2 messages, 5 kinds of body (travel, yes, no, cancel, a document), 3 kinds of plan, 1 confirmation, both backends, with fairness |
| `backends` | are both backends the memory the runtime counts on? | 2 users, 2 messages, 2 task ids, 2 fields, both backends, a clock that moves either way |
| `channels` | does the user read what is on record, once, in one SMS, and only when there was a message? | 2 messages, 2 deliveries, 10 kinds of webhook, 7 kinds of tool request, SMS of 12 characters and 2 options, drafts with a claim on one line, over two, and with an option too many between its halves |
| `planner` | does the log tell the truth, does every selected tool have its arguments, does `run()` behave as one step and end? | 2 turns, 20 kinds of message (places missing, given, and blank), every order of failures, with fairness |
| `vague_yes`, `expired_defers`, `night_window`, `cancel_is_stop`, `stop_forgotten`, `answer_dropped` | does the code do what a comment or the README says? | TLC finds that it does not; the comment above each property quotes the line |

The properties:

* `TypeOK`: the type invariant of each module. Its bite is in the numbers and pairs: deadlines are
  not negative, the retry count is 0 or 1.
* `IndexSound`, `NoLateConfirmation`, `DecidedOnceWhileOpen`, `GateSpec` of the confirmations:
  the index holds only a user's own undecided question; no late YES confirms; a verdict is
  final and belongs to the open question; both together are what `ConfirmationGate` says.
* `DailyCapHolds`, `RetryAtNextOpening`: the count and the entry read the clock apart, and an entry only
  ever lands on the counted day or a later, emptier one. With SQLite that bounds what users *receive*
  too, wherever the process dies, since the entry is stored before the message leaves. With a log in
  memory nothing is claimed of what was received before a restart. The retry time is the first open
  moment.
* `OneActiveTask`, `ProfileFirst`, `AuditPrefix`, `NoClaimDelivered`, `DecisionsAccounted`, `MemorySpec`,
  `EveryMessageEnds`: what the interleaved handlers of `Runtime` may never do to tasks, profiles, record,
  replies and confirmations, and that each ends. `DecisionsAccounted` says that a confirmation which is
  decided was decided by one message of its user, which is remembered in `decided_by`; that message said
  YES if it is confirmed and NO if it is rejected, and its own entry in the log tells that very status,
  unless the entry is what failed, and then no answer is on record either. `MemorySpec` is the same
  `Memory` as `Backends`' below, so what the backends are shown to promise is what the message loop is
  shown to keep to.
* `PlanIsStored`, `ProfileNeverReplaced`, `ConversationInOrder`, `MemorySpec` of `Backends`: what a
  plan found is stored before the tool runs; `create_user` never meets a known user; turns come back in
  order though the clock does not; and through the mapping to `Memory`, no update is lost to an older
  copy and no user gets a second task.
* `ReadAsRecorded`, `AckedIsAnswered`, `OnlyUsersAreAnswered`, `RepliesFit`, `ToolSpec` of `Channels`:
  per handling at most one SMS, and although it is the returned text that is sent it is the one on record; no
  message acknowledged and dropped; no answer to a report or a rejected webhook; every reply within
  length and options, with any rewrite or prompt, and a claim of a booking in it only where the composer
  itself made one, by dropping options that stood between its halves after the check; a tool call
  returns once and never with an exception.
* `TraceMatchesCall`, `SelectedToolCanRun`, `CallSpec`, `EveryTurnEnds`: the trace of each planner call is
  true of it; a tool the keyword planner selects has each argument, but for an end of a journey that the
  message leaves blank; the call is one step to the runtime, and it ends.

**Why the bounds are enough.** Two users suffice for one to be confused with another; three
confirmations for one to be displaced, one decided and one open. Two messages can both be at any
await, or one at an await while the other runs through. Nothing in the code relates three
handlers, and nothing in it relates two users either: the theorems are for any number of them, so
the runtime's run has one, which leaves room for both messages under fairness. `Backends` has two, so
that one's rows could be taken for the other's. Two deliveries are one message posted twice, or two
messages, or a message and the report of its reply. An SMS of 12 characters with two options has every
boundary of one of 280 with three: a list with one option too many, a text as long as the limit, one
longer, a prompt that fits and one that does not. Clocks run past every deadline and past midnight. Two planner turns show what one leaves
for the next. `TTL = 0` in the runtime's runs makes a question that the clock can outrun in one
tick.

**Where the system may stop.** Messages, confirmation ids, turns and the clock are finite in a
run, so the runs that use them up say `CHECK_DEADLOCK FALSE`: all but `backends` and
`proactive`, where something can always happen.

**Fairness.** Two runs are about liveness, `runtime` and `planner`. `Runtime` assumes weak fairness of each handler's steps: the event loop runs what is
ready, and Open-Meteo (timeout 10 s) and Telnyx answer or time out. A handler waiting for the loop
is enabled again when the loop is given back, which every slice does after finitely many steps of
its own, so weak fairness per handler is enough. Nothing is assumed of crashes, users or the
clock. `Planner` assumes that a call that has started goes on: Claude's client has a timeout.

## 4. What the violations show

Each run of the last row of the table has a finding in `PROJECT.json` with the line of the
documentation and of the code. In short: a YES written to one question confirms the one that took its place before it arrived; an expired question defers proactive messages until someone answers it; a window over midnight is never open; CANCEL
never reaches the resolver; STOP is not stored; the keyword planner drops the answer to Luna's own
question.

Two more disagreements show in runs that pass. `telnyx.py:13` says that the response to Telnyx is always
200; the code answers 400 or 500 after an error, and the message is posted again. `AckedIsAnswered`
holds because of what the code does: its mutant, which answers as the docstring says, loses the message.
And a check that has passed a reply is no longer true of it once the composer has dropped options from
it: in `channels`, "Your booking", an option too many and "is confirmed" becomes a claim of a booking.
`RepliesFit` says that this is the only way to one.

Seen on the way and not given a run: a NO to an expired question is filed as expired
(`resolver.py:67`), where `resolver.py:15` says rejected; `normalize_location` "never raises"
(`normalizer.py:38`) but does on a match without coordinates (`normalizer.py:76`), as the weather
provider does on a city that is no text (`weather_open_meteo.py:64`) - the dispatcher catches both;
Twilio's reply goes back in the response (`router.py:113`), not
"out-of-band" (`router.py:12`); a YES/NO prompt that does not fit is left out, while `reply_commands`
announce it (`response_composer.py:60-63`). A displaced confirmation keeps the status pending
(`ConfirmationGate` calls it superseded); the risk level of a plan changes nothing in the runtime;
`missing_fields` of the last message replace those of the task while `known_fields` accumulate
(`runtime.py:158-159`), so a field can be in both.

`scheduler/__init__.py` describes an older gate (one a day, four hours' recency, seven checks).
`src/README.md:107-115` and the code agree on six checks and three a day, so the model follows
them and no run is spent on the old text.

## 5. Proofs

| module | theorems | argument |
|---|---|---|
| `ConfirmationStoreProofs` | lemmas: each operator of the store keeps types and `IndexSound` | by cases of `ResolveInbound`; used by the three modules below |
| `ConfirmationProofs` | `TypeCorrect`, `IndexAlwaysSound`, `NeverConfirmedLate`, `DecisionsAreFinal`, `StoreImplementsGate` | types and `IndexSound` are inductive together. The action properties follow from them: only `Resolve` changes a status, on the id in the index. Under the refinement mapping `Create` is `Ask`, `DeliverReply` is `Decide` or a stutter |
| `ProactiveProofs` | `TypeCorrect`, `CapNeverExceeded`, `RetryAlwaysAtOpening` | the cap alone is not inductive: the strengthening says that while a request is past the count, every day from the counted one on has room, and days to come have no entry at all; and, for what is received, that it never exceeds the log, with one to spare while a decided request has not been answered. The retry time needs the arithmetic of hours and days, in lemmas about `AtHour` of their own |
| `RuntimeProofs` | `TypeCorrect`, `NeverTwoTasks`, `ProfileAlwaysFirst`, `AuditAlwaysPrefix`, `ClaimNeverDelivered`, `DecisionsAlwaysAccounted`, `OneHandlerRuns`, `RuntimeKeepsMemory` | the inductive invariant says where the loop is (`LoopHeld`: a handler between awaits holds it), what a handler has at each label (`HasPlan`, `TaskHere`), and what it has written by then (`Trace`). `OneActiveTask` needs `LoopHeld`: while a handler is between reading the list and creating the task no other can be there. For the same reason the task a handler holds is the one in the store, so that storing the copy is adding to it. `DecisionsAccounted` is kept message by message: only `ResolveConfirmation` decides, `Passed` says that what got to it was no opt-out, and after it the status is in the label, the log or the failure. Under the mapping to `Memory`, `IdentifyUser` is `Introduce`, `CreateTask` is `Begin` (its guards are `Trace` and `TaskHere` at that label), `UpdateTask` is `Learn`, a restart `Forget` or, with SQLite, a stutter |
| `PlannerProofs` | `TypeCorrect`, `TraceAlwaysTrue`, `ToolAlwaysCanRun`, `CallImplemented` | `Collected` and `Underway` say what trace data and answers are at each point of a call, `Entered` what the log has by then; the refinement maps `LogRun` to `Return`, all that goes before to stutters |
| `BackendsProofs` | `TypeCorrect`, `PlanAlwaysStored`, `ProfilesAreKept`, `ConversationAlwaysInOrder`, `BackendsImplementMemory` | the invariant says who holds the loop, that at `create_user` there is no profile and at `create` no task, that no user has two tasks, and that the object a handler holds is the stored one with at most the plan added: that is what a second handler in between would break. `FillTask` is `Learn` in memory and a stutter in SQLite, `UpdateTask` the other way round. That a conversation comes back in order needs to be known of the table alone: `Books` adds that a user's rows number the turns said, in the order of their ids (`Counted`), so a new row is the last whatever its timestamp |
| `ChannelsProofs` | `TypeCorrect`, `AlwaysReadAsRecorded`, `NeverAckedUnanswered`, `NothingElseAnswered`, `RepliesAlwaysFit`, `ToolsImplementCall` | one predicate per delivery, `Fine`, ties the label to what has been said: nothing before the reply is composed, exactly one turn from then on for whatever answers 200 to an accepted message, nothing carried before the last step. Steps of one delivery leave the others' alone, so it is shown once for each action. `Clean` adds that what has not been checked claims nothing, and that what has been composed claims one only as `Honest` allows, so that `RepliesFit` follows from the theorems about the composer |
| `ComposerProofs` | `ComposeFits`, `ComposeClaimsNothing`, `ComposeKeepsWhatFits`, `PromptIsWhole` | for any text and any lengths: the offset of a line is a recursive function that exists and adds up (`BeforeExists`, `OffsetCounts`), dropping and stripping lines gives a text of some of the same lines in the same order (`Less`, `PlacesInOrder`, `LinesAtPlaces`) with at most `MaxOptions` options (`LimitOptionsFair`), and a cut ends exactly at the limit (`CutFits`). A claim in what is left is on a line of the text or joined over lines that were blank or dropped (`ClaimForms`); nothing is dropped from a text with no option too many (`NothingDropped`), the rewrite among them |

**Induction.** What a recursion over lines or rows computes is shown by induction over a *set* of
numbers: `LeastNumber` takes a least element from the well-foundedness of the naturals, `AllNumbers`
follows, and each use names the set of the numbers for which the claim holds. The library's induction
theorems, which take a predicate, are not needed for it. Operators that filter a sequence are written by
counting (`LinesAt`, `TurnsOf`: the n-th element is the one with n of its kind up to it), which can be
reasoned about with cardinalities.

**Assumptions.** The theorems assume of the constants only what the modules' `ASSUME`s state: that
`None` is no element of the other sets, that bounds are naturals, that messages and plans have their
types, and of texts:

* `LengthsAssumption`: an SMS has room for at least one character (280 in the code, 3 options).
* `RewriteAssumption`: the rewrite of a blocked reply, a literal at `policy.py:155-161`, is a text,
  lists no options and matches none of the patterns above it.
* `CannedAssumption`: nor do the answers of policy and resolver, which the runtime sends unchecked.
  They are literals but for one, "Confirmed. On it: " and the `human_summary` of a confirmation
  (`resolver.py:79`). No code under `src/luna` creates a confirmation yet. When one does, the assumption
  is what its summary must satisfy for `RepliesAlwaysFit` to hold, because nothing checks it.

The proofs hold for any number of users, messages, confirmations, deliveries, lines and turns, and any
cap, limit and clock.

**Only model-checked:** `EveryMessageEnds` and `EveryTurnEnds` (liveness is beyond the prover), and
the violations, which are counterexamples and need no proof. Every invariant, action property and
refinement of the other runs is a theorem.

## 6. Not modelled, and the plan

Every part with control of its own is modelled. What is left:

* **Event log read back.** `get_event_log` orders by timestamp, and its one reader counts entries; if
  a reader comes that looks at their order, `Backends` is the module for it.
* **Regular expressions** of policy, composer and planner: which words make a claim, an option or a
  place. What the models have is what a match depends on, line by line.
* **Cost estimate and prompt** of the planner: arithmetic and text without control.
* **Signatures, TwiML and JSON.** That a signature is good or bad is an input of `Channels`; how it
  is computed is the business of a library.
* **Without callers:** `twilio.send_reply`, `get_task`, `create_scheduler_event`, `orchestrator/`. The
  `reset` functions are for tests. The cache of tool implementations only saves an import.
* **Start-up and settings** (`main.py`, `config.py`): the settings that change behaviour are
  constants or initial choices of the models.

Next on the plan: liveness of `Channels` (a message posted again and again is answered if errors
stop), and `Runtime` under `Channels`' redeliveries with its steps in full.
