----------------------------- MODULE PlannerProofs -----------------------------
(***************************************************************************)
(* Theorems about module Planner, for every set of messages and of plans,  *)
(* and any number of turns.                                                *)
(*                                                                         *)
(* The trace is written at the end of a call from what was collected on    *)
(* the way.  Collected says, for every point on the way, what the trace    *)
(* data and the log already tell of Claude's answers; Entered says which   *)
(* entries the log has by then.                                            *)
(***************************************************************************)
EXTENDS Planner, TLAPS

Calling == {"first", "second", "failing", "fallback", "trace"}

LastOutcome == answers[Len(answers)].outcome

\* The trace data agree with the answers of this call.
Collected ==
    /\ td.retry_count = 1 <=> answers # <<>> /\ answers[1].outcome = "invalid"
    /\ td.tokens # 0 => td.tokens \in 1 .. Len(answers) /\ answers[td.tokens].usage

\* Where the call is tells how Claude's answers went.
Underway ==
    /\ pc = "first" => enabled /\ answers = <<>>
    /\ pc = "second" =>
        enabled /\ answers # <<>> /\ Len(answers) = 1 /\ answers[1].outcome = "invalid"
    /\ pc = "failing" => enabled /\ answers # <<>> /\ LastOutcome # "valid"
    /\ pc = "fallback" =>
          IF enabled THEN answers # <<>> /\ LastOutcome # "valid" ELSE answers = <<>>

\* There is a plan just when it is due, and it came from where it says.
HasPlan ==
    /\ plan # None <=> pc \in {"trace", "planned"}
    /\ pc # "idle" => body \in Bodies
    /\ plan # None /\ plan.source = "claude" =>
          enabled /\ answers # <<>> /\ LastOutcome = "valid"
    /\ plan # None /\ plan.source = "fallback" =>
          /\ plan = RunFallback(body)
          /\ IF enabled THEN answers # <<>> /\ LastOutcome # "valid" ELSE answers = <<>>

\* What the log has of this call.
Entered ==
    /\ \A e \in log : e.turn <= turn
    /\ pc \in Calling => RunsOf(turn) = {}
    /\ pc \in {"first", "second", "failing"} => FallbacksOf(turn) = {}
    /\ pc = "fallback" => (enabled <=> FallbacksOf(turn) # {})
    /\ pc \in {"trace", "planned"} =>
          (FallbacksOf(turn) # {} <=> enabled /\ plan.source = "fallback")

Inv == TypeOK /\ Collected /\ Underway /\ HasPlan /\ Entered /\ TraceMatchesCall

--------------------------------------------------------------------------------
(* The keyword planner                                                     *)

(* The first topic in the code's order is one of the message's.            *)
LEMMA TopicOfBody ==
    ASSUME NEW b \in Bodies
    PROVE  Topic(b) \in Topics \cup {"other"}
<1>1. b.topics \subseteq Topics
  BY BodiesAssumption
<1>2. CASE b.topics = {}
  BY <1>2 DEF Topic
<1>3. CASE b.topics # {}
  <2>1. \E t \in b.topics : \A s \in b.topics : Rank[t] <= Rank[s]
    <3>1. CASE "weather" \in b.topics
      BY <1>1, <3>1 DEF Rank, Topics
    <3>2. CASE "weather" \notin b.topics /\ "flight" \in b.topics
      BY <1>1, <3>2 DEF Rank, Topics
    <3>3. CASE b.topics \subseteq {"hotel", "events"} /\ "hotel" \in b.topics
      BY <1>1, <3>3 DEF Rank, Topics
    <3>4. CASE b.topics \subseteq {"events"}
      BY <1>3, <3>4 DEF Rank
    <3> QED BY <1>1, <3>1, <3>2, <3>3, <3>4 DEF Topics
  <2> QED BY <1>1, <1>3, <2>1 DEF Topic
<1> QED BY <1>2, <1>3

(* Its plan is a plan, and a tool it selects has its arguments, but for    *)
(* those the message left blank.                                           *)
LEMMA FallbackPlan ==
    ASSUME NEW b \in Bodies
    PROVE  /\ RunFallback(b) \in PlannerOutputs
           /\ RunFallback(b).source = "fallback"
           /\ RunFallback(b).tool # None =>
                 Args[RunFallback(b).tool] \ (RunFallback(b).known \ RunFallback(b).blank)
                     \subseteq BlankFields(b)
<1> DEFINE t     == Topic(b)
           known == IF t = "other" THEN {} ELSE ExtractKnownFields(b)
           blank == known \cap BlankFields(b)
           tool  == IF Needed[t] \subseteq known THEN Tool[t] ELSE None
<1>1. t \in Topics \cup {"other"}
  BY TopicOfBody
<1>2. known \in SUBSET Fields
  BY DEF ExtractKnownFields, Fields, Ends
<1>3. Wanted[t] \in SUBSET Fields
  BY <1>1 DEF Wanted, Topics, Fields
<1>4. tool \in Tools \cup {None}
  BY <1>1 DEF Tool, Tools, Topics
<1>5. tool # None => Args[tool] = Needed[t] /\ Needed[t] \subseteq known
  BY <1>1 DEF Tool, Args, Needed, Topics, WeatherArgs, FlightArgs, HotelArgs, EventsArgs
<1>6. RunFallback(b) = [source |-> "fallback", known |-> known, blank |-> blank,
                        missing |-> Wanted[t] \ known, tool |-> tool]
  BY DEF RunFallback
<1>7. blank \subseteq known /\ known \ blank = known \ BlankFields(b)
  OBVIOUS
<1> HIDE DEF t, known, tool, blank
<1> QED BY <1>2, <1>3, <1>4, <1>5, <1>6, <1>7 DEF PlannerOutputs

--------------------------------------------------------------------------------
(* The steps                                                               *)

LEMMA InitInv == Init => Inv
<1> SUFFICES ASSUME Init PROVE Inv
  OBVIOUS
<1>1. TypeOK
  BY ClaudePlansAssumption DEF Init, TypeOK, NoTrace, TraceData, Labels, Entries, Tasks
<1>2. Collected /\ Underway /\ HasPlan /\ Entered /\ TraceMatchesCall
  BY DEF Init, Collected, Underway, HasPlan, Entered, TraceMatchesCall, NoTrace, Calling
<1> QED BY <1>1, <1>2 DEF Inv

(* A call starts with a turn the log knows nothing of.                     *)
LEMMA RunInv ==
    ASSUME Inv, NEW b \in Bodies, Run(b)
    PROVE  Inv'
<1> USE DEF Inv, Run
<1>1. TypeOK'
  BY ClaudePlansAssumption DEF TypeOK, NoTrace, TraceData, Labels
<1>2. Collected' /\ Underway'
  BY DEF Collected, Underway, NoTrace
<1>3. HasPlan'
  BY DEF HasPlan
<1>4. Entered'
  <2>1. turn \in Nat /\ turn' = turn + 1 /\ log' = log
    BY ClaudePlansAssumption DEF TypeOK
  <2>2. \A e \in log : e.turn \in Nat /\ e.turn <= turn
    BY DEF TypeOK, Entries, Entered
  <2>3. \A e \in log' : e.turn <= turn' /\ e.turn # turn'
    BY <2>1, <2>2
  <2>4. RunsOf(turn)' = {} /\ FallbacksOf(turn)' = {}
    BY <2>3 DEF RunsOf, FallbacksOf
  <2>5. pc' = IF enabled' THEN "first" ELSE "fallback"
    OBVIOUS
  <2> QED BY <2>3, <2>4, <2>5 DEF Entered
<1>5. TraceMatchesCall'
  BY DEF TraceMatchesCall
<1> QED BY <1>1, <1>2, <1>3, <1>4, <1>5

(* What another answer adds to the trace data.                             *)
LEMMA AnswerAdds ==
    ASSUME TypeOK, NEW outcome \in Outcomes, NEW usage \in BOOLEAN, Answer(outcome, usage),
           td.tokens # 0 => td.tokens \in 1 .. Len(answers) /\ answers[td.tokens].usage,
           td'.tokens = Tokens(usage)
    PROVE  /\ answers' \in Seq(Answers) /\ answers' # <<>>
           /\ Len(answers') = Len(answers) + 1
           /\ LastOutcome' = outcome
           /\ answers # <<>> => answers'[1] = answers[1]
           /\ td'.tokens # 0 => td'.tokens \in 1 .. Len(answers') /\ answers'[td'.tokens].usage
<1> DEFINE a == [outcome |-> outcome, usage |-> usage]
<1>1. a \in Answers /\ a.outcome = outcome /\ a.usage = usage
  BY DEF Answers
<1>2. answers \in Seq(Answers) /\ answers' = Append(answers, a)
  BY DEF TypeOK, Answer
<1> HIDE DEF a
<1>3. answers' \in Seq(Answers) /\ Len(answers') = Len(answers) + 1 /\ answers' # <<>>
  BY <1>1, <1>2
<1>4. answers'[Len(answers')] = a /\ \A i \in 1 .. Len(answers) : answers'[i] = answers[i]
  BY <1>1, <1>2
<1>5. LastOutcome' = outcome
  BY <1>1, <1>4 DEF LastOutcome
<1>6. answers # <<>> => answers'[1] = answers[1]
  BY <1>2, <1>4
<1>7. td'.tokens # 0 => td'.tokens \in 1 .. Len(answers') /\ answers'[td'.tokens].usage
  <2>1. CASE usage
    <3>1. td'.tokens = Len(answers') /\ Len(answers') \in Nat \ {0}
      BY <1>2, <1>3, <2>1 DEF Tokens
    <3>2. answers'[Len(answers')].usage
      BY <1>1, <1>4, <2>1
    <3> QED BY <3>1, <3>2
  <2>2. CASE ~usage
    BY <1>2, <1>3, <1>4, <2>2 DEF Tokens, TypeOK, TraceData
  <2> QED BY <2>1, <2>2
<1> QED BY <1>3, <1>5, <1>6, <1>7

LEMMA FirstInv ==
    ASSUME Inv, FirstAttempt
    PROVE  Inv'
<1> USE DEF Inv
<1>1. PICK outcome \in Outcomes, usage \in BOOLEAN :
         /\ Answer(outcome, usage)
         /\ td' = [retry_count |-> IF outcome = "invalid" THEN 1 ELSE 0,
                   tokens      |-> Tokens(usage)]
         /\ \/ outcome = "valid"   /\ pc' = "trace"  /\ plan' \in ClaudePlans
            \/ outcome = "invalid" /\ pc' = "second" /\ UNCHANGED plan
            \/ outcome = "error"   /\ pc' = "failing" /\ UNCHANGED plan
  BY DEF FirstAttempt
<1>2. /\ pc = "first" /\ enabled /\ answers = <<>> /\ Len(answers) = 0 /\ plan = None
      /\ UNCHANGED <<enabled, durable, turn, body, log, task>>
  BY DEF FirstAttempt, Underway, HasPlan
<1>3. /\ answers' \in Seq(Answers) /\ answers' # <<>> /\ Len(answers') = 1
      /\ LastOutcome' = outcome
      /\ td'.tokens # 0 => td'.tokens \in 1 .. Len(answers') /\ answers'[td'.tokens].usage
  BY <1>1, <1>2, AnswerAdds DEF Collected
<1>4. answers'[1].outcome = outcome
  BY <1>3 DEF LastOutcome
<1>5. td' \in TraceData
  BY <1>1, <1>2 DEF TypeOK, TraceData, Tokens
<1>6. plan' \in PlannerOutputs \cup {None}
  BY <1>1, <1>2, ClaudePlansAssumption
<1>7. TypeOK'
  BY <1>1, <1>2, <1>3, <1>5, <1>6 DEF TypeOK, Labels
<1>8. Collected'
  BY <1>1, <1>3, <1>4, <1>5 DEF Collected, TraceData
<1>9. Underway'
  BY <1>1, <1>2, <1>3, <1>4 DEF Underway
<1>10. HasPlan'
  BY <1>1, <1>2, <1>3, ClaudePlansAssumption DEF HasPlan
<1>11. Entered'
  BY <1>1, <1>2, ClaudePlansAssumption DEF Entered, RunsOf, FallbacksOf, Calling
<1>12. TraceMatchesCall'
  BY <1>1 DEF TraceMatchesCall
<1> QED BY <1>7, <1>8, <1>9, <1>10, <1>11, <1>12

LEMMA SecondInv ==
    ASSUME Inv, SecondAttempt
    PROVE  Inv'
<1> USE DEF Inv
<1>1. PICK outcome \in Outcomes, usage \in BOOLEAN :
         /\ Answer(outcome, usage)
         /\ td' = [td EXCEPT !.tokens = Tokens(usage)]
         /\ \/ outcome = "valid" /\ pc' = "trace" /\ plan' \in ClaudePlans
            \/ outcome # "valid" /\ pc' = "failing" /\ UNCHANGED plan
  BY DEF SecondAttempt
<1>2. /\ pc = "second" /\ enabled /\ answers # <<>> /\ Len(answers) = 1 /\ plan = None
      /\ answers[1].outcome = "invalid"
      /\ UNCHANGED <<enabled, durable, turn, body, log, task>>
  <2>1. /\ pc = "second" /\ plan = None
        /\ UNCHANGED <<enabled, durable, turn, body, log, task>>
    BY DEF SecondAttempt, HasPlan
  <2> QED BY <2>1 DEF Underway
<1>3. td \in TraceData
  BY DEF TypeOK
<1>4. td' \in TraceData /\ td'.retry_count = td.retry_count /\ td'.tokens = Tokens(usage)
  BY <1>1, <1>2, <1>3 DEF TraceData, Tokens
<1>5. /\ answers' \in Seq(Answers) /\ answers' # <<>>
      /\ LastOutcome' = outcome
      /\ answers'[1] = answers[1]
      /\ td'.tokens # 0 => td'.tokens \in 1 .. Len(answers') /\ answers'[td'.tokens].usage
  BY <1>1, <1>2, <1>4, AnswerAdds DEF Collected
<1>6. plan' \in PlannerOutputs \cup {None}
  BY <1>1, <1>2, ClaudePlansAssumption
<1>7. TypeOK'
  BY <1>1, <1>2, <1>4, <1>5, <1>6 DEF TypeOK, Labels
<1>8. Collected'
  BY <1>2, <1>4, <1>5 DEF Collected
<1>9. Underway'
  BY <1>1, <1>2, <1>5 DEF Underway
<1>10. HasPlan'
  BY <1>1, <1>2, <1>5, ClaudePlansAssumption DEF HasPlan
<1>11. Entered'
  BY <1>1, <1>2, ClaudePlansAssumption DEF Entered, RunsOf, FallbacksOf, Calling
<1>12. TraceMatchesCall'
  BY <1>1 DEF TraceMatchesCall
<1> QED BY <1>7, <1>8, <1>9, <1>10, <1>11, <1>12

LEMMA LogFallbackInv ==
    ASSUME Inv, LogFallbackUsed
    PROVE  Inv'
<1> USE DEF Inv
<1> DEFINE e == [event |-> "planner_fallback_used", turn |-> turn]
<1>1. /\ pc = "failing" /\ pc' = "fallback" /\ log' = log \cup {e}
      /\ UNCHANGED <<enabled, durable, turn, body, td, answers, plan, task>>
  BY DEF LogFallbackUsed
<1>2. e \in Entries /\ e.turn = turn /\ e.event = "planner_fallback_used" /\ turn \in Nat
  BY ClaudePlansAssumption DEF TypeOK, Entries
<1> HIDE DEF e
<1>3. TypeOK'
  BY <1>1, <1>2 DEF TypeOK, Labels
<1>4. Collected' /\ TraceMatchesCall'
  BY <1>1 DEF Collected, TraceMatchesCall
<1>5. Underway'
  BY <1>1 DEF Underway, LastOutcome
<1>6. HasPlan'
  BY <1>1 DEF HasPlan, LastOutcome
<1>7. Entered'
  <2>1. RunsOf(turn)' = {} /\ e \in FallbacksOf(turn)'
    BY <1>1, <1>2 DEF Entered, RunsOf, FallbacksOf, Calling
  <2>2. \A f \in log' : f.turn <= turn'
    BY <1>1, <1>2 DEF Entered
  <2> QED BY <1>1, <2>1, <2>2 DEF Entered, Calling, Underway
<1> QED BY <1>3, <1>4, <1>5, <1>6, <1>7

LEMMA FallbackInv ==
    ASSUME Inv, Fallback
    PROVE  Inv'
<1> USE DEF Inv
<1>1. /\ pc = "fallback" /\ pc' = "trace" /\ plan' = RunFallback(body)
      /\ UNCHANGED <<enabled, durable, turn, body, td, answers, log, task>>
  BY DEF Fallback
<1>2. body \in Bodies
  BY <1>1 DEF HasPlan
<1>3. plan' \in PlannerOutputs /\ plan' # None /\ plan'.source = "fallback"
  BY <1>1, <1>2, FallbackPlan, ClaudePlansAssumption
<1>4. TypeOK'
  BY <1>1, <1>3 DEF TypeOK, Labels
<1>5. Collected' /\ Underway' /\ TraceMatchesCall'
  BY <1>1 DEF Collected, Underway, TraceMatchesCall
<1>6. HasPlan'
  <2>1. RunFallback(body)' = RunFallback(body)
    BY <1>1
  <2>2. IF enabled THEN answers # <<>> /\ LastOutcome # "valid" ELSE answers = <<>>
    BY <1>1 DEF Underway
  <2> QED BY <1>1, <1>2, <1>3, <2>1, <2>2 DEF HasPlan, LastOutcome
<1>7. Entered'
  BY <1>1, <1>3 DEF Entered, RunsOf, FallbacksOf, Calling
<1> QED BY <1>4, <1>5, <1>6, <1>7

LEMMA LogRunInv ==
    ASSUME Inv, LogRun
    PROVE  Inv'
<1> USE DEF Inv
<1> DEFINE e == [event |-> "planner_run", turn |-> turn, mode |-> plan.source,
                 fallback_used |-> enabled /\ plan.source = "fallback",
                 retry_count |-> td.retry_count, tokens |-> td.tokens]
<1>1. /\ pc = "trace" /\ pc' = "planned" /\ log' = log \cup {e}
      /\ UNCHANGED <<enabled, durable, turn, body, td, answers, plan, task>>
  BY DEF LogRun
<1>2. plan \in PlannerOutputs /\ plan # None /\ plan.source \in {"claude", "fallback"}
  BY <1>1 DEF HasPlan, TypeOK, PlannerOutputs
<1>3. turn \in Nat /\ td.retry_count \in 0 .. 1 /\ td.tokens \in 0 .. 2
  BY ClaudePlansAssumption DEF TypeOK, TraceData
<1>4. (enabled /\ plan.source = "fallback") \in BOOLEAN
  OBVIOUS
<1>5. /\ e \in Entries
      /\ e.event = "planner_run" /\ e.turn = turn /\ e.mode = plan.source
      /\ e.fallback_used <=> enabled /\ plan.source = "fallback"
      /\ e.retry_count = td.retry_count /\ e.tokens = td.tokens
  BY <1>2, <1>3, <1>4 DEF Entries
<1> HIDE DEF e
<1>6. TypeOK'
  BY <1>1, <1>5 DEF TypeOK, Labels
<1>7. Collected' /\ Underway'
  BY <1>1 DEF Collected, Underway
<1>8. HasPlan'
  BY <1>1 DEF HasPlan, LastOutcome
<1>9. RunsOf(turn)' = {e} /\ FallbacksOf(turn)' = FallbacksOf(turn)
  BY <1>1, <1>5 DEF Entered, RunsOf, FallbacksOf, Calling
<1>10. Entered'
  BY <1>1, <1>3, <1>5, <1>9 DEF Entered, Calling
<1>11. TraceMatchesCall'
  <2>1. e.mode = "claude" <=> answers # <<>> /\ LastOutcome = "valid"
    BY <1>2, <1>5 DEF HasPlan
  <2>2. e.fallback_used <=> FallbacksOf(turn) # {}
    BY <1>1, <1>5 DEF Entered
  <2>3. e.tokens # 0 => e.tokens \in DOMAIN answers /\ answers[e.tokens].usage
    BY <1>5 DEF Collected, TypeOK
  <2> QED BY <1>1, <1>5, <1>9, <2>1, <2>2, <2>3 DEF TraceMatchesCall, Collected, LastOutcome
<1> QED BY <1>6, <1>7, <1>8, <1>10, <1>11

(* Between calls there is nothing to keep but the log.                     *)
LEMMA IdleInv ==
    ASSUME Inv, UpdateTask \/ DatabaseFails
    PROVE  Inv'
<1> USE DEF Inv
<1>1. /\ pc' = "idle" /\ plan' = None
      /\ UNCHANGED <<enabled, durable, turn, body, td, answers, log>>
  BY DEF UpdateTask, DatabaseFails
<1>2. task' \in Tasks
  <2>1. CASE UpdateTask
    BY <2>1 DEF UpdateTask, HasPlan, TypeOK, PlannerOutputs, Tasks
  <2>2. CASE DatabaseFails
    BY <2>2 DEF DatabaseFails, TypeOK
  <2> QED BY <2>1, <2>2
<1>3. TypeOK'
  BY <1>1, <1>2 DEF TypeOK, Labels
<1>4. Collected' /\ Underway' /\ HasPlan' /\ TraceMatchesCall'
  BY <1>1 DEF Collected, Underway, HasPlan, TraceMatchesCall
<1>5. Entered'
  BY <1>1 DEF Entered, Calling
<1> QED BY <1>3, <1>4, <1>5

LEMMA NextInv == Inv /\ [Next]_vars => Inv'
<1> SUFFICES ASSUME Inv, [Next]_vars PROVE Inv'
  OBVIOUS
<1>1. CASE \E b \in Bodies : Run(b)
  BY <1>1, RunInv
<1>2. CASE Continue
  BY <1>2, FirstInv, SecondInv, LogFallbackInv, FallbackInv, LogRunInv, IdleInv DEF Continue
<1>3. CASE DatabaseFails
  BY <1>3, IdleInv
<1>4. CASE UNCHANGED vars
  BY <1>4 DEF vars, Inv, TypeOK, Collected, Underway, HasPlan, Entered, TraceMatchesCall,
              LastOutcome, RunsOf, FallbacksOf
<1> QED BY <1>1, <1>2, <1>3, <1>4 DEF Next

LEMMA Invariance == Spec => []Inv
BY InitInv, NextInv, PTL DEF Spec

--------------------------------------------------------------------------------
(* The planner's variables keep their types.                               *)
THEOREM TypeCorrect == Spec => []TypeOK
<1>1. Inv => TypeOK
  BY DEF Inv
<1> QED BY <1>1, Invariance, PTL

(* The trace in the event log is never wrong about the call it is of, in   *)
(* any order of failures of Claude and the database.                       *)
THEOREM TraceAlwaysTrue == Spec => []TraceMatchesCall
<1>1. Inv => TraceMatchesCall
  BY DEF Inv
<1> QED BY <1>1, Invariance, PTL

(* Whatever the message, a tool the fallback planner selects finds every   *)
(* argument with a value, except for an end of a journey that the message  *)
(* left blank.                                                             *)
THEOREM ToolAlwaysCanRun == Spec => []SelectedToolCanRun
<1>1. Inv => SelectedToolCanRun
  BY FallbackPlan DEF Inv, HasPlan, SelectedToolCanRun
<1> QED BY <1>1, Invariance, PTL

(* run() implements the call the runtime believes to make.                 *)
THEOREM CallImplemented == Spec => CallSpec
<1>1. Init => Call!Init
  BY DEF Init, Call!Init
<1>2. Inv /\ [Next]_vars => [Call!Next]_(Call!vars)
  <2> SUFFICES ASSUME Inv, [Next]_vars PROVE [Call!Next]_(Call!vars)
    OBVIOUS
  <2> DEFINE calling     == pc \in Calling
             returned    == IF pc = "planned" THEN plan ELSE None
             recorded    == {e.turn : e \in {f \in log : f.event = "planner_run"}}
  <2> USE DEF Inv
  <2>1. CASE \E b \in Bodies : Run(b)
    <3>1. ~calling /\ returned = None /\ turn' = turn + 1 /\ calling'
      BY <2>1 DEF Run, Calling
    <3>2. UNCHANGED <<durable, returned, recorded>>
      BY <2>1 DEF Run
    <3> QED BY <3>1, <3>2 DEF Call!Next, Call!Call, Calling
  <2>2. CASE FirstAttempt \/ SecondAttempt \/ Fallback
    <3>1. calling /\ calling' /\ UNCHANGED <<durable, turn, log>>
      BY <2>2 DEF FirstAttempt, SecondAttempt, Fallback, Calling
    <3>2. returned = None /\ returned' = None
      BY <2>2 DEF FirstAttempt, SecondAttempt, Fallback
    <3> QED BY <3>1, <3>2 DEF Call!vars, Calling
  <2>3. CASE LogFallbackUsed
    <3>1. calling /\ calling' /\ UNCHANGED <<durable, turn>>
      BY <2>3 DEF LogFallbackUsed, Calling
    <3>2. returned = None /\ returned' = None
      BY <2>3 DEF LogFallbackUsed
    <3>3. recorded' = recorded
      BY <2>3 DEF LogFallbackUsed
    <3> QED BY <3>1, <3>2, <3>3 DEF Call!vars, Calling
  <2>4. CASE LogRun
    <3>1. calling /\ ~calling' /\ UNCHANGED <<durable, turn>>
      BY <2>4 DEF LogRun, Calling
    <3>2. returned' \in PlannerOutputs
      BY <2>4 DEF LogRun, HasPlan, TypeOK
    <3>3. turn \notin recorded
      BY <2>4 DEF LogRun, Entered, RunsOf, Calling
    <3>4. recorded' = recorded \cup {turn}
      <4> DEFINE run == [event |-> "planner_run", turn |-> turn, mode |-> plan.source,
                         fallback_used |-> enabled /\ plan.source = "fallback",
                         retry_count |-> td.retry_count, tokens |-> td.tokens]
      <4>1. log' = log \cup {run}
        BY <2>4 DEF LogRun
      <4>2. run.event = "planner_run" /\ run.turn = turn
        OBVIOUS
      <4> HIDE DEF run
      <4> QED BY <4>1, <4>2
    <3> QED BY <3>1, <3>2, <3>3, <3>4 DEF Call!Next, Call!Return, Calling
  <2>5. CASE UpdateTask
    <3>1. ~calling /\ ~calling' /\ UNCHANGED <<durable, turn, recorded>>
      BY <2>5 DEF UpdateTask, Calling
    <3>2. returned # None /\ returned' = None
      BY <2>5 DEF UpdateTask, HasPlan
    <3> QED BY <3>1, <3>2 DEF Call!Next, Call!Use, Calling
  <2>6. CASE DatabaseFails
    <3>1. durable /\ ~calling' /\ returned' = None /\ UNCHANGED <<durable, turn, recorded>>
      BY <2>6 DEF DatabaseFails, Calling
    <3>2. CASE pc = "planned"
      <4>1. ~calling /\ returned # None
        BY <3>2 DEF Calling, HasPlan
      <4> QED BY <3>1, <4>1 DEF Call!Next, Call!Use, Calling
    <3>3. CASE pc # "planned"
      <4>1. calling /\ returned = None
        BY <2>6, <3>3 DEF DatabaseFails, Calling
      <4> QED BY <3>1, <4>1 DEF Call!Next, Call!Fail, Calling
    <3> QED BY <3>2, <3>3
  <2>7. CASE UNCHANGED vars
    BY <2>7 DEF vars, Call!vars
  <2> QED BY <2>1, <2>2, <2>3, <2>4, <2>5, <2>6, <2>7 DEF Next, Continue
<1> QED BY <1>1, <1>2, Invariance, PTL DEF Spec, CallSpec, Call!Spec
================================================================================
