----------------------------- MODULE ChannelsProofs -----------------------------
(* Theorems about Channels and Tools, for any number of messages and of     *)
(* deliveries, any registry and any texts.                                  *)
EXTENDS Channels, ComposerProofs, SequenceTheorems, TLAPS

(* The composer gives one of the texts it may give (compose()).            *)
LEMMA ComposedReply ==
    ASSUME NEW text \in Texts, NEW blocked \in BOOLEAN
    PROVE  Compose(text, blocked, FALSE) \in Composed
BY DEF Composed

(* No parser answers with anything but an HTTP code or an event, and only  *)
(* accepted mail becomes an event (parse_request of both channels).        *)
LEMMA ParsedType ==
    ASSUME NEW letter \in Mails
    PROVE  /\ Parsed(letter) \in Codes \cup {"event"}
           /\ Parsed(letter) = "event" <=> Accepted(letter)
           /\ Parsed(letter) = "200" => ~Accepted(letter) /\ letter.route = "telnyx"
<1>1. CASE letter.route = "telnyx"
  <2>1. letter.payload \in {"message", "no_sender", "no_json", "shapeless", "report"}
    BY <1>1 DEF Mails, Payloads, Routes
  <2>2. Parsed(letter) = ParseTelnyx(letter.payload)
    BY <1>1 DEF Parsed
  <2> QED
    BY <1>1, <2>1, <2>2 DEF ParseTelnyx, Codes, Accepted
<1>2. CASE letter.route = "twilio"
  <2>1. letter.payload \in {"message", "unsigned", "no_sender"}
    BY <1>2 DEF Mails, Payloads, Routes
  <2>2. Parsed(letter) = ParseTwilio(letter.payload)
    BY <1>2 DEF Parsed
  <2> QED
    BY <2>1, <2>2 DEF ParseTwilio, Codes, Accepted
<1>3. CASE letter.route = "simulate"
  <2>1. letter.payload \in {"message", "shapeless"}
    BY <1>3 DEF Mails, Payloads, Routes
  <2>2. Parsed(letter) = ParseSimulate(letter.payload)
    BY <1>3 DEF Parsed
  <2> QED
    BY <2>1, <2>2 DEF ParseSimulate, Codes, Accepted
<1>4. letter.route \in {"simulate", "twilio", "telnyx"}
  BY DEF Mails, Routes, Payloads
<1> QED
  BY <1>1, <1>2, <1>3, <1>4

--------------------------------------------------------------------------------
(* Tools                                                                   *)

(* What dispatch() decides before its first await.                         *)
LEMMA DispatchedType ==
    ASSUME NEW request \in Requests
    PROVE  /\ Dispatched(request) \in Statuses \cup {"await"}
           /\ Dispatched(request) \in {"ok", "await"} => request \in Runnable
BY RequestsAssumption DEF Dispatched, Statuses, Runnable, Caught, RunWeather, RunMock

(* The steps of a tool keep the type of the calls.                         *)
LEMMA ToolsKeepType ==
    ASSUME ToolsTypeOK, NEW c \in Calls,
           \/ \E request \in Requests : Dispatch(c, request)
           \/ Geocoded(c)
           \/ Forecast(c)
           \/ UNCHANGED call
    PROVE  ToolsTypeOK'
<1>1. CASE \E request \in Requests : Dispatch(c, request)
  BY <1>1, DispatchedType
     DEF ToolsTypeOK, Dispatch, CallRecords, Waits, Returned
<1>2. CASE Geocoded(c)
  <2>1. call[c] \in CallRecords
    BY <1>2 DEF ToolsTypeOK, Geocoded
  <2>2. PICK answer \in {"matches", "none", "failure", "malformed"} :
           LET outcome == Caught(NormalizeLocation(answer)) IN
           call' = [call EXCEPT ![c] = IF outcome = "located" THEN Waits(@.request, "forecast")
                                       ELSE Returned(@.request, outcome)]
    BY <1>2 DEF Geocoded
  <2>3. Caught(NormalizeLocation(answer)) \in {"located", "error"}
    BY DEF Caught, NormalizeLocation
  <2> QED
    BY <2>1, <2>2, <2>3 DEF ToolsTypeOK, CallRecords, Waits, Returned, Statuses
<1>3. CASE Forecast(c)
  BY <1>3 DEF ToolsTypeOK, Forecast, CallRecords, Waits, Returned, Statuses, Caught
<1>4. CASE UNCHANGED call
  BY <1>4 DEF ToolsTypeOK
<1> QED
  BY <1>1, <1>2, <1>3, <1>4

(* A tool that waits is one that can run, and has not answered.            *)
WaitingRuns ==
    \A c \in Calls : call[c] # None /\ call[c].at # "returned" =>
        call[c].status = None /\ call[c].request \in Runnable

(* Steps of tools keep WaitingRuns and answer as the contract asks.        *)
LEMMA ToolsKeepContract ==
    ASSUME ToolsTypeOK, WaitingRuns, NEW c \in Calls,
           \/ \E request \in Requests : Dispatch(c, request)
           \/ Geocoded(c)
           \/ Forecast(c)
           \/ UNCHANGED call
    PROVE  WaitingRuns' /\ [Contract!Next]_(Contract!vars)
<1> DEFINE asked(d)  == IF call[d] = None THEN None ELSE call[d].request
           answer(d) == IF call[d] = None THEN None ELSE call[d].status
<1>1. CASE \E request \in Requests : Dispatch(c, request)
  <2>1. PICK request \in Requests : Dispatch(c, request)
    BY <1>1
  <2>2. /\ Dispatched(request) \in Statuses \cup {"await"}
        /\ Dispatched(request) \in {"ok", "await"} => request \in Runnable
    BY DispatchedType
  <2>3. call[c] = None /\ call' = [call EXCEPT ![c] =
           IF Dispatched(request) = "await" THEN Waits(request, "geocode")
           ELSE Returned(request, Dispatched(request))]
    BY <2>1 DEF Dispatch
  <2>4. call'[c] # None
    BY <2>2, <2>3, NoneIsNoCall DEF ToolsTypeOK, CallRecords, Waits, Returned
  <2>5. WaitingRuns'
    BY <2>2, <2>3, NoneIsNoCall DEF WaitingRuns, ToolsTypeOK, Waits, Returned
  <2>6. CASE Dispatched(request) = "await"
    <3>1. call'[c] = Waits(request, "geocode")
      BY <2>3, <2>6 DEF ToolsTypeOK
    <3>2. asked(c)' = request /\ answer(c)' = None
      BY <3>1, <2>4 DEF Waits
    <3>3. Contract!Call(c, request)
      BY <2>3, <3>2 DEF Contract!Call, ToolsTypeOK
    <3> QED
      BY <3>3, <2>5 DEF Contract!Next
  <2>7. CASE Dispatched(request) # "await"
    <3>1. call'[c] = Returned(request, Dispatched(request))
      BY <2>3, <2>7 DEF ToolsTypeOK
    <3>2. asked(c)' = request /\ answer(c)' = Dispatched(request)
      BY <3>1, <2>4 DEF Returned
    <3>3. Contract!CallAndReturn(c, request, Dispatched(request))
      BY <2>2, <2>3, <3>2 DEF Contract!CallAndReturn, Contract!MayAnswer, ToolsTypeOK
    <3>4. Dispatched(request) \in Contract!Statuses
      BY <2>2, <2>7 DEF Statuses, Contract!Statuses
    <3> QED
      BY <3>3, <3>4, <2>5 DEF Contract!Next
  <2> QED
    BY <2>6, <2>7
<1>2. CASE Geocoded(c) \/ Forecast(c)
  <2> DEFINE request == call[c].request
  <2>1. /\ call[c] # None /\ call[c] \in CallRecords
        /\ call[c].status = None /\ request \in Runnable
    BY <1>2 DEF Geocoded, Forecast, ToolsTypeOK, WaitingRuns
  <2>2. asked(c) = request /\ answer(c) = None /\ request \in Requests /\ request # None
    BY <2>1, NoneIsNoCall DEF CallRecords
  <2>3. \/ call' = [call EXCEPT ![c] = Waits(@.request, "forecast")]
        \/ \E status \in {"ok", "error"} :
              call' = [call EXCEPT ![c] = Returned(@.request, status)]
    <3>1. CASE Geocoded(c)
      <4>1. PICK place \in {"matches", "none", "failure", "malformed"} :
               LET outcome == Caught(NormalizeLocation(place)) IN
               call' = [call EXCEPT ![c] =
                           IF outcome = "located" THEN Waits(@.request, "forecast")
                           ELSE Returned(@.request, outcome)]
        BY <3>1 DEF Geocoded
      <4>2. Caught(NormalizeLocation(place)) \in {"located", "error"}
        BY DEF Caught, NormalizeLocation
      <4> QED
        BY <4>1, <4>2
    <3>2. CASE Forecast(c)
      BY <3>2 DEF Forecast, Caught
    <3> QED
      BY <1>2, <3>1, <3>2
  <2>4. CASE call' = [call EXCEPT ![c] = Waits(@.request, "forecast")]
    <3>1. call'[c] = Waits(request, "forecast")
      BY <2>4 DEF ToolsTypeOK
    <3>2. call'[c] # None
      BY <2>2, <3>1, NoneIsNoCall DEF Waits, CallRecords
    <3>3. WaitingRuns'
      BY <2>1, <2>4, <3>1 DEF WaitingRuns, Waits, ToolsTypeOK
    <3>4. asked(c)' = asked(c) /\ answer(c)' = answer(c)
      BY <2>2, <3>1, <3>2 DEF Waits
    <3>5. \A d \in Calls : asked(d)' = asked(d) /\ answer(d)' = answer(d)
      BY <2>4, <3>4 DEF ToolsTypeOK
    <3>6. UNCHANGED Contract!vars
      BY <3>5 DEF Contract!vars
    <3> QED
      BY <3>3, <3>6
  <2>5. ASSUME NEW status \in {"ok", "error"},
               call' = [call EXCEPT ![c] = Returned(@.request, status)]
        PROVE  WaitingRuns' /\ Contract!Next
    <3>1. call'[c] = Returned(request, status)
      BY <2>5 DEF ToolsTypeOK
    <3>2. call'[c] # None
      BY <2>2, <3>1, NoneIsNoCall DEF Returned, CallRecords, Statuses
    <3>3. WaitingRuns'
      BY <2>5, <3>1 DEF WaitingRuns, Returned, ToolsTypeOK
    <3>4. asked(c)' = request /\ answer(c)' = status
      BY <3>1, <3>2 DEF Returned
    <3>5. \A d \in Calls : /\ asked(d)' = asked(d)
                           /\ d # c => answer(d)' = answer(d)
      BY <2>2, <2>5, <3>4 DEF ToolsTypeOK
    <3>6. Contract!Return(c, status)
      BY <2>1, <2>2, <3>4, <3>5 DEF Contract!Return, Contract!MayAnswer
    <3> QED
      BY <3>3, <3>6 DEF Contract!Next, Contract!Statuses
  <2> QED
    BY <2>3, <2>4, <2>5
<1>3. CASE UNCHANGED call
  BY <1>3 DEF WaitingRuns, Contract!vars
<1> QED
  BY <1>1, <1>2, <1>3

--------------------------------------------------------------------------------
(* The inductive invariant                                                 *)

\* Before its reply is composed a delivery has none on record; from then on it
\* has one, and has brought it to the user or not.
Unsaid(d) == recorded[d] = <<>> /\ carried[d] = <<>>

Handled == {"handle", "decide", "tool", "reply", "send"}

\* What is on record of a delivery, and what it brought, at each step.
Fine(d) ==
    /\ handler[d] = None => d \notin turns /\ Unsaid(d)
    /\ handler[d] # None =>
          /\ Mail(d) # None
          /\ handler[d].at \in Handled => Accepted(Mail(d))
          /\ d \in turns \/ recorded[d] # <<>> => Accepted(Mail(d))
          /\ handler[d].at \in {"parse", "handle", "decide", "tool", "reply"} => Unsaid(d)
          /\ handler[d].at = "send" =>
                /\ Route(d) = "telnyx" /\ carried[d] = <<>>
                /\ recorded[d] = <<handler[d].reply>>
          /\ handler[d].at = "answer" /\ Route(d) # "telnyx" =>
                /\ carried[d] = <<>>
                /\ handler[d].code = "200" => recorded[d] = <<handler[d].reply>>
          /\ handler[d].at = "answer" /\ handler[d].code = "200" /\ Accepted(Mail(d)) =>
                recorded[d] # <<>>
          /\ handler[d].at \in {"tool", "reply"} => handler[d].reply \in Texts
    /\ Len(recorded[d]) <= 1
    /\ carried[d] \in {<<>>, recorded[d]}

Posted == \A m \in acked : mail[m] # None

IInv == TypeOK /\ (\A d \in Deliveries : Fine(d)) /\ Posted /\ AckedIsAnswered

(* A delivery nothing happens to stays fine.                               *)
LEMMA Unaffected ==
    ASSUME IInv, NEW d \in Deliveries,
           handler'[d] = handler[d], recorded'[d] = recorded[d],
           carried'[d] = carried[d], d \in turns' <=> d \in turns,
           \A m \in Messages : mail[m] # None => mail'[m] = mail[m]
    PROVE  Fine(d)'
<1>1. Fine(d)
  BY DEF IInv
<1>2. CASE handler[d] = None
  BY <1>1, <1>2 DEF Fine, Unsaid
<1>3. CASE handler[d] # None
  <2>1. handler[d].message \in Messages /\ mail[handler[d].message] # None
    BY <1>1, <1>3 DEF Fine, Mail, IInv, TypeOK, Handlers
  <2>2. Mail(d)' = Mail(d) /\ Mail(d) # None
    BY <2>1 DEF Mail
  <2>3. Route(d)' = Route(d) /\ Accepted(Mail(d))' = Accepted(Mail(d))
    BY <2>2 DEF Route, Accepted
  <2> QED
    BY <1>1, <1>3, <2>2, <2>3 DEF Fine, Unsaid
<1> QED
  BY <1>2, <1>3

(* What is answered stays answered while replies stay on record.           *)
LEMMA StillAnswered ==
    ASSUME IInv, acked' \subseteq Messages,
           \A m \in acked : mail'[m] = mail[m],
           \A e \in Deliveries : handler[e] # None =>
               handler'[e] # None /\ handler'[e].message = handler[e].message,
           \A e \in Deliveries : recorded[e] # <<>> => recorded'[e] # <<>>,
           \A m \in acked' \ acked : Accepted(mail'[m]) =>
               \E e \in Deliveries : /\ handler'[e] # None /\ handler'[e].message = m
                                     /\ recorded'[e] # <<>>
    PROVE  AckedIsAnswered'
<1> SUFFICES ASSUME NEW m \in acked', Accepted(mail'[m])
             PROVE  \E e \in Deliveries : /\ handler'[e] # None /\ handler'[e].message = m
                                          /\ recorded'[e] # <<>>
  BY DEF AckedIsAnswered, Accepted
<1>1. CASE m \in acked
  <2>1. Accepted(mail[m])
    BY <1>1
  <2> QED
    BY <1>1, <2>1 DEF IInv, AckedIsAnswered
<1> QED
  BY <1>1

(* The calls of tools are well typed and in order after any step.          *)
LEMMA NextOfTools ==
    ASSUME [Next]_vars
    PROVE  \/ \E c \in Calls : \/ \E request \in Requests : Dispatch(c, request)
                               \/ Geocoded(c)
                               \/ Forecast(c)
           \/ UNCHANGED call
BY DEF Next, vars, Post, Report, Repost, Arrives, Step, Parse, Handle, Decide, ToolStep,
       ToolReturned, Compile, Send, Answer, Fail, Restart, Deliveries

LEMMA MailOfRoutes ==
    ASSUME NEW letter \in Mails
    PROVE  letter # None
BY NoneIsNoMail

\* A handler is no None.
LEMMA HandlerIsSome == \A h \in Handlers : h # None
BY NoneIsNoMail

(* A webhook call comes in: posted, reported or posted again.              *)
LEMMA ArrivesFine ==
    ASSUME IInv, NEW d \in Deliveries, NEW m \in Messages, Arrives(d, m),
           mail' \in [Messages -> Mails \cup {None}], mail'[m] # None,
           \A n \in Messages : mail[n] # None => mail'[n] = mail[n],
           ToolsTypeOK'
    PROVE  IInv'
<1> DEFINE h == [message |-> m, at |-> "parse", reply |-> None, checked |-> FALSE,
                 code |-> None]
<1>1. handler[d] = None /\ handler' = [handler EXCEPT ![d] = h] /\ UNCHANGED books
  BY DEF Arrives
<1>2. h \in Handlers
  BY DEF Handlers, Labels
<1>3. TypeOK'
  BY <1>1, <1>2 DEF IInv, TypeOK, books
<1>4. handler'[d] = h /\ h # None
  BY <1>1, <1>2, HandlerIsSome DEF IInv, TypeOK
<1>5. \A e \in Deliveries : e # d => Fine(e)'
  BY <1>1, Unaffected DEF IInv, TypeOK, books
<1>6. Fine(d)'
  <2>1. Fine(d)
    BY DEF IInv
  <2> QED
    BY <1>1, <1>4, <2>1 DEF Fine, Unsaid, Mail, books, Handled
<1>7. \A n \in acked : mail'[n] = mail[n] /\ mail[n] # None
  BY DEF IInv, Posted, TypeOK
<1>8. AckedIsAnswered' /\ Posted'
  BY <1>1, <1>4, <1>7, StillAnswered DEF IInv, TypeOK, books, Posted
<1> QED
  BY <1>3, <1>5, <1>6, <1>8 DEF IInv

(* A handler goes on: what has to be shown of its delivery, and no other.  *)
LEMMA HandlerFine ==
    ASSUME IInv, NEW d \in Deliveries, handler[d] # None, UNCHANGED mail,
           NEW h \in Handlers, h.message = handler[d].message,
           handler' = [handler EXCEPT ![d] = h],
           recorded' \in [Deliveries -> Seq(Composed)],
           carried' \in [Deliveries -> Seq(Composed)],
           turns' \subseteq Deliveries,
           \A e \in Deliveries : e # d => /\ recorded'[e] = recorded[e]
                                          /\ carried'[e] = carried[e]
                                          /\ e \in turns' <=> e \in turns,
           recorded[d] # <<>> => recorded'[d] # <<>>,
           \/ acked' = acked
           \/ /\ acked' = acked \cup {h.message}
              /\ Accepted(Mail(d)) => recorded'[d] # <<>>,
           ToolsTypeOK', Fine(d)'
    PROVE  IInv'
<1>1. h.message \in Messages /\ h # None
  BY HandlerIsSome DEF Handlers
<1>2. handler'[d] = h
  BY DEF IInv, TypeOK
<1>3. TypeOK'
  BY <1>1 DEF IInv, TypeOK
<1>4. \A e \in Deliveries : e # d => Fine(e)'
  BY Unaffected DEF IInv, TypeOK
<1>5. mail[h.message] # None /\ Mail(d) = mail[h.message]
  BY DEF IInv, Fine, Mail
<1>6. AckedIsAnswered' /\ Posted'
  <2>1. acked' \subseteq acked \cup {h.message}
    OBVIOUS
  <2>2. \A m \in acked' \ acked : Accepted(mail'[m]) =>
            /\ handler'[d] # None /\ handler'[d].message = m
            /\ recorded'[d] # <<>>
    BY <1>1, <1>2, <1>5, <2>1
  <2>3. \A e \in Deliveries : handler[e] # None =>
            handler'[e] # None /\ handler'[e].message = handler[e].message
    BY <1>1, <1>2 DEF IInv, TypeOK
  <2>4. acked' \subseteq Messages
    BY <1>3 DEF TypeOK
  <2>5. \A e \in Deliveries : recorded[e] # <<>> => recorded'[e] # <<>>
    OBVIOUS
  <2>6. AckedIsAnswered'
    BY <2>2, <2>3, <2>4, <2>5, StillAnswered DEF IInv
  <2>7. Posted'
    BY <1>5, <2>1 DEF IInv, Posted
  <2> QED
    BY <2>6, <2>7
<1> QED
  BY <1>3, <1>4, <1>6 DEF IInv

\* What is known of a delivery whose handler is there.
Here(d) ==
    /\ handler[d] # None /\ handler[d] \in Handlers
    /\ Mail(d) \in Mails
    /\ Fine(d)
    /\ recorded[d] \in Seq(Composed) /\ carried[d] \in Seq(Composed)

LEMMA HandlerHere ==
    ASSUME IInv, NEW d \in Deliveries, handler[d] # None
    PROVE  Here(d)
<1>1. handler[d] \in Handlers /\ Fine(d)
  BY DEF IInv, TypeOK
<1>2. Mail(d) \in Mails
  BY <1>1 DEF IInv, TypeOK, Fine, Mail, Handlers
<1> QED
  BY <1>1, <1>2 DEF Here, IInv, TypeOK

Answering(d, code) ==
    [handler[d] EXCEPT !.at = "answer", !.code = code, !.reply = None, !.checked = FALSE]

LEMMA AnsweringType ==
    ASSUME NEW d \in Deliveries, handler[d] \in Handlers, NEW code \in Codes
    PROVE  /\ Answering(d, code) \in Handlers
           /\ Answering(d, code) # None
           /\ Answering(d, code).message = handler[d].message
           /\ Answering(d, code).at = "answer"
           /\ Answering(d, code).code = code
           /\ Answers(d, code) => handler' = [handler EXCEPT ![d] = Answering(d, code)]
<1>1. Answering(d, code) \in Handlers
  BY DEF Answering, Handlers, Labels
<1>2. Answers(d, code) => handler' = [handler EXCEPT ![d] = Answering(d, code)]
  BY DEF Answers, Responds, Answering
<1> QED
  BY <1>1, <1>2, HandlerIsSome DEF Answering, Handlers

(* Parsing accepts what module and setting accept, and answers the rest.   *)
LEMMA ParseFine ==
    ASSUME IInv, NEW d \in Deliveries, Parse(d), ToolsTypeOK'
    PROVE  IInv'
<1>1. Here(d) /\ handler[d].at = "parse"
  BY HandlerHere DEF Parse, At
<1>2. /\ Parsed(Mail(d)) \in Codes \cup {"event"}
      /\ Parsed(Mail(d)) = "event" <=> Accepted(Mail(d))
      /\ Parsed(Mail(d)) = "200" => ~Accepted(Mail(d)) /\ Route(d) = "telnyx"
  BY <1>1, ParsedType DEF Here, Route
<1>3. UNCHANGED <<mail, books>>
  BY DEF Parse
<1>4. CASE Parsed(Mail(d)) = "event"
  <2> DEFINE h == [handler[d] EXCEPT !.at = "handle"]
  <2>1. handler' = [handler EXCEPT ![d] = h]
    BY <1>4 DEF Parse, GoTo
  <2>2. h \in Handlers /\ h # None /\ h.message = handler[d].message /\ h.at = "handle"
    BY <1>1, HandlerIsSome DEF Here, Handlers, Labels
  <2>3. handler'[d] = h
    BY <2>1 DEF IInv, TypeOK
  <2>4. Mail(d)' = Mail(d) /\ Accepted(Mail(d)')
    BY <1>2, <1>3, <1>4, <2>2, <2>3 DEF Mail
  <2>5. Fine(d)'
    BY <1>1, <1>2, <1>3, <1>4, <2>2, <2>3, <2>4 DEF Here, Fine, Unsaid, books, Handled
  <2> QED
    BY <1>1, <1>3, <2>1, <2>2, <2>5, HandlerFine DEF Here, IInv, TypeOK, books
<1>5. CASE Parsed(Mail(d)) # "event"
  <2> DEFINE code == Parsed(Mail(d))
             h == Answering(d, code)
  <2>1. handler' = [handler EXCEPT ![d] = h]
    BY <1>5 DEF Parse, Answers, Responds, Answering
  <2>2. h \in Handlers /\ h # None /\ h.message = handler[d].message /\ h.at = "answer"
        /\ h.code = code
    BY <1>1, <1>2, <1>5, AnsweringType DEF Here
  <2>3. handler'[d] = h
    BY <2>1 DEF IInv, TypeOK
  <2>4. Mail(d)' = Mail(d)
    BY <1>3, <2>2, <2>3 DEF Mail
  <2>5. Fine(d)'
    BY <1>1, <1>2, <1>3, <1>5, <2>2, <2>3, <2>4 DEF Here, Fine, Unsaid, books, Handled, Route
  <2> HIDE DEF h
  <2> QED
    BY <1>1, <1>3, <2>1, <2>2, <2>5, HandlerFine DEF Here, IInv, TypeOK, books
<1> QED
  BY <1>4, <1>5

(* The handler goes on within the runtime, with nothing said yet.          *)
LEMMA ThinkFine ==
    ASSUME IInv, NEW d \in Deliveries, handler[d] # None,
           handler[d].at \in {"handle", "decide", "tool"},
           NEW h \in Handlers, h.message = handler[d].message,
           h.at \in {"decide", "tool", "reply"},
           h.at \in {"tool", "reply"} => h.reply \in Texts,
           handler' = [handler EXCEPT ![d] = h],
           turns' \in {turns, turns \cup {d}},
           UNCHANGED <<mail, recorded, carried, acked>>, ToolsTypeOK'
    PROVE  IInv'
<1>1. Here(d)
  BY HandlerHere
<1>2. handler'[d] = h /\ h # None
  BY HandlerIsSome DEF IInv, TypeOK
<1>3. Mail(d)' = Mail(d) /\ Accepted(Mail(d))
  BY <1>1, <1>2 DEF Mail, Here, Fine, Handled
<1>4. Fine(d)'
  BY <1>1, <1>2, <1>3 DEF Here, Fine, Unsaid, Handled, Accepted
<1> QED
  BY <1>1, <1>4, HandlerFine DEF Here, IInv, TypeOK

(* An error is answered, and whatever is on record stays there.            *)
LEMMA ErrorFine ==
    ASSUME IInv, NEW d \in Deliveries, handler[d] # None,
           handler[d].at \in {"handle", "decide", "tool", "reply"},
           Answers(d, "500"), UNCHANGED <<mail, books>>, ToolsTypeOK'
    PROVE  IInv'
<1> DEFINE h == Answering(d, "500")
<1>1. Here(d)
  BY HandlerHere
<1>2. handler' = [handler EXCEPT ![d] = h]
  BY DEF Answers, Responds, Answering
<1>3. /\ h \in Handlers /\ h # None /\ h.message = handler[d].message
      /\ h.at = "answer" /\ h.code = "500"
  BY <1>1, AnsweringType DEF Here, Codes
<1>4. handler'[d] = h
  BY <1>2 DEF IInv, TypeOK
<1>5. Mail(d)' = Mail(d)
  BY <1>3, <1>4 DEF Mail, books
<1>6. Fine(d)'
  BY <1>1, <1>3, <1>4, <1>5 DEF Here, Fine, Unsaid, Handled, books, Accepted
<1> HIDE DEF h
<1> QED
  BY <1>1, <1>2, <1>3, <1>6, HandlerFine DEF Here, IInv, TypeOK, books

LEMMA HandleFine ==
    ASSUME IInv, NEW d \in Deliveries, Handle(d), ToolsTypeOK'
    PROVE  IInv'
<1> DEFINE h == [handler[d] EXCEPT !.at = "decide"]
<1>1. Here(d) /\ handler[d].at = "handle"
  BY HandlerHere DEF Handle, At
<1>2. h \in Handlers /\ h.message = handler[d].message /\ h.at = "decide"
  BY <1>1 DEF Here, Handlers, Labels
<1>3. handler' = [handler EXCEPT ![d] = h]
  BY DEF Handle, GoTo
<1> HIDE DEF h
<1> QED
  BY <1>1, <1>2, <1>3, ThinkFine DEF Handle, Here

LEMMA ReplyType ==
    ASSUME NEW d \in Deliveries, handler[d] \in Handlers, NEW text \in Texts,
           NEW checked \in BOOLEAN, NEW label \in Labels
    PROVE  \E h \in Handlers :
              /\ h.message = handler[d].message /\ h.at = label /\ h.reply = text
              /\ Reply(d, text, checked, label) => handler' = [handler EXCEPT ![d] = h]
<1> DEFINE h == [handler[d] EXCEPT !.reply = text, !.checked = checked, !.at = label]
<1>1. h \in Handlers /\ h.message = handler[d].message /\ h.at = label /\ h.reply = text
  BY DEF Handlers
<1>2. Reply(d, text, checked, label) => handler' = [handler EXCEPT ![d] = h]
  BY DEF Reply
<1> QED
  BY <1>1, <1>2

LEMMA DecideFine ==
    ASSUME IInv, NEW d \in Deliveries, Decide(d), ToolsTypeOK'
    PROVE  IInv'
<1>1. Here(d) /\ handler[d].at = "decide"
  BY HandlerHere DEF Decide, At
<1>2. PICK text \in Texts, checked \in BOOLEAN, label \in {"reply", "tool"} :
         Reply(d, text, checked, label)
  BY DEF Decide, Texts
<1>3. PICK h \in Handlers :
         /\ h.message = handler[d].message /\ h.at = label /\ h.reply = text
         /\ handler' = [handler EXCEPT ![d] = h]
  BY <1>1, <1>2, ReplyType DEF Here, Labels
<1> QED
  BY <1>1, <1>3, ThinkFine DEF Decide, Here, books

LEMMA ToolReturnedFine ==
    ASSUME IInv, NEW d \in Deliveries, ToolReturned(d), ToolsTypeOK'
    PROVE  IInv'
<1>1. Here(d) /\ handler[d].at = "tool" /\ UNCHANGED <<mail, books>>
  BY HandlerHere DEF ToolReturned, At
<1>2. CASE call[d].status = "ok"
  <2>1. Reply(d, ToolText, TRUE, "reply")
    BY <1>2 DEF ToolReturned
  <2>2. ToolText \in Texts /\ "reply" \in Labels /\ TRUE \in BOOLEAN
    BY DEF Texts, Labels
  <2> DEFINE h == [handler[d] EXCEPT !.reply = ToolText, !.checked = TRUE, !.at = "reply"]
  <2>3. h \in Handlers /\ h.message = handler[d].message /\ h.at = "reply" /\ h.reply = ToolText
    BY <1>1, <2>2 DEF Here, Handlers
  <2>4. handler' = [handler EXCEPT ![d] = h]
    BY <2>1 DEF Reply
  <2> HIDE DEF h
  <2> QED
    BY <1>1, <2>2, <2>3, <2>4, ThinkFine DEF Here, books
<1>3. CASE call[d].status = "raised"
  <2>1. Answers(d, "500")
    BY <1>3 DEF ToolReturned
  <2> QED
    BY <1>1, <2>1, ErrorFine DEF Here
<1>4. CASE call[d].status \notin {"ok", "raised"}
  <2> DEFINE h == [handler[d] EXCEPT !.at = "reply"]
  <2>1. handler' = [handler EXCEPT ![d] = h]
    BY <1>4 DEF ToolReturned, GoTo
  <2>2. /\ h \in Handlers /\ h.message = handler[d].message
        /\ h.at = "reply" /\ h.reply = handler[d].reply
    BY <1>1 DEF Here, Handlers, Labels
  <2>3. handler[d].reply \in Texts
    BY <1>1 DEF Here, Fine
  <2> HIDE DEF h
  <2> QED
    BY <1>1, <2>1, <2>2, <2>3, ThinkFine DEF Here, books
<1> QED
  BY <1>2, <1>3, <1>4

(* A handler answers with the text it holds, or an error.                  *)
LEMMA ReturnsType ==
    ASSUME NEW d \in Deliveries, handler[d] \in Handlers, NEW text \in Composed,
           Returns(d, text)
    PROVE  \E h \in Handlers :
              /\ h.message = handler[d].message /\ h.at \in {"send", "answer"}
              /\ h.at = "send" => Route(d) = "telnyx" /\ h.reply = text
              /\ h.at = "answer" /\ h.code = "200" => h.reply = text
              /\ handler' = [handler EXCEPT ![d] = h]
<1> DEFINE Goes(h) ==
              /\ h.message = handler[d].message /\ h.at \in {"send", "answer"}
              /\ h.at = "send" => Route(d) = "telnyx" /\ h.reply = text
              /\ h.at = "answer" /\ h.code = "200" => h.reply = text
              /\ handler' = [handler EXCEPT ![d] = h]
<1>1. CASE Route(d) = "telnyx" /\ Reply(d, text, FALSE, "send")
  <2> DEFINE h == [handler[d] EXCEPT !.reply = text, !.checked = FALSE, !.at = "send"]
  <2>1. h \in Handlers /\ h.message = handler[d].message /\ h.at = "send" /\ h.reply = text
    BY DEF Handlers, Labels
  <2>2. handler' = [handler EXCEPT ![d] = h]
    BY <1>1 DEF Reply
  <2>3. Goes(h)
    BY <1>1, <2>1, <2>2
  <2> QED
    BY <2>1, <2>3
<1>2. CASE Responds(d, "200", text)
  <2> DEFINE h == [handler[d] EXCEPT !.at = "answer", !.code = "200", !.reply = text,
                                     !.checked = FALSE]
  <2>1. h \in Handlers /\ h.message = handler[d].message /\ h.at = "answer" /\ h.reply = text
    BY DEF Handlers, Labels, Codes
  <2>2. handler' = [handler EXCEPT ![d] = h]
    BY <1>2 DEF Responds
  <2>3. Goes(h)
    BY <2>1, <2>2
  <2> QED
    BY <2>1, <2>3
<1>3. CASE Answers(d, "500")
  <2>1. /\ Answering(d, "500") \in Handlers /\ Answering(d, "500").at = "answer"
        /\ Answering(d, "500").message = handler[d].message
        /\ Answering(d, "500").code = "500"
        /\ handler' = [handler EXCEPT ![d] = Answering(d, "500")]
    BY <1>3, AnsweringType DEF Codes
  <2>2. Goes(Answering(d, "500"))
    BY <2>1
  <2> QED
    BY <2>1, <2>2
<1> QED
  BY <1>1, <1>2, <1>3 DEF Returns

LEMMA ClaimIsBoolean == \A text : ClaimsBooking(text) \in BOOLEAN
BY DEF ClaimsBooking

LEMMA BodyType ==
    ASSUME NEW d \in Deliveries, handler[d] \in Handlers, handler[d].reply \in Texts
    PROVE  Body(d) \in Composed
<1>1. (handler[d].checked /\ ClaimsBooking(handler[d].reply)) \in BOOLEAN
  BY ClaimIsBoolean DEF Handlers
<1> QED
  BY <1>1, ComposedReply DEF Body

(* The reply is on record before it is sent, once.                         *)
LEMMA CompileFine ==
    ASSUME IInv, NEW d \in Deliveries, Compile(d), ToolsTypeOK'
    PROVE  IInv'
<1> DEFINE text == Body(d)
<1>1. Here(d) /\ handler[d].at = "reply"
  BY HandlerHere DEF Compile, At
<1>2. recorded[d] = <<>> /\ carried[d] = <<>> /\ handler[d].reply \in Texts
      /\ Accepted(Mail(d))
  BY <1>1 DEF Here, Fine, Unsaid, Handled
<1>3. text \in Composed
  BY <1>1, <1>2, BodyType DEF Here
<1>4. recorded' = [recorded EXCEPT ![d] = Append(@, text)]
      /\ Returns(d, text) /\ UNCHANGED <<mail, turns, carried, acked>>
  BY DEF Compile
<1> HIDE DEF text
<1>5. recorded'[d] = <<text>>
  <2>1. recorded'[d] = Append(<<>>, text)
    BY <1>2, <1>4 DEF IInv, TypeOK
  <2> QED
    BY <2>1
<1>6. recorded'[d] \in Seq(Composed) /\ recorded'[d] # <<>> /\ Len(recorded'[d]) = 1
  BY <1>3, <1>5
<1>8. PICK h \in Handlers :
         /\ h.message = handler[d].message /\ h.at \in {"send", "answer"}
         /\ h.at = "send" => Route(d) = "telnyx" /\ h.reply = text
         /\ h.at = "answer" /\ h.code = "200" => h.reply = text
         /\ handler' = [handler EXCEPT ![d] = h]
  BY <1>1, <1>3, <1>4, ReturnsType DEF Here
<1>9. handler'[d] = h /\ h # None
  BY <1>8, HandlerIsSome DEF IInv, TypeOK
<1>10. Mail(d)' = Mail(d)
  BY <1>4, <1>8, <1>9 DEF Mail
<1>11. Fine(d)'
  <2>1. Route(d)' = Route(d) /\ Accepted(Mail(d))'
    BY <1>2, <1>10 DEF Route, Accepted
  <2> QED
    BY <1>1, <1>2, <1>4, <1>5, <1>6, <1>8, <1>9, <1>10, <2>1
       DEF Here, Fine, Unsaid, Handled
<1>12. recorded' \in [Deliveries -> Seq(Composed)]
  BY <1>4, <1>5, <1>6 DEF IInv, TypeOK
<1> QED
  BY <1>1, <1>4, <1>6, <1>8, <1>11, <1>12, HandlerFine DEF Here, IInv, TypeOK

(* What the handler holds is on record, and is brought the first time.     *)
LEMMA CarriedOnce ==
    ASSUME IInv, NEW d \in Deliveries, carried[d] = <<>>,
           recorded[d] = <<handler[d].reply>>, Carry(d)
    PROVE  /\ carried' \in [Deliveries -> Seq(Composed)]
           /\ carried'[d] = recorded[d]
           /\ \A e \in Deliveries : e # d => carried'[e] = carried[e]
<1>1. recorded[d] \in Seq(Composed)
  BY DEF IInv, TypeOK
<1>2. Append(carried[d], handler[d].reply) = recorded[d]
  OBVIOUS
<1> QED
  BY <1>1, <1>2 DEF Carry, IInv, TypeOK

(* Telnyx gets the reply on record, at most once.                          *)
LEMMA SendFine ==
    ASSUME IInv, NEW d \in Deliveries, Send(d), ToolsTypeOK'
    PROVE  IInv'
<1>1. Here(d) /\ handler[d].at = "send" /\ UNCHANGED <<mail, turns, recorded, acked>>
  BY HandlerHere DEF Send, At
<1>2. /\ recorded[d] = <<handler[d].reply>> /\ recorded[d] # <<>>
      /\ carried[d] = <<>> /\ Accepted(Mail(d))
  <2>1. /\ recorded[d] = <<handler[d].reply>> /\ carried[d] = <<>>
        /\ handler[d].at \in Handled
    BY <1>1 DEF Here, Fine, Handled
  <2>2. <<handler[d].reply>> # <<>>
    OBVIOUS
  <2>3. Accepted(Mail(d))
    BY <1>1, <2>1 DEF Here, Fine
  <2> QED
    BY <2>1, <2>2, <2>3
<1>3. PICK code \in Codes : Answers(d, code)
  BY DEF Send, Codes
<1> DEFINE h == Answering(d, code)
<1>4. handler' = [handler EXCEPT ![d] = h]
  BY <1>3 DEF Answers, Responds, Answering
<1>5. h \in Handlers /\ h # None /\ h.message = handler[d].message /\ h.at = "answer"
  BY <1>1, AnsweringType DEF Here
<1> HIDE DEF h
<1>6. Carry(d) \/ UNCHANGED carried
  BY DEF Send
<1>7. /\ carried' \in [Deliveries -> Seq(Composed)]
      /\ carried'[d] \in {<<>>, recorded[d]}
      /\ \A e \in Deliveries : e # d => carried'[e] = carried[e]
  BY <1>2, <1>6, CarriedOnce DEF IInv, TypeOK
<1>8. handler'[d] = h
  BY <1>4 DEF IInv, TypeOK
<1>9. Mail(d)' = Mail(d)
  BY <1>1, <1>5, <1>8 DEF Mail
<1>10. Fine(d)'
  <2>1. Route(d)' = "telnyx"
    BY <1>1, <1>9 DEF Route, Here, Fine
  <2> QED
    BY <1>1, <1>2, <1>5, <1>7, <1>8, <1>9, <2>1 DEF Here, Fine, Unsaid, Handled, Accepted
<1> QED
  BY <1>1, <1>4, <1>5, <1>7, <1>10, HandlerFine DEF Here, IInv, TypeOK

(* The answer brings the reply of the routes that answer in the response,  *)
(* and with a 2xx the provider is done with the message.                   *)
LEMMA AnswerFine ==
    ASSUME IInv, NEW d \in Deliveries, Answer(d), ToolsTypeOK'
    PROVE  IInv'
<1> DEFINE h == [handler[d] EXCEPT !.at = "done", !.reply = None]
<1>1. Here(d) /\ handler[d].at = "answer" /\ UNCHANGED <<mail, turns, recorded>>
  BY HandlerHere DEF Answer, At
<1>2. handler' = [handler EXCEPT ![d] = h]
  BY DEF Answer
<1>3. h \in Handlers /\ h # None /\ h.message = handler[d].message /\ h.at = "done"
  BY <1>1, HandlerIsSome DEF Here, Handlers, Labels
<1> HIDE DEF h
<1>4. handler'[d] = h
  BY <1>2 DEF IInv, TypeOK
<1>5. \/ InResponse(d) /\ Carry(d)
      \/ UNCHANGED carried
  BY DEF Answer
<1>6. InResponse(d) => carried[d] = <<>> /\ recorded[d] = <<handler[d].reply>>
  BY <1>1 DEF InResponse, Here, Fine
<1>7. /\ carried' \in [Deliveries -> Seq(Composed)]
      /\ carried'[d] \in {<<>>, recorded[d]}
      /\ \A e \in Deliveries : e # d => carried'[e] = carried[e]
  <2>1. CASE InResponse(d) /\ Carry(d)
    BY <1>6, <2>1, CarriedOnce
  <2>2. CASE UNCHANGED carried
    BY <1>1, <2>2 DEF Here, Fine, IInv, TypeOK
  <2> QED
    BY <1>5, <2>1, <2>2
<1>8. \/ acked' = acked
      \/ acked' = acked \cup {h.message} /\ (Accepted(Mail(d)) => recorded'[d] # <<>>)
  BY <1>1, <1>3 DEF Answer, Here, Fine
<1>9. Mail(d)' = Mail(d) /\ Accepted(Mail(d))' = Accepted(Mail(d))
  BY <1>1, <1>3, <1>4 DEF Mail, Accepted
<1>10. Fine(d)'
  BY <1>1, <1>3, <1>4, <1>7, <1>9 DEF Here, Fine, Unsaid, Handled
<1> QED
  BY <1>1, <1>2, <1>3, <1>7, <1>8, <1>10, HandlerFine DEF Here, IInv, TypeOK

(* A restart loses the handlers and keeps the books.                       *)
LEMMA RestartFine ==
    ASSUME IInv, Restart, ToolsTypeOK'
    PROVE  IInv'
<1>1. UNCHANGED <<mail, turns, recorded, carried, acked>>
  BY DEF Restart, books
<1>2. ASSUME NEW d \in Deliveries
      PROVE  /\ handler'[d] \in Handlers \cup {None}
             /\ Fine(d)'
             /\ handler[d] # None => /\ handler'[d] # None
                                     /\ handler'[d].message = handler[d].message
  <2>1. CASE handler[d] = None \/ handler[d].at \in Ended
    <3>1. handler'[d] = handler[d]
      BY <2>1 DEF Restart
    <3> QED
      BY <1>1, <3>1, Unaffected DEF IInv, TypeOK
  <2>2. CASE handler[d] # None /\ handler[d].at \notin Ended
    <3> DEFINE h == [handler[d] EXCEPT !.at = "lost", !.reply = None, !.checked = FALSE]
    <3>1. Here(d)
      BY <2>2, HandlerHere
    <3>2. handler'[d] = h
      BY <2>2 DEF Restart
    <3>3. h \in Handlers /\ h # None /\ h.message = handler[d].message /\ h.at = "lost"
      BY <3>1, HandlerIsSome DEF Here, Handlers, Labels
    <3> HIDE DEF h
    <3>4. Mail(d)' = Mail(d) /\ Accepted(Mail(d))' = Accepted(Mail(d))
      BY <1>1, <3>2, <3>3 DEF Mail, Accepted
    <3>5. Fine(d)'
      BY <1>1, <3>1, <3>2, <3>3, <3>4 DEF Here, Fine, Unsaid, Handled
    <3> QED
      BY <3>2, <3>3, <3>5
  <2> QED
    BY <2>1, <2>2
<1>3. TypeOK'
  BY <1>1, <1>2 DEF IInv, TypeOK, Restart
<1>4. AckedIsAnswered' /\ Posted'
  BY <1>1, <1>2, StillAnswered DEF IInv, TypeOK, Posted
<1> QED
  BY <1>2, <1>3, <1>4 DEF IInv

--------------------------------------------------------------------------------
(* The theorems                                                            *)

LEMMA InitIInv == Init => IInv /\ WaitingRuns
<1> SUFFICES ASSUME Init PROVE IInv /\ WaitingRuns
  OBVIOUS
<1>1. TypeOK
  BY EmptySeq DEF Init, TypeOK, ToolsInit, ToolsTypeOK
<1>2. \A d \in Deliveries : Fine(d)
  BY EmptySeq DEF Init, Fine, Unsaid
<1> QED
  BY <1>1, <1>2 DEF Init, IInv, AckedIsAnswered, Posted, WaitingRuns, ToolsInit

LEMMA NextIInv == IInv /\ WaitingRuns /\ [Next]_vars => IInv' /\ WaitingRuns'
<1> SUFFICES ASSUME IInv, WaitingRuns, [Next]_vars
             PROVE  IInv' /\ WaitingRuns'
  OBVIOUS
<1>1. ToolsTypeOK' /\ WaitingRuns'
  <2>1. CASE UNCHANGED call
    BY <2>1 DEF IInv, TypeOK, ToolsTypeOK, WaitingRuns
  <2>2. CASE \E c \in Calls : \/ \E request \in Requests : Dispatch(c, request)
                              \/ Geocoded(c)
                              \/ Forecast(c)
    BY <2>2, ToolsKeepType, ToolsKeepContract DEF IInv, TypeOK
  <2> QED
    BY <2>1, <2>2, NextOfTools
<1>2. CASE UNCHANGED vars
  <2>1. \A d \in Deliveries : Fine(d)'
    BY <1>2, Unaffected DEF vars, IInv, TypeOK
  <2>2. TypeOK' /\ Posted' /\ AckedIsAnswered'
    BY <1>1, <1>2, StillAnswered DEF vars, IInv, TypeOK, Posted
  <2> QED
    BY <1>1, <2>1, <2>2 DEF IInv
<1>3. ASSUME NEW d \in Deliveries, NEW m \in Messages, NEW letter \in Mails,
             Post(d, m, letter)
      PROVE  IInv'
  BY <1>1, <1>3, ArrivesFine, MailOfRoutes DEF Post, IInv, TypeOK
<1>4. ASSUME NEW d \in Deliveries, NEW m \in Messages, Report(d, m)
      PROVE  IInv'
  <2> DEFINE letter == [route |-> "telnyx", payload |-> "report"]
  <2>1. letter \in Mails
    BY DEF Mails, Payloads, Routes
  <2> HIDE DEF letter
  <2>2. mail' = [mail EXCEPT ![m] = letter] /\ mail[m] = None
    BY <1>4 DEF Report, letter
  <2> QED
    BY <1>1, <1>4, <2>1, <2>2, ArrivesFine, MailOfRoutes DEF Report, IInv, TypeOK
<1>5. ASSUME NEW d \in Deliveries, NEW m \in Messages, Repost(d, m)
      PROVE  IInv'
  BY <1>1, <1>5, ArrivesFine DEF Repost, IInv, TypeOK
<1>6. ASSUME NEW d \in Deliveries, Step(d) \/ Fail(d)
      PROVE  IInv'
  <2>1. CASE Parse(d)
    BY <1>1, <2>1, ParseFine
  <2>2. CASE Handle(d)
    BY <1>1, <2>2, HandleFine
  <2>3. CASE Decide(d)
    BY <1>1, <2>3, DecideFine
  <2>4. CASE ToolStep(d)
    <3>1. UNCHANGED <<mail, books, handler>>
      BY <2>4 DEF ToolStep
    <3>2. \A e \in Deliveries : Fine(e)'
      BY <3>1, Unaffected DEF books, IInv, TypeOK
    <3>3. TypeOK' /\ Posted' /\ AckedIsAnswered'
      BY <1>1, <3>1, StillAnswered DEF books, IInv, TypeOK, Posted
    <3> QED
      BY <1>1, <3>2, <3>3 DEF IInv
  <2>5. CASE ToolReturned(d)
    BY <1>1, <2>5, ToolReturnedFine
  <2>6. CASE Compile(d)
    BY <1>1, <2>6, CompileFine
  <2>7. CASE Send(d)
    BY <1>1, <2>7, SendFine
  <2>8. CASE Answer(d)
    BY <1>1, <2>8, AnswerFine
  <2>9. CASE Fail(d)
    BY <1>1, <2>9, ErrorFine DEF Fail
  <2> QED
    BY <1>6, <2>1, <2>2, <2>3, <2>4, <2>5, <2>6, <2>7, <2>8, <2>9 DEF Step
<1>7. CASE Restart
  BY <1>1, <1>7, RestartFine
<1>8. CASE Next
  BY <1>1, <1>3, <1>4, <1>5, <1>6, <1>7, <1>8 DEF Next
<1> QED
  BY <1>1, <1>2, <1>8

LEMMA AlwaysIInv == Spec => [](IInv /\ WaitingRuns)
BY InitIInv, NextIInv, PTL DEF Spec

(* The variables keep their types, for any number of deliveries.           *)
THEOREM TypeCorrect == Spec => []TypeOK
<1>1. IInv => TypeOK
  BY DEF IInv
<1> QED
  BY <1>1, AlwaysIInv, PTL

(* No handling of a message brings two SMS, or one that is not on record,  *)
(* however often the message is posted and wherever it is cut off          *)
(* (router.py:112-113, 133-134).                                           *)
THEOREM AlwaysReadAsRecorded == Spec => []ReadAsRecorded
<1>1. IInv => ReadAsRecorded
  BY DEF IInv, Fine, ReadAsRecorded
<1> QED
  BY <1>1, AlwaysIInv, PTL

(* No provider stops posting a message whose reply is not on record        *)
(* (router.py:128-135).                                                    *)
THEOREM NeverAckedUnanswered == Spec => []AckedIsAnswered
<1>1. IInv => AckedIsAnswered
  BY DEF IInv
<1> QED
  BY <1>1, AlwaysIInv, PTL

(* Nothing but accepted messages of users is handled and answered          *)
(* (telnyx.py:45-49, twilio.py:42-48).                                     *)
THEOREM NothingElseAnswered == Spec => []OnlyUsersAreAnswered
<1>1. IInv => OnlyUsersAreAnswered
  BY DEF IInv, Fine, Unsaid, OnlyUsersAreAnswered
<1> QED
  BY <1>1, AlwaysIInv, PTL

(* Dispatcher, provider and normalizer implement the one call the runtime  *)
(* relies on (dispatcher.py:44-80).                                        *)
THEOREM ToolsImplementCall == Spec => ToolSpec
<1>1. Init => Contract!Init
  BY DEF Init, ToolsInit, Contract!Init
<1>2. IInv /\ WaitingRuns /\ [Next]_vars => [Contract!Next]_(Contract!vars)
  <2> SUFFICES ASSUME IInv, WaitingRuns, [Next]_vars
               PROVE  [Contract!Next]_(Contract!vars)
    OBVIOUS
  <2>1. CASE UNCHANGED call
    BY <2>1 DEF Contract!vars
  <2>2. CASE \E c \in Calls : \/ \E request \in Requests : Dispatch(c, request)
                              \/ Geocoded(c)
                              \/ Forecast(c)
    BY <2>2, ToolsKeepContract DEF IInv, TypeOK
  <2> QED
    BY <2>1, <2>2, NextOfTools
<1> QED
  BY <1>1, <1>2, AlwaysIInv, PTL DEF Spec, ToolSpec, Contract!Spec

--------------------------------------------------------------------------------
(* What Luna says                                                          *)

\* A reply that will be said without the check is the canned one, and what is on
\* record is honest.
Clean(d) ==
    /\ handler[d] # None /\ handler[d].at \in {"tool", "reply"} =>
          handler[d].checked \/ handler[d].reply = CannedText
    /\ \A n \in DOMAIN recorded[d] : Honest(recorded[d][n])

AllClean == \A d \in Deliveries : Clean(d)

(* A step that decides no reply and records none.                          *)
LEMMA QuietIsClean ==
    ASSUME AllClean, recorded' = recorded,
           \A d \in Deliveries :
               \/ handler'[d] = handler[d]
               \/ handler'[d] # None /\ handler'[d].at \notin {"tool", "reply"}
    PROVE  AllClean'
BY DEF AllClean, Clean

\* One handler moves.
Moved(d, h) == /\ handler[d] # None /\ handler[d] \in Handlers
               /\ handler' = [handler EXCEPT ![d] = h]

LEMMA MovedOne ==
    ASSUME IInv, NEW d \in Deliveries, NEW h, Moved(d, h)
    PROVE  /\ handler'[d] = h
           /\ \A e \in Deliveries : e # d => handler'[e] = handler[e]
BY DEF Moved, IInv, TypeOK

LEMMA AnswersClean ==
    ASSUME IInv, AllClean, NEW d \in Deliveries, handler[d] # None, NEW code \in Codes,
           Answers(d, code), recorded' = recorded
    PROVE  AllClean'
<1> DEFINE h == Answering(d, code)
<1>1. Moved(d, h)
  BY DEF Answers, Responds, Answering, Moved, IInv, TypeOK
<1>2. h # None /\ h.at = "answer"
  BY <1>1, AnsweringType DEF Moved
<1> HIDE DEF h
<1> QED
  BY <1>1, <1>2, MovedOne, QuietIsClean

LEMMA GoToClean ==
    ASSUME IInv, AllClean, NEW d \in Deliveries, handler[d] # None,
           NEW label \in Labels \ {"tool", "reply"}, GoTo(d, label), recorded' = recorded
    PROVE  AllClean'
<1> DEFINE h == [handler[d] EXCEPT !.at = label]
<1>1. Moved(d, h)
  BY DEF GoTo, Moved, IInv, TypeOK
<1>2. h # None /\ h.at = label
  <2>1. h \in Handlers /\ h.at = label
    BY <1>1 DEF Moved, Handlers
  <2> QED
    BY <2>1, HandlerIsSome
<1> HIDE DEF h
<1> QED
  BY <1>1, <1>2, MovedOne, QuietIsClean

(* What is decided is checked or canned.                                   *)
LEMMA ReplyClean ==
    ASSUME IInv, AllClean, NEW d \in Deliveries, handler[d] # None,
           NEW text \in Texts, NEW checked \in BOOLEAN, NEW label \in {"tool", "reply"},
           checked \/ text = CannedText,
           Reply(d, text, checked, label), recorded' = recorded
    PROVE  AllClean'
<1> DEFINE h == [handler[d] EXCEPT !.reply = text, !.checked = checked, !.at = label]
<1>1. Moved(d, h)
  BY DEF Reply, Moved, IInv, TypeOK
<1>2. h.checked = checked /\ h.reply = text
  BY <1>1 DEF Moved, Handlers
<1> HIDE DEF h
<1> QED
  BY <1>1, <1>2, MovedOne DEF AllClean, Clean

LEMMA DecideClean ==
    ASSUME IInv, AllClean, NEW d \in Deliveries, Decide(d)
    PROVE  AllClean'
<1>1. handler[d] # None /\ recorded' = recorded
  BY DEF Decide, At, books
<1>2. CASE Reply(d, CannedText, FALSE, "reply")
  BY <1>1, <1>2, ReplyClean DEF Texts
<1>3. ASSUME NEW draft \in Drafts,
             Reply(d, draft, TRUE, "reply") \/ Reply(d, draft, TRUE, "tool")
      PROVE  AllClean'
  BY <1>1, <1>3, ReplyClean DEF Texts
<1> QED
  BY <1>2, <1>3 DEF Decide

LEMMA ToolReturnedClean ==
    ASSUME IInv, AllClean, NEW d \in Deliveries, ToolReturned(d)
    PROVE  AllClean'
<1>1. handler[d] # None /\ handler[d].at = "tool" /\ recorded' = recorded
  BY DEF ToolReturned, At, books
<1>2. CASE Reply(d, ToolText, TRUE, "reply")
  BY <1>1, <1>2, ReplyClean DEF Texts
<1>3. CASE Answers(d, "500")
  BY <1>1, <1>3, AnswersClean DEF Codes
<1>4. CASE GoTo(d, "reply")
  <2> DEFINE h == [handler[d] EXCEPT !.at = "reply"]
  <2>1. Moved(d, h)
    BY <1>1, <1>4 DEF GoTo, Moved, IInv, TypeOK
  <2>2. h.checked = handler[d].checked /\ h.reply = handler[d].reply
    BY <2>1 DEF Moved, Handlers
  <2> HIDE DEF h
  <2> QED
    BY <1>1, <2>1, <2>2, MovedOne DEF AllClean, Clean
<1> QED
  BY <1>2, <1>3, <1>4 DEF ToolReturned

(* Of a reply that claims a booking the check blocks what is not canned,   *)
(* and the canned one claims none.                                         *)
LEMMA BodyIsHonest ==
    ASSUME IInv, AllClean, NEW d \in Deliveries, handler[d] # None, handler[d].at = "reply"
    PROVE  Honest(Body(d))
<1> DEFINE reply == handler[d].reply
           blocked == handler[d].checked /\ ClaimsBooking(reply)
<1>1. Here(d)
  BY HandlerHere
<1>2. reply \in Texts
  BY <1>1 DEF Here, Fine
<1>3. blocked \in BOOLEAN /\ (ClaimsBooking(reply) => blocked)
      /\ (~blocked => ~ClaimsBooking(reply))
  <2>1. ClaimsBooking(reply) \in BOOLEAN /\ handler[d].checked \in BOOLEAN
    BY <1>1, ClaimIsBoolean DEF Here, Handlers
  <2>2. handler[d].checked \/ reply = CannedText
    BY DEF AllClean, Clean
  <2>3. ClaimsBooking(reply) => handler[d].checked
    BY <2>2, CannedAssumption
  <2> HIDE DEF reply
  <2> QED
    BY <2>1, <2>3
<1>4. Body(d) = Compose(reply, blocked, FALSE)
  BY DEF Body
<1> HIDE DEF reply, blocked
<1>5. ASSUME ClaimsBooking(Body(d)) PROVE ~blocked /\ ClaimsOnceLimited(reply)
  BY <1>2, <1>3, <1>4, <1>5, TextsAssumption, ComposeClaimsNothing
<1>6. ASSUME ClaimsBooking(Body(d))
      PROVE  /\ ~ClaimsBooking(reply) /\ ClaimsOnceLimited(reply)
             /\ Body(d) = Compose(reply, FALSE, FALSE)
  <2>1. ~blocked /\ ClaimsOnceLimited(reply)
    BY <1>5, <1>6
  <2>2. blocked = FALSE
    BY <1>3, <2>1
  <2> QED
    BY <1>3, <1>4, <2>1, <2>2
<1> QED
  BY <1>2, <1>6 DEF Honest

LEMMA CompileClean ==
    ASSUME IInv, AllClean, NEW d \in Deliveries, Compile(d)
    PROVE  AllClean'
<1> DEFINE said == Body(d)
<1>1. Here(d) /\ handler[d].at = "reply"
  BY HandlerHere DEF Compile, At
<1>2. handler[d].reply \in Texts /\ recorded[d] = <<>> /\ handler[d] # None
  BY <1>1 DEF Here, Fine, Unsaid
<1>3. said \in Composed /\ Honest(said)
  BY <1>1, <1>2, BodyType, BodyIsHonest DEF Here
<1>4. recorded' = [recorded EXCEPT ![d] = Append(@, said)] /\ Returns(d, said)
  BY DEF Compile
<1> HIDE DEF said
<1>6. /\ recorded'[d] = <<said>>
      /\ \A e \in Deliveries : e # d => recorded'[e] = recorded[e]
  <2>1. recorded \in [Deliveries -> Seq(Composed)]
    BY DEF IInv, TypeOK
  <2>2. recorded' = [recorded EXCEPT ![d] = Append(<<>>, said)]
    BY <1>2, <1>4, <2>1
  <2>3. Append(<<>>, said) = <<said>>
    OBVIOUS
  <2> QED
    BY <2>1, <2>2, <2>3
<1>7. \A n \in DOMAIN recorded'[d] : Honest(recorded'[d][n])
  <2>1. DOMAIN <<said>> = {1} /\ <<said>>[1] = said
    OBVIOUS
  <2> QED
    BY <1>3, <1>6, <2>1
<1>8. \E h \in Handlers : Moved(d, h) /\ h.at \in {"send", "answer"}
  BY <1>1, <1>2, <1>3, <1>4, ReturnsType DEF Moved, Here
<1>9. PICK h \in Handlers : Moved(d, h) /\ h.at \in {"send", "answer"}
  BY <1>8
<1>10. ASSUME NEW e \in Deliveries PROVE Clean(e)'
  <2>1. CASE e = d
    BY <1>7, <1>9, <2>1, MovedOne DEF Clean
  <2>2. CASE e # d
    BY <1>6, <1>9, <2>2, MovedOne DEF AllClean, Clean
  <2> QED
    BY <2>1, <2>2
<1> QED
  BY <1>10 DEF AllClean

LEMMA NextClean == IInv /\ AllClean /\ [Next]_vars => AllClean'
<1> SUFFICES ASSUME IInv, AllClean, [Next]_vars PROVE AllClean'
  OBVIOUS
<1>1. CASE UNCHANGED <<handler, recorded>>
  BY <1>1, QuietIsClean
<1>2. ASSUME NEW d \in Deliveries, NEW m \in Messages, Arrives(d, m)
      PROVE  AllClean'
  <2> DEFINE h == [message |-> m, at |-> "parse", reply |-> None, checked |-> FALSE,
                   code |-> None]
  <2>1. h \in Handlers /\ h # None /\ h.at = "parse"
    <3>1. h \in Handlers
      BY DEF Handlers, Labels
    <3> QED
      BY <3>1, HandlerIsSome
  <2>2. handler' = [handler EXCEPT ![d] = h] /\ recorded' = recorded
    BY <1>2 DEF Arrives, books
  <2> HIDE DEF h
  <2>3. /\ handler'[d] = h
        /\ \A e \in Deliveries : e # d => handler'[e] = handler[e]
    BY <2>2 DEF IInv, TypeOK
  <2> QED
    BY <2>1, <2>2, <2>3, QuietIsClean
<1>3. ASSUME NEW d \in Deliveries, Parse(d) PROVE AllClean'
  <2>1. /\ handler[d] # None /\ recorded' = recorded
        /\ \/ GoTo(d, "handle")
           \/ Parsed(Mail(d)) # "event" /\ Answers(d, Parsed(Mail(d)))
    BY <1>3 DEF Parse, At, books
  <2>2. Parsed(Mail(d)) \in Codes \cup {"event"}
    BY <2>1, HandlerHere, ParsedType DEF Here
  <2> QED
    BY <2>1, <2>2, GoToClean, AnswersClean DEF Labels
<1>4. ASSUME NEW d \in Deliveries, Handle(d) PROVE AllClean'
  BY <1>4, GoToClean DEF Handle, At, Labels
<1>5. ASSUME NEW d \in Deliveries, Send(d) PROVE AllClean'
  BY <1>5, AnswersClean DEF Send, At, Codes
<1>6. ASSUME NEW d \in Deliveries, Answer(d) PROVE AllClean'
  <2> DEFINE h == [handler[d] EXCEPT !.at = "done", !.reply = None]
  <2>1. handler[d] # None /\ recorded' = recorded /\ handler' = [handler EXCEPT ![d] = h]
    BY <1>6 DEF Answer, At
  <2>2. h \in Handlers /\ h.at = "done"
    BY <2>1, HandlerHere DEF Here, Handlers, Labels
  <2> HIDE DEF h
  <2>3. Moved(d, h) /\ h # None
    BY <2>1, <2>2, HandlerIsSome, HandlerHere DEF Moved, Here
  <2> QED
    BY <2>1, <2>2, <2>3, MovedOne, QuietIsClean
<1>7. ASSUME NEW d \in Deliveries, Fail(d) PROVE AllClean'
  BY <1>7, AnswersClean DEF Fail, books, Codes
<1>8. CASE Restart
  <2>1. recorded' = recorded
    BY <1>8 DEF Restart, books
  <2>2. ASSUME NEW d \in Deliveries
        PROVE  \/ handler'[d] = handler[d]
               \/ handler'[d] # None /\ handler'[d].at \notin {"tool", "reply"}
    <3> DEFINE h == [handler[d] EXCEPT !.at = "lost", !.reply = None, !.checked = FALSE]
    <3>1. CASE handler[d] = None \/ handler[d].at \in Ended
      BY <1>8, <3>1 DEF Restart
    <3>2. CASE ~(handler[d] = None \/ handler[d].at \in Ended)
      <4>1. handler'[d] = h
        BY <1>8, <3>2 DEF Restart
      <4>2. h \in Handlers /\ h.at = "lost"
        BY <3>2, HandlerHere DEF Here, Handlers, Labels
      <4> HIDE DEF h
      <4> QED
        BY <4>1, <4>2, HandlerIsSome
    <3> QED
      BY <3>1, <3>2
  <2> QED
    BY <2>1, <2>2, QuietIsClean
<1>9. \/ UNCHANGED <<handler, recorded>>
      \/ \E d \in Deliveries, m \in Messages : Arrives(d, m)
      \/ \E d \in Deliveries : \/ Parse(d) \/ Handle(d) \/ Decide(d) \/ ToolReturned(d)
                               \/ Compile(d) \/ Send(d) \/ Answer(d) \/ Fail(d)
      \/ Restart
  BY DEF Next, Post, Report, Repost, Step, ToolStep, books, vars
<1> QED
  BY <1>1, <1>2, <1>3, <1>4, <1>5, <1>6, <1>7, <1>8, <1>9, DecideClean,
     ToolReturnedClean, CompileClean

(* Every reply on record fits one SMS, and so does whatever may be made of *)
(* a reply about to be composed, for any texts and any lengths; and a      *)
(* reply on record claims a booking only where options were dropped from   *)
(* within the claim, after the check                                       *)
(* (response_composer.py:46-68, 83-84, runtime.py:121-136).                *)
THEOREM RepliesAlwaysFit == Spec => []RepliesFit
<1>1. Init => AllClean
  BY DEF Init, AllClean, Clean
<1>2. IInv /\ AllClean => RepliesFit
  <2> SUFFICES ASSUME IInv, AllClean, NEW d \in Deliveries
               PROVE  /\ \A n \in DOMAIN recorded[d] :
                            FitsSms(recorded[d][n]) /\ Honest(recorded[d][n])
                      /\ At(d, "reply") => \A blocked, confirm \in BOOLEAN :
                             FitsSms(Compose(handler[d].reply, blocked, confirm))
    BY DEF RepliesFit
  <2>1. ASSUME NEW n \in DOMAIN recorded[d] PROVE FitsSms(recorded[d][n])
    <3>1. recorded[d][n] \in Composed
      <4>1. recorded[d] \in Seq(Composed)
        BY DEF IInv, TypeOK
      <4> QED
        BY <4>1
    <3>2. PICK text \in Texts, blocked \in BOOLEAN :
              recorded[d][n] = Compose(text, blocked, FALSE)
      BY <3>1 DEF Composed
    <3> QED
      BY <3>2, TextsAssumption, ComposeFits
  <2>2. ASSUME At(d, "reply"), NEW blocked \in BOOLEAN, NEW confirm \in BOOLEAN
        PROVE  FitsSms(Compose(handler[d].reply, blocked, confirm))
    <3>1. handler[d].reply \in Lined
      BY <2>2, TextsAssumption DEF At, IInv, Fine
    <3> QED
      BY <3>1, ComposeFits
  <2> QED
    BY <2>1, <2>2 DEF AllClean, Clean
<1> QED
  BY <1>1, <1>2, NextClean, AlwaysIInv, PTL DEF Spec

================================================================================
