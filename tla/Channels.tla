-------------------------------- MODULE Channels --------------------------------
(***************************************************************************)
(* The channels (luna/gateway/router.py, luna/channels) with what lies     *)
(* between a webhook and its reply: parse, handle, call a tool, compose,   *)
(* send.  Telnyx and Twilio post a message again while they have no answer *)
(* of 2xx for it, which may be while the first call is still handled;      *)
(* answers and replies get lost; and Telnyx reports each SMS of Luna's to  *)
(* the same URL the messages of users come to.                             *)
(*                                                                         *)
(* Module Runtime has the steps of the handling one by one.  Here the      *)
(* handling is what it writes and what it says.  Handlers interleave at    *)
(* any step, which is more than the event loop allows.                     *)
(***************************************************************************)
EXTENDS Composer, Tools

CONSTANTS
    Messages,   \* what is posted: messages of users, reports of Telnyx
    Validating, \* settings.twilio_validate_signatures
    TelnyxKey,  \* settings.telnyx_api_key is not empty
    Drafts,     \* the reply drafts of plans
    CannedText, \* the answer of policy and resolver
    ToolText    \* reply_text of a tool that ran

Texts == Drafts \cup {CannedText, ToolText}

\* What the composer may make of them for the runtime.
Composed == {Compose(text, TRUE, FALSE) : text \in Texts}
            \cup {Compose(text, FALSE, FALSE) : text \in Texts}

ASSUME TextsAssumption == None \notin Texts /\ Texts \subseteq Lined

\* The fixed texts claim nothing, and a confirmation is asked for by no code,
\* so that the resolver has no summary of one to quote.
ASSUME CannedAssumption == ~ClaimsBooking(CannedText)

\* A webhook call, one of the deliveries of its message.
Deliveries == Calls

\* What comes in.  A report is a message.sent or message.finalized of Telnyx,
\* a shapeless payload one where an object is expected and something else is.
Payloads ==
    [simulate |-> {"message", "shapeless"},
     twilio   |-> {"message", "unsigned", "no_sender"},
     telnyx   |-> {"message", "no_sender", "no_json", "shapeless", "report"}]

Routes == DOMAIN Payloads
Mails  == {mail \in [route: Routes, payload: UNION {Payloads[r] : r \in Routes}] :
              mail.payload \in Payloads[mail.route]}

Codes  == {"200", "400", "403", "422", "500"}
Labels == {"parse", "handle", "decide", "tool", "reply", "send", "answer", "done", "lost"}
Ended  == {"done", "lost"}

\* reply is the draft, the text decided on, and once composed what handle()
\* returns and the route hands on.
Handlers == [message: Messages, at: Labels, reply: Texts \cup Composed \cup {None},
             checked: BOOLEAN, code: Codes \cup {None}]

ASSUME SettingsAssumption == Validating \in BOOLEAN /\ TelnyxKey \in BOOLEAN
ASSUME NoneIsNoMail == None \notin Mails \cup Handlers

VARIABLES
    mail,       \* each message once it was posted, None before
    handler,    \* the handler of each delivery, None before it comes
    turns,      \* deliveries whose message is in the conversation
    recorded,   \* Luna's turns in the conversation, per delivery
    carried,    \* what reached the user's phone, per delivery
    acked       \* messages the provider has an answer of 2xx for

books == <<turns, recorded, carried, acked>>
vars  == <<mail, handler, turns, recorded, carried, acked, call>>

TypeOK ==
    /\ ToolsTypeOK
    /\ mail \in [Messages -> Mails \cup {None}]
    /\ handler \in [Deliveries -> Handlers \cup {None}]
    /\ turns \subseteq Deliveries
    /\ recorded \in [Deliveries -> Seq(Composed)]
    /\ carried \in [Deliveries -> Seq(Composed)]
    /\ acked \subseteq Messages

Init ==
    /\ ToolsInit
    /\ mail = [m \in Messages |-> None]
    /\ handler = [d \in Deliveries |-> None]
    /\ turns = {} /\ acked = {}
    /\ recorded = [d \in Deliveries |-> <<>>]
    /\ carried = [d \in Deliveries |-> <<>>]

Mail(d)  == mail[handler[d].message]
Route(d) == Mail(d).route

At(d, label) == handler[d] # None /\ handler[d].at = label

GoTo(d, label) == handler' = [handler EXCEPT ![d].at = label]

\* The HTTP response is decided, with a reply in it or without.
Responds(d, code, text) ==
    handler' = [handler EXCEPT ![d] =
        [@ EXCEPT !.at = "answer", !.code = code, !.reply = text, !.checked = FALSE]]

Answers(d, code) == Responds(d, code, None)

Arrives(d, m) ==
    /\ handler[d] = None
    /\ handler' = [handler EXCEPT ![d] = [message |-> m, at |-> "parse", reply |-> None,
                                          checked |-> FALSE, code |-> None]]
    /\ UNCHANGED <<books, call>>

--------------------------------------------------------------------------------
(* The providers                                                           *)

\* A message of a user, or what a provider makes of it.
Post(d, m, letter) ==
    /\ mail[m] = None /\ letter.payload # "report"
    /\ mail' = [mail EXCEPT ![m] = letter]
    /\ Arrives(d, m)

\* Telnyx tells what became of an SMS of Luna's.
Report(d, m) ==
    /\ mail[m] = None
    /\ \E e \in Deliveries :
          handler[e] # None /\ Route(e) = "telnyx" /\ carried[e] # <<>>
    /\ mail' = [mail EXCEPT ![m] = [route |-> "telnyx", payload |-> "report"]]
    /\ Arrives(d, m)

\* The provider has given up waiting, or got an error.
Repost(d, m) ==
    /\ mail[m] # None /\ mail[m].route # "simulate"
    /\ m \notin acked
    /\ Arrives(d, m)
    /\ UNCHANGED mail

--------------------------------------------------------------------------------
(* The routes                                                              *)

\* A slip: whatever names a sender is a message.
ParseTelnyxAnyEvent(payload) ==
    CASE payload \in {"no_json", "no_sender"}  -> "400"
      [] payload = "shapeless"                 -> "500"
      [] payload \in {"message", "report"}     -> "event"

\* telnyx.parse_request(): .get() on what is no object raises.
ParseTelnyx(payload) ==
    CASE payload \in {"no_json", "no_sender"} -> "400"
      [] payload = "shapeless"                -> "500"
      [] payload = "report"                   -> "200"
      [] payload = "message"                  -> "event"

\* twilio.parse_request(), signature_is_valid()
ParseTwilio(payload) ==
    CASE payload = "no_sender"                        -> "400"
      [] payload = "unsigned" /\ Validating  -> "403"
      [] payload = "unsigned" /\ ~Validating -> "event"
      [] payload = "message"                          -> "event"

\* SimulateRequest, simulator.normalize()
ParseSimulate(payload) == IF payload = "message" THEN "event" ELSE "422"

Parsed(letter) ==
    CASE letter.route = "telnyx"   -> ParseTelnyx(letter.payload)
      [] letter.route = "twilio"   -> ParseTwilio(letter.payload)
      [] letter.route = "simulate" -> ParseSimulate(letter.payload)

Parse(d) ==
    /\ At(d, "parse")
    /\ IF Parsed(Mail(d)) = "event" THEN GoTo(d, "handle") ELSE Answers(d, Parsed(Mail(d)))
    /\ UNCHANGED <<mail, books, call>>

--------------------------------------------------------------------------------
(* The runtime between them                                                *)

\* memory.append_turn(user_id, "user", body)
Handle(d) ==
    /\ At(d, "handle")
    /\ turns' = turns \cup {d}
    /\ GoTo(d, "decide")
    /\ UNCHANGED <<mail, recorded, carried, acked, call>>

Reply(d, text, checked, label) ==
    handler' = [handler EXCEPT ![d].reply = text, ![d].checked = checked, ![d].at = label]

\* Policy or resolver answers, or the plan: with its draft, or with a tool.
Decide(d) ==
    /\ At(d, "decide")
    /\ \/ Reply(d, CannedText, FALSE, "reply") /\ UNCHANGED call
       \/ \E draft \in Drafts :
             \/ Reply(d, draft, TRUE, "reply") /\ UNCHANGED call
             \/ /\ \E request \in Requests : Dispatch(d, request)
                /\ Reply(d, draft, TRUE, "tool")
    /\ UNCHANGED <<mail, books>>

\* The tool's text if the tool ran, the draft otherwise; an exception ends the
\* handler.
ToolReturned(d) ==
    /\ At(d, "tool") /\ call[d].at = "returned"
    /\ CASE call[d].status = "ok"     -> Reply(d, ToolText, TRUE, "reply")
         [] call[d].status = "raised" -> Answers(d, "500")
         [] OTHER                     -> GoTo(d, "reply")
    /\ UNCHANGED <<mail, books, call>>

\* Checked unless it is canned, and composed.
Body(d) == Compose(handler[d].reply,
                   handler[d].checked /\ ClaimsBooking(handler[d].reply), FALSE)

\* handle() returns, or the log entry after the turn fails.
Returns(d, text) ==
    \/ Route(d) = "telnyx" /\ Reply(d, text, FALSE, "send")
    \/ Route(d) # "telnyx" /\ Responds(d, "200", text)
    \/ Answers(d, "500")

\* A slip: what goes on record is the reply as it was before composing.
CompileRecordsDraft(d) ==
    /\ At(d, "reply")
    /\ recorded' = [recorded EXCEPT ![d] = Append(@, handler[d].reply)]
    /\ Returns(d, Body(d))
    /\ UNCHANGED <<mail, turns, carried, acked, call>>

\* memory.append_turn(user_id, "luna", composed.body), and the same is returned.
Compile(d) ==
    /\ At(d, "reply")
    /\ recorded' = [recorded EXCEPT ![d] = Append(@, Body(d))]
    /\ Returns(d, Body(d))
    /\ UNCHANGED <<mail, turns, carried, acked, call>>

--------------------------------------------------------------------------------
(* The way back                                                            *)

Carry(d) == carried' = [carried EXCEPT ![d] = Append(@, handler[d].reply)]

\* telnyx.send_reply(): nothing without a key; an error of Telnyx's is not
\* looked at, and a timeout, after which the SMS may be out, is an exception.
Send(d) ==
    /\ At(d, "send")
    /\ \/ TelnyxKey /\ Carry(d) /\ Answers(d, "200")
       \/ UNCHANGED carried /\ Answers(d, "200")
       \/ TelnyxKey /\ Carry(d) /\ Answers(d, "500")
       \/ TelnyxKey /\ UNCHANGED carried /\ Answers(d, "500")
    /\ UNCHANGED <<mail, turns, recorded, acked, call>>

\* The reply travels in the response, as TwiML or as JSON.
InResponse(d) == Route(d) # "telnyx" /\ handler[d].code = "200"

\* The response gets to the provider, or does not in time.
Answer(d) ==
    /\ At(d, "answer")
    /\ handler' = [handler EXCEPT ![d] = [@ EXCEPT !.at = "done", !.reply = None]]
    /\ \/ /\ IF InResponse(d) THEN Carry(d) ELSE UNCHANGED carried
          /\ acked' = IF handler[d].code = "200" THEN acked \cup {handler[d].message}
                                                 ELSE acked
       \/ UNCHANGED <<carried, acked>>
    /\ UNCHANGED <<mail, turns, recorded, call>>

\* A slip: an error is answered as the module's docstring says, with 200.
FailAcknowledged(d) ==
    /\ handler[d] # None /\ handler[d].at \in {"handle", "decide", "reply"}
    /\ Answers(d, "200")
    /\ UNCHANGED <<mail, books, call>>

\* A write to the database raises; FastAPI answers 500.
Fail(d) ==
    /\ handler[d] # None /\ handler[d].at \in {"handle", "decide", "reply"}
    /\ Answers(d, "500")
    /\ UNCHANGED <<mail, books, call>>

\* The process dies: nobody gets an answer.
Restart ==
    /\ \E d \in Deliveries : handler[d] # None /\ handler[d].at \notin Ended
    /\ handler' = [d \in Deliveries |->
          IF handler[d] = None \/ handler[d].at \in Ended THEN handler[d]
          ELSE [handler[d] EXCEPT !.at = "lost", !.reply = None, !.checked = FALSE]]
    /\ UNCHANGED <<mail, books, call>>

ToolStep(d) ==
    /\ At(d, "tool")
    /\ Geocoded(d) \/ Forecast(d)
    /\ UNCHANGED <<mail, books, handler>>

Step(d) ==
    \/ Parse(d) \/ Handle(d) \/ Decide(d) \/ ToolStep(d) \/ ToolReturned(d)
    \/ Compile(d) \/ Send(d) \/ Answer(d)

Next ==
    \/ \E d \in Deliveries, m \in Messages :
          \/ \E letter \in Mails : Post(d, m, letter)
          \/ Report(d, m) \/ Repost(d, m)
    \/ \E d \in Deliveries : Step(d) \/ Fail(d)
    \/ Restart

Spec == Init /\ [][Next]_vars

--------------------------------------------------------------------------------
(* Properties                                                              *)

(* However often a message is posted, and wherever its handling is cut     *)
(* off, each handling brings the user at most one SMS, and it is the reply *)
(* on record: the next turn of the conversation builds on what the user    *)
(* has really read (router.py:112-113, 133-134, runtime.py:139-141).       *)
ReadAsRecorded ==
    \A d \in Deliveries : Len(recorded[d]) <= 1 /\ carried[d] \in {<<>>, recorded[d]}

\* A message of a user that Luna accepts.
Accepted(letter) == \/ letter.payload = "message"
                    \/ letter.payload = "unsigned" /\ ~Validating

(* A message is never given up unanswered: once the provider has its 2xx   *)
(* and stops posting, a reply to it is on record (router.py:128-135).      *)
AckedIsAnswered ==
    \A m \in acked : Accepted(mail[m]) =>
        \E d \in Deliveries :
            handler[d] # None /\ handler[d].message = m /\ recorded[d] # <<>>

(* Luna never answers herself: the reports of her own SMS, which come to   *)
(* the URL of the users' messages, leave no turn and bring no reply, nor   *)
(* does what a parser turned away (telnyx.py:45-49, twilio.py:42-48).      *)
OnlyUsersAreAnswered ==
    \A d \in Deliveries :
        d \in turns \/ recorded[d] # <<>> \/ carried[d] # <<>> =>
            handler[d] # None /\ Accepted(Mail(d))

\* It claims a booking only where the composer closed up two halves of a phrase
\* between which the check, which came before, found options.
Honest(said) ==
    ClaimsBooking(said) =>
        \E text \in Texts : /\ ~ClaimsBooking(text) /\ ClaimsOnceLimited(text)
                            /\ said = Compose(text, FALSE, FALSE)

(* Whatever Luna says fits one SMS: within the length and the options,     *)
(* with or without the YES/NO prompt.  Whether tool, draft or fixed text,  *)
(* it claims no booking unless dropping options made the claim, after the  *)
(* check (response_composer.py:46-68, 83-84, runtime.py:121-136).          *)
RepliesFit ==
    \A d \in Deliveries :
        /\ \A n \in DOMAIN recorded[d] :
              FitsSms(recorded[d][n]) /\ Honest(recorded[d][n])
        /\ At(d, "reply") => \A blocked, confirm \in BOOLEAN :
               FitsSms(Compose(handler[d].reply, blocked, confirm))
================================================================================
