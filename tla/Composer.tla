-------------------------------- MODULE Composer --------------------------------
(***************************************************************************)
(* The response composer (luna/composer/response_composer.py): what it     *)
(* makes of a reply before it becomes an SMS.  A text is a sequence of     *)
(* lines; of a line it matters whether it is an option ("1. ...", "- ..."),*)
(* how many characters it has, and what it has to do with the claim of a   *)
(* booking: it makes one, or ends with the first words of one, or begins   *)
(* with the last.  Lines come without blanks around them, and a blank one  *)
(* has length 0.                                                           *)
(***************************************************************************)
EXTENDS Naturals, Sequences, FiniteSets, FiniteSetsExt

CONSTANTS
    TargetLength,   \* _TARGET_LENGTH
    MaxOptions,     \* max_options of _limit_options()
    SuffixLength,   \* of _CONFIRMATION_SUFFIX, without its line break
    RewrittenReply  \* PolicyDecision.rewritten_reply of check_outbound()

ASSUME LengthsAssumption ==
    TargetLength \in Nat \ {0} /\ MaxOptions \in Nat /\ SuffixLength \in Nat

Lines == [option: BOOLEAN, length: Nat, claim: BOOLEAN, opens: BOOLEAN, closes: BOOLEAN]
Lined == Seq(Lines) \ {<<>>}

Blank  == [option |-> FALSE, length |-> 0,
           claim |-> FALSE, opens |-> FALSE, closes |-> FALSE]
Suffix == [option |-> FALSE, length |-> SuffixLength,
           claim |-> FALSE, opens |-> FALSE, closes |-> FALSE]

Options(text) == {i \in DOMAIN text : text[i].option}

\* Characters before line i, line breaks included.
Offset(text, i) ==
    LET before[n \in 0..Len(text)] ==
            IF n = 0 THEN 0 ELSE before[n - 1] + text[n].length + 1
    IN before[i - 1]

TextLength(text) == Offset(text, Len(text)) + text[Len(text)].length

\* With the lines in gone taken out, nothing but line breaks stands between the
\* words that end line i and those that begin line j, and \s+ matches them.
JoinedWithout(text, gone, i, j) ==
    /\ i < j /\ text[i].opens /\ text[j].closes
    /\ \A k \in (i + 1)..(j - 1) : k \in gone \/ text[k].length = 0

\* policy.check_outbound() finds a claim in the text, on a line or across lines.
ClaimsBooking(text) ==
    \/ \E i \in DOMAIN text : text[i].claim
    \/ \E i, j \in DOMAIN text : JoinedWithout(text, {}, i, j)

\* It is written into the code, lists nothing and claims nothing.
ASSUME RewriteAssumption ==
    /\ RewrittenReply \in Lined
    /\ Options(RewrittenReply) = {} /\ ~ClaimsBooking(RewrittenReply)

\* str.strip(): blank lines at either end go; there is always a line left.
Strip(text) ==
    LET full == {i \in DOMAIN text : text[i].length > 0}
    IN IF full = {} THEN <<Blank>> ELSE SubSeq(text, Min(full), Max(full))

\* The lines of the text at the places given, in order.
LinesAt(text, places) ==
    [n \in 1..Cardinality(places) |->
        text[CHOOSE i \in places : Cardinality(places \cap 1..i) = n]]

\* A slip: the count starts at the option after the first.
LimitOptionsFromZero(text) ==
    Strip(LinesAt(text, DOMAIN text \
        {i \in Options(text) : Cardinality(Options(text) \cap 1..(i - 1)) > MaxOptions}))

\* The options after the first few.
Dropped(text) == {i \in Options(text) : Cardinality(Options(text) \cap 1..i) > MaxOptions}

\* _limit_options(): they are dropped, other lines stay.
LimitOptions(text) == Strip(LinesAt(text, DOMAIN text \ Dropped(text)))

\* text[:TargetLength - 1] with an ellipsis: the last line that begins within it
\* is cut short.
Cut(text) ==
    LET last == Max({i \in DOMAIN text : Offset(text, i) <= TargetLength - 1})
        left == TargetLength - 1 - Offset(text, last)
        kept == IF text[last].length < left THEN text[last].length ELSE left
    IN [SubSeq(text, 1, last) EXCEPT ![last].length = kept + 1]

Capped(text) == IF TextLength(text) > TargetLength THEN Cut(text) ELSE text

\* The YES/NO prompt, where it fits.
Prompt(text) ==
    IF TextLength(Append(text, Suffix)) <= TargetLength THEN Append(text, Suffix)
                                                        ELSE text

\* compose(): rewrite, options, prompt, length, in this order.
Compose(reply, blocked, confirm) ==
    LET body == LimitOptions(IF blocked THEN RewrittenReply ELSE reply)
    IN Capped(IF confirm THEN Prompt(body) ELSE body)

--------------------------------------------------------------------------------
\* What an SMS has room for.
FitsSms(text) == /\ TextLength(text) <= TargetLength
                 /\ Cardinality(Options(text)) <= MaxOptions

\* The options that are dropped stood between the two halves of a claim.
ClaimsOnceLimited(text) ==
    \E i, j \in DOMAIN text \ Dropped(text) : JoinedWithout(text, Dropped(text), i, j)
================================================================================
