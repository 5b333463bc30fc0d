------------------------------- MODULE MCChannels -------------------------------
(* Channels on a small instance.  The lengths are those of the code scaled *)
(* down: an SMS has 12 characters and two options, the prompt takes 4.     *)
EXTENDS Channels, TLC

Plain(n)  == [option |-> FALSE, length |-> n,
              claim |-> FALSE, opens |-> FALSE, closes |-> FALSE]
Option(n) == [Plain(n) EXCEPT !.option = TRUE]
Claim(n)  == [Plain(n) EXCEPT !.claim = TRUE]

\* A list with more options than fit, the last of them between "Your booking" and
\* "is confirmed"; a claim longer than an SMS; and a claim over two lines.
SomeDrafts ==
    {<<Plain(2), Option(1), [Option(1) EXCEPT !.opens = TRUE], Option(1),
       [Plain(2) EXCEPT !.closes = TRUE], Plain(0)>>,
     <<Claim(9), Plain(5)>>,
     <<[Plain(3) EXCEPT !.opens = TRUE], Plain(0), [Plain(2) EXCEPT !.closes = TRUE]>>}

\* As long as an SMS to the character, or short.
Canned  == <<Plain(12)>>
Weather == <<Plain(3), Plain(4)>>
Rewrite == <<Plain(5), Plain(6)>>

\* A tool that is run at once, the weather, and what the registry has no case
\* of today but the dispatcher provides for: a tool switched off, one without an
\* implementation, and one that is not registered.
Ask(tool, arg) == [tool |-> tool, arg |-> arg]

Plans == {Ask("flight_search", "missing"), Ask("flight_search", "number"),
          Ask("weather_lookup", "text"), Ask("weather_lookup", "number"),
          Ask("car_hire", "text"), Ask("trains", "text"), Ask("taxi", "text")}

Symmetry == Permutations(Messages) \cup Permutations(Calls)
================================================================================
