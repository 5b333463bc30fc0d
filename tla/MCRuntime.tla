------------------------------- MODULE MCRuntime -------------------------------
(* Runtime on small instances.  Two messages, which can both wait for the  *)
(* weather or overtake each other there, and any step of either can fail.  *)
EXTENDS Runtime, TLC

Symmetry == Permutations(Users) \cup Permutations(Requests)

CONSTANTS city, date

Trip == {city, date}

Output(known, tool, claims) ==
    [known |-> known, missing |-> Trip \ known, tool |-> tool, claims |-> claims]

\* The fallback planner on a message with a city and on one with a date: each
\* misses what it did not find in that one message.
FallbackPlans == {Output({city}, "weather", FALSE),
                  Output({date}, "none", FALSE)}

\* Claude may also claim a booking, with or without a tool.
ClaudePlans == {Output({city}, "weather", TRUE),
                Output({date}, "none", TRUE),
                Output({city}, "sync", FALSE)}
================================================================================
