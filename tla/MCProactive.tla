------------------------------ MODULE MCProactive ------------------------------
(* Proactive on a small instance: days of four hours of two ticks, a clock *)
(* that crosses midnight and runs into the next hour, a cap of two, two    *)
(* users so that one's sends could count against the other's.              *)
EXTENDS Proactive, TLC

Symmetry == Permutations(Users) \cup Permutations(Ids)

\* An ordinary window, one that is always open (README.md:332-333), and one
\* whose start is no hour of the day.
DayWindows == {<<1, 3>>, <<0, 4>>, <<4, 4>>}

\* The first, and one that is open overnight.
NightWindows == {<<1, 3>>, <<3, 1>>}
================================================================================
