------------------------------- MODULE MCPlanner -------------------------------
(* Planner on a small instance: messages about nothing, one topic or two   *)
(* that compete, with every kind of place phrase and with an origin that   *)
(* is blank, in any order; two plans of Claude's, one with a tool and one  *)
(* with a question.                                                        *)
EXTENDS Planner

SomeBodies ==
    {b \in [topics: {{}, {"weather"}, {"flight", "hotel"}, {"events"}},
            says: {{}, {"in"}, {"to"}, {"from_to", "in"}}, blank: {{}, {"origin"}}] :
        b.blank # {} => "from_to" \in b.says}

TwoPlans == {[source |-> "claude", known |-> {"city"}, blank |-> {},
              missing |-> {"date"}, tool |-> "weather_lookup"],
             [source |-> "claude", known |-> {}, blank |-> {}, missing |-> {"city"},
              tool |-> None]}
================================================================================
