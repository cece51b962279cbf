----------------------------- MODULE MCTripEngine -----------------------------
EXTENDS TripEngine, TLC

Report(v, i) == [speed |-> v, ign |-> i]
\* Driving, standing with the engine on, standing, being towed.
Days == {Report(12, "on"), Report(0, "on"), Report(0, "off"), Report(5, "off")}
Weather == {{"crash", "late", "dup"}, {"crash", "batch"}, {"gap", "late"},
            {"db", "late"}, {"noise"}, {"redis"}, {"ttl"}, {"burst"}}
===============================================================================
