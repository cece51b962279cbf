------------------------------ MODULE TripLedger ------------------------------
\* What the trip table promises to its readers: a trip is opened once, is
\* closed once, as COMPLETED or as DISCARDED, and keeps that outcome; while
\* nothing the engine relies on is lost, a vehicle has one trip open at a time.
EXTENDS Naturals, FiniteSets

CONSTANT Sources     \* the positions a trip can be opened by

VARIABLES ledger,    \* the status of the trip each position opened
          reliable   \* whether the stores keep and accept all that is written

LedgerStatus == {"NONE", "ACTIVE", "COMPLETED", "DISCARDED"}

ActiveTrips == {i \in Sources : ledger[i] = "ACTIVE"}

Init == /\ ledger = [i \in Sources |-> "NONE"]
        /\ reliable \in BOOLEAN

Open(i) == /\ ledger[i] = "NONE"
           /\ reliable => ActiveTrips = {}
           /\ ledger' = [ledger EXCEPT ![i] = "ACTIVE"]
           /\ UNCHANGED reliable

Close(i) == /\ ledger[i] = "ACTIVE"
            /\ \E outcome \in {"COMPLETED", "DISCARDED"} :
                 ledger' = [ledger EXCEPT ![i] = outcome]
            /\ UNCHANGED reliable

Next == \E i \in Sources : Open(i) \/ Close(i)

Spec == Init /\ [][Next]_<<ledger, reliable>>
===============================================================================
