---------------------------- MODULE AlarmLifecycle ----------------------------
(***************************************************************************)
(* What an alarm is to the people who work with it: raised once, OPEN,     *)
(* then acknowledged or not, then resolved; and told to them once, unless  *)
(* the vehicle's behaviour has cancelled it.                               *)
(***************************************************************************)
EXTENDS Naturals

CONSTANT Alerts

VARIABLES
    status,    \* status[a]: "NONE", "OPEN", "ACKNOWLEDGED", "RESOLVED"
    notified,  \* notified[a]: how often the alarm was told
    careful    \* whether nothing can make an alarm be told again

Init ==
    /\ status = [a \in Alerts |-> "NONE"]
    /\ notified = [a \in Alerts |-> 0]
    /\ careful \in BOOLEAN

Later == {<<"NONE", "OPEN">>, <<"OPEN", "ACKNOWLEDGED">>, <<"OPEN", "RESOLVED">>,
          <<"ACKNOWLEDGED", "RESOLVED">>}

Move(a) ==
    /\ \E s \in {"OPEN", "ACKNOWLEDGED", "RESOLVED"} :
         /\ <<status[a], s>> \in Later
         /\ status' = [status EXCEPT ![a] = s]
    /\ UNCHANGED <<notified, careful>>

Tell(a) ==
    /\ status[a] # "NONE"
    /\ careful => notified[a] = 0
    /\ notified' = [notified EXCEPT ![a] = @ + 1]
    /\ UNCHANGED <<status, careful>>

Next == \E a \in Alerts : Move(a) \/ Tell(a)

Spec == Init /\ [][Next]_<<status, notified, careful>>
===============================================================================
