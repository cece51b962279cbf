-------------------------- MODULE DeliveryLifecycle --------------------------
(***************************************************************************)
(* What notification.notification_deliveries promises of a row             *)
(* (docs/implementation/SPRINT-H-NOTIFICATION-CENTER.md, state machine):   *)
(* PENDING through a bounded number of failed attempts, then SENT or       *)
(* FAILED for good.  DELIVERED and READ are written by no code.            *)
(***************************************************************************)
EXTENDS Naturals

CONSTANTS Deliveries, MaxAttempts

VARIABLES
    status,    \* status[d]: "none" before the INSERT, then the row's status
    attempts   \* attempts[d]: failed attempts on record

Init == /\ status = [d \in Deliveries |-> "none"]
        /\ attempts = [d \in Deliveries |-> 0]

Insert(d) ==
    /\ status[d] = "none"
    /\ status' = [status EXCEPT ![d] = "PENDING"]
    /\ UNCHANGED attempts

Send(d) ==
    /\ status[d] = "PENDING"
    /\ status' = [status EXCEPT ![d] = "SENT"]
    /\ UNCHANGED attempts

\* A failed attempt, with another one to follow.
Reschedule(d) ==
    /\ status[d] = "PENDING" /\ attempts[d] + 1 < MaxAttempts
    /\ attempts' = [attempts EXCEPT ![d] = attempts[d] + 1]
    /\ UNCHANGED status

\* A failed attempt, the last one.
GiveUp(d) ==
    /\ status[d] = "PENDING"
    /\ status' = [status EXCEPT ![d] = "FAILED"]
    /\ attempts' = [attempts EXCEPT ![d] = attempts[d] + 1]

Next == \E d \in Deliveries : Insert(d) \/ Send(d) \/ Reschedule(d) \/ GiveUp(d)

Spec == Init /\ [][Next]_<<status, attempts>>
=============================================================================
