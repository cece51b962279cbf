-------------------------- MODULE CommandLifecycle --------------------------
(***************************************************************************)
(* What the command table promises to the operator                         *)
(* (apps/fleet-management-service, fleet.device_commands): the life of a   *)
(* row as the guarded UPDATEs of DeviceCommandRepository allow it, whoever *)
(* calls them and in whatever order the calls arrive.                      *)
(***************************************************************************)
CONSTANT Commands

VARIABLE status   \* status[c]: "NEW" before the INSERT, then the row's status

Pending  == {"QUEUED", "SENT"}
Terminal == {"ACKED", "FAILED", "EXPIRED"}
Statuses == {"NEW"} \cup Pending \cup Terminal

Init == status = [c \in Commands |-> "NEW"]

\* create: INSERT with the default status.
Insert(c) ==
    /\ status[c] = "NEW"
    /\ status' = [status EXCEPT ![c] = "QUEUED"]

\* markSent, markAcked, markFailed: WHERE status IN ('QUEUED', 'SENT').
Update(c, to) ==
    /\ status[c] \in Pending
    /\ status' = [status EXCEPT ![c] = to]

\* expireStale: one UPDATE for all the pending rows past their TTL.
ExpireAll(S) ==
    /\ \A c \in S : status[c] \in Pending
    /\ status' = [c \in Commands |-> IF c \in S THEN "EXPIRED" ELSE status[c]]

Next ==
    \/ \E c \in Commands : Insert(c)
    \/ \E c \in Commands, to \in {"SENT", "ACKED", "FAILED"} : Update(c, to)
    \/ \E S \in SUBSET Commands : ExpireAll(S)

Spec == Init /\ [][Next]_status

\* "ACKED/FAILED/EXPIRED win": what the operator was told is never taken back.
TerminalWins ==
    [][\A c \in Commands : status[c] \in Terminal => status'[c] = status[c]]_status

=============================================================================
