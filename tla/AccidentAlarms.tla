---------------------------- MODULE AccidentAlarms ----------------------------
(***************************************************************************)
(* The accident alarms of one vehicle in notification-service:             *)
(*                                                                         *)
(*   processDeviceAlarm        raises, bumps or supersedes an alarm and    *)
(*                             holds its notification in Redis             *)
(*   checkAccidentHold         a position confirms or cancels the hold     *)
(*   confirmDueAccidentHolds   a sweep of each pod confirms what is due    *)
(*   AlarmsController          operators acknowledge and resolve           *)
(*                                                                         *)
(* Every call to Redis or PostgreSQL is a step.  The alarm topic is read   *)
(* by one consumer, the position topic by another, which may be on         *)
(* different pods.  Time passes in ages of DEVICE_ALARM_COALESCE_MS: two   *)
(* detections of one age are a burst, two of different ages are not.       *)
(***************************************************************************)
EXTENDS Naturals, FiniteSets

CONSTANTS
    Alerts,       \* alarm ids, in the order they are given
    Sweepers,     \* pods, of which each runs the deadline sweep
    Positions,    \* the position consumer
    MaxDetections,  \* bound: alarm messages
    MaxAges,      \* bound: ages
    MaxTroubles,  \* bound: requests, failing calls and crashes
    FaultSets,    \* the sets of faults to consider
    None          \* null

\* operator: people acknowledge and resolve; stall: a hold may stay undecided
\* for an age; replay: a device's buffer delivers detections of long ago;
\* crash: a process dies; db: an INSERT fails; redis: a call to Redis fails.
FaultKinds == {"operator", "stall", "replay", "crash", "db", "redis"}

ASSUME AlertsAssumption == Alerts \subseteq Nat
ASSUME BoundsAssumption ==
    MaxDetections \in Nat /\ MaxAges \in Nat /\ MaxTroubles \in Nat
ASSUME FaultsAssumption == FaultSets \subseteq SUBSET FaultKinds
ASSUME NamesAssumption ==
    Positions \notin Sweepers /\ None \notin Alerts /\ None \notin {"set", "passed"}

VARIABLES
    age,       \* the age it is
    received,  \* alarm messages consumed so far
    alert,     \* alert[a]: the row: status, version, age of its detections
    audit,     \* audit[a]: the latest row of alert_acknowledgements
    dedup,     \* whether the dedup key is set
    hold,      \* the key accident_hold: the alarm held, or None
    due,       \* the member of accident_hold_due: None, "set", "passed"
    job,       \* where the alarm consumer is
    claim,     \* claim[d]: where the position consumer and each sweep are
    desk,      \* the operator's request
    notified,  \* notified[a]: dispatches of the alarm (history)
    cancelled, \* alarms that were finished as drove_on (history)
    faults,    \* the faults this behaviour may meet
    troubles   \* how many happened

clock == <<age, received>>
rows == <<alert, audit>>
keys == <<dedup, hold, due>>
told == <<notified, cancelled>>
weather == <<faults, troubles>>
vars == <<clock, rows, keys, job, claim, desk, told, weather>>

Deciders == Sweepers \cup {Positions}

NoRow == [status |-> "NONE", version |-> 0, seen |-> 0]
NoJob == [pc |-> "idle", open |-> None, version |-> 0, seen |-> 0, id |-> None]
NoClaim == [pc |-> "idle", alert |-> None, raw |-> None, verdict |-> None, version |-> 0]
NoRequest == [pc |-> "idle", alert |-> None, to |-> None, version |-> 0]

Trouble(kind) ==
    /\ kind \in faults /\ troubles < MaxTroubles
    /\ troubles' = troubles + 1
    /\ UNCHANGED faults

-----------------------------------------------------------------------------
(* AlarmOccurrenceRepository *)

Opened == {a \in Alerts : alert[a].status = "OPEN"}

\* WHERE id AND version: an update of an older version changes nothing.
updateDetail(a, version) ==
    alert' = IF alert[a].version = version
             THEN [alert EXCEPT ![a].version = @ + 1]
             ELSE alert

\* A faulty variant: any version is updated.
updateStatus_AnyVersion(a, version, to, actor) ==
    /\ alert' = [alert EXCEPT ![a].version = @ + 1, ![a].status = to]
    /\ audit' = [audit EXCEPT ![a] = [status |-> to, actor |-> actor]]

\* The audit row is written all the same.
updateStatus(a, version, to, actor) ==
    /\ alert' = IF alert[a].version = version
                THEN [alert EXCEPT ![a].version = @ + 1, ![a].status = to]
                ELSE alert
    /\ audit' = [audit EXCEPT ![a] = [status |-> to, actor |-> actor]]

create(a, seen) ==
    alert' = [alert EXCEPT ![a] = [status |-> "OPEN", version |-> 1, seen |-> seen]]

-----------------------------------------------------------------------------
(* The alarm consumer: processDeviceAlarm *)

Goto(pc) == job' = [job EXCEPT !.pc = pc]

\* A detection is of the current age, or, from a device's buffer, of age 0.
ReceiveAlarm ==
    /\ job = NoJob /\ received < MaxDetections
    /\ received' = received + 1
    /\ \E seen \in {age} \cup (IF "replay" \in faults THEN {0} ELSE {}) :
         job' = [NoJob EXCEPT !.pc = "find", !.seen = seen]
    /\ UNCHANGED <<age, rows, keys, claim, desk, told, weather>>

\* The newest OPEN alarm absorbs a detection of its age and is superseded by one
\* of another.
FindOpen ==
    /\ job.pc = "find"
    /\ \/ /\ Opened = {} /\ Goto("claim")
       \/ \E a \in Opened :
            /\ \A b \in Opened : alert[b].seen <= alert[a].seen
            /\ job' = [job EXCEPT !.open = a, !.version = alert[a].version,
                         !.pc = IF alert[a].seen = job.seen THEN "bump" ELSE "supersede"]
    /\ UNCHANGED <<clock, rows, keys, claim, desk, told, weather>>

\* A faulty variant: the message ends with the alarm it supersedes.
Supersede_Returns ==
    /\ job.pc = "supersede"
    /\ updateStatus(job.open, job.version, "RESOLVED", "system")
    /\ job' = NoJob
    /\ UNCHANGED <<clock, keys, claim, desk, told, weather>>

\* A faulty variant: the alarm stays as it is.
Supersede_Forgets ==
    /\ job.pc = "supersede"
    /\ Goto("claim")
    /\ UNCHANGED <<clock, rows, keys, claim, desk, told, weather>>

Supersede ==
    /\ job.pc = "supersede"
    /\ updateStatus(job.open, job.version, "RESOLVED", "system")
    /\ Goto("claim")
    /\ UNCHANGED <<clock, keys, claim, desk, told, weather>>

Bump ==
    /\ job.pc = "bump"
    /\ updateDetail(job.open, job.version)
    /\ job' = NoJob
    /\ UNCHANGED <<clock, audit, keys, claim, desk, told, weather>>

\* shouldSuppress: SET NX.
ClaimDedup ==
    /\ job.pc = "claim"
    /\ IF dedup THEN job' = NoJob ELSE Goto("create")
    /\ dedup' = TRUE
    /\ UNCHANGED <<clock, rows, hold, due, claim, desk, told, weather>>

\* Redis is down: the alarm is not suppressed.
ClaimDedupFails ==
    /\ job.pc = "claim" /\ Trouble("redis")
    /\ Goto("create")
    /\ UNCHANGED <<clock, rows, keys, claim, desk, told>>

Fresh == {a \in Alerts : alert[a].status = "NONE" /\ \A b \in Alerts : b < a => alert[b].status # "NONE"}

Create ==
    /\ job.pc = "create"
    /\ \E a \in Fresh :
         /\ create(a, job.seen)
         /\ job' = IF job.seen = age THEN [job EXCEPT !.pc = "hold", !.id = a] ELSE NoJob
    /\ UNCHANGED <<clock, audit, keys, claim, desk, told, weather>>

CreateFails ==
    /\ job.pc = "create" /\ Trouble("db")
    /\ Goto("release")
    /\ UNCHANGED <<clock, rows, keys, claim, desk, told>>

\* A faulty variant: the claim is kept.
ClearDedup_Keeps ==
    /\ job.pc = "release"
    /\ job' = NoJob
    /\ UNCHANGED <<clock, rows, keys, claim, desk, told, weather>>

\* clearDedup; the error ends in the handler's own catch.
ClearDedup ==
    /\ job.pc = "release"
    /\ dedup' = FALSE
    /\ job' = NoJob
    /\ UNCHANGED <<clock, rows, hold, due, claim, desk, told, weather>>

\* holdAccident: SET, then ZADD.
HoldAccident ==
    /\ job.pc = "hold"
    /\ hold' = job.id
    /\ Goto("due")
    /\ UNCHANGED <<clock, rows, dedup, due, claim, desk, told, weather>>

\* A faulty variant: no deadline is set.
SetDeadline_Never ==
    /\ job.pc = "due"
    /\ job' = NoJob
    /\ UNCHANGED <<clock, rows, keys, claim, desk, told, weather>>

SetDeadline ==
    /\ job.pc = "due"
    /\ due' = "set"
    /\ job' = NoJob
    /\ UNCHANGED <<clock, rows, dedup, hold, claim, desk, told, weather>>

\* Either call throws: the alarm is notified at once.
HoldFails ==
    /\ job.pc \in {"hold", "due"} /\ Trouble("redis")
    /\ notified' = [notified EXCEPT ![job.id] = @ + 1]
    /\ job' = NoJob
    /\ UNCHANGED <<clock, rows, keys, claim, desk, cancelled>>

-----------------------------------------------------------------------------
(* Deciding a hold: positions and sweeps *)

At(d, pc) == claim[d].pc = pc
To(d, pc) == claim' = [claim EXCEPT ![d].pc = pc]

\* checkAccidentHold: a position captured after the alarm shows that the vehicle
\* drove on, or that it has stood still long enough.
ReadHold ==
    /\ At(Positions, "idle") /\ hold # None
    /\ \E verdict \in {"drove_on", "stopped"} :
         claim' = [claim EXCEPT ![Positions] =
                     [NoClaim EXCEPT !.pc = "get", !.alert = hold, !.verdict = verdict]]
    /\ UNCHANGED <<clock, rows, keys, job, desk, told, weather>>

\* dueAccidentHolds.
SweepDue(s) ==
    /\ At(s, "idle") /\ due = "passed"
    /\ claim' = [claim EXCEPT ![s] =
                   [NoClaim EXCEPT !.pc = "get", !.verdict = "no_movement_reported"]]
    /\ UNCHANGED <<clock, rows, keys, job, desk, told, weather>>

\* claimAccidentHold: GET, DEL, ZREM.
GetHold(d) ==
    /\ At(d, "get")
    /\ claim' = [claim EXCEPT ![d].pc = "del", ![d].raw = hold]
    /\ UNCHANGED <<clock, rows, keys, job, desk, told, weather>>

\* A faulty variant: what was read counts.
DelHold_Blind(d) ==
    /\ At(d, "del")
    /\ hold' = None
    /\ claim' = [claim EXCEPT ![d].pc = "zrem"]
    /\ UNCHANGED <<clock, rows, dedup, due, job, desk, told, weather>>

\* What was read counts if this call deleted the key.
DelHold(d) ==
    /\ At(d, "del")
    /\ hold' = None
    /\ claim' = [claim EXCEPT ![d].pc = "zrem",
                              ![d].raw = IF hold = None THEN None ELSE @]
    /\ UNCHANGED <<clock, rows, dedup, due, job, desk, told, weather>>

\* A sweep finishes the alarm it has claimed, a position the one it had read
\* before it claimed.
Finishes(d) == IF d \in Sweepers THEN claim[d].raw ELSE claim[d].alert

ZremHold(d) ==
    /\ At(d, "zrem")
    /\ due' = None
    /\ claim' = IF claim[d].raw = None THEN [claim EXCEPT ![d] = NoClaim]
                ELSE [claim EXCEPT ![d].pc = "find", ![d].alert = Finishes(d)]
    /\ UNCHANGED <<clock, rows, dedup, hold, job, desk, told, weather>>

\* A call throws: the claim counts as lost, whatever has been deleted.
ClaimFails(d) ==
    /\ claim[d].pc \in {"get", "del", "zrem"} /\ Trouble("redis")
    /\ claim' = [claim EXCEPT ![d] = NoClaim]
    /\ UNCHANGED <<clock, rows, keys, job, desk, told>>

\* finishAccidentHold: the outcome becomes part of the row's detail, and only a
\* vehicle that drove on keeps the alarm from being told.
FindHeld(d) ==
    /\ At(d, "find")
    /\ claim' = [claim EXCEPT ![d].pc = "detail", ![d].version = alert[claim[d].alert].version]
    /\ UNCHANGED <<clock, rows, keys, job, desk, told, weather>>

Confirm(d) ==
    /\ At(d, "detail")
    /\ updateDetail(claim[d].alert, claim[d].version)
    /\ \/ /\ claim[d].verdict = "drove_on"
          /\ cancelled' = cancelled \cup {claim[d].alert}
          /\ claim' = [claim EXCEPT ![d] = NoClaim]
       \/ /\ claim[d].verdict # "drove_on"
          /\ To(d, "notify") /\ UNCHANGED cancelled
    /\ UNCHANGED <<clock, audit, keys, job, desk, notified, weather>>

Notify(d) ==
    /\ At(d, "notify")
    /\ notified' = [notified EXCEPT ![claim[d].alert] = @ + 1]
    /\ claim' = [claim EXCEPT ![d] = NoClaim]
    /\ UNCHANGED <<clock, rows, keys, job, desk, cancelled, weather>>

-----------------------------------------------------------------------------
(* Operators: AlarmsController.acknowledge and resolve *)

Legal(from, to) ==
    \/ from = "OPEN" /\ to \in {"ACKNOWLEDGED", "RESOLVED"}
    \/ from = "ACKNOWLEDGED" /\ to = "RESOLVED"

Request(a, to) ==
    /\ desk = NoRequest /\ Trouble("operator")
    /\ Legal(alert[a].status, to)
    /\ desk' = [pc |-> "update", alert |-> a, to |-> to, version |-> alert[a].version]
    /\ UNCHANGED <<clock, rows, keys, job, claim, told>>

Respond ==
    /\ desk.pc = "update"
    /\ updateStatus(desk.alert, desk.version, desk.to, "operator")
    /\ desk' = NoRequest
    /\ UNCHANGED <<clock, keys, job, claim, told, weather>>

-----------------------------------------------------------------------------
(* Time and crashes *)

\* The dedup key lives for 60 s; an INSERT under way is taken to be faster.
ExpireDedup ==
    /\ dedup /\ job.pc \notin {"create", "release"}
    /\ dedup' = FALSE
    /\ UNCHANGED <<clock, rows, hold, due, job, claim, desk, told, weather>>

\* The deadline of a hold is 90 s after the detection.
PassDeadline ==
    /\ due = "set"
    /\ due' = "passed"
    /\ UNCHANGED <<clock, rows, dedup, hold, job, claim, desk, told, weather>>

\* No message is handled for ten minutes.  Sweeps run every 15 s: unless the pods
\* are down, a hold is decided within an age.
Quiet == hold = None /\ due = None /\ \A d \in Deciders : At(d, "idle")

NextAge ==
    /\ age < MaxAges
    /\ job = NoJob
    /\ "stall" \in faults \/ Quiet
    /\ age' = age + 1
    /\ dedup' = FALSE
    /\ UNCHANGED <<received, rows, hold, due, job, claim, desk, told, weather>>

\* The consumer's message is delivered again.
CrashAlarmConsumer ==
    /\ job # NoJob /\ Trouble("crash")
    /\ job' = [NoJob EXCEPT !.pc = "find", !.seen = job.seen]
    /\ UNCHANGED <<clock, rows, keys, claim, desk, told>>

\* A position is not: its event id is marked before it is evaluated.  A query that
\* throws ends a decision at the same places.
CrashDecider(d) ==
    /\ ~At(d, "idle") /\ Trouble("crash")
    /\ claim' = [claim EXCEPT ![d] = NoClaim]
    /\ UNCHANGED <<clock, rows, keys, job, desk, told>>

-----------------------------------------------------------------------------
Init ==
    /\ age = 1 /\ received = 0
    /\ alert = [a \in Alerts |-> NoRow]
    /\ audit = [a \in Alerts |-> [status |-> None, actor |-> None]]
    /\ dedup = FALSE /\ hold = None /\ due = None
    /\ job = NoJob
    /\ claim = [d \in Deciders |-> NoClaim]
    /\ desk = NoRequest
    /\ notified = [a \in Alerts |-> 0] /\ cancelled = {}
    /\ faults \in FaultSets
    /\ troubles = 0

Raise == FindOpen \/ Supersede \/ Bump \/ ClaimDedup \/ Create \/ ClearDedup
         \/ HoldAccident \/ SetDeadline
Decide(d) == GetHold(d) \/ DelHold(d) \/ ZremHold(d) \/ FindHeld(d) \/ Confirm(d) \/ Notify(d)

Next ==
    \/ ReceiveAlarm \/ Raise
    \/ ReadHold \/ (\E s \in Sweepers : SweepDue(s)) \/ (\E d \in Deciders : Decide(d))
    \/ (\E a \in Alerts, to \in {"ACKNOWLEDGED", "RESOLVED"} : Request(a, to)) \/ Respond
    \/ ExpireDedup \/ PassDeadline \/ NextAge
    \/ CreateFails \/ ClaimDedupFails \/ HoldFails \/ (\E d \in Deciders : ClaimFails(d))
    \/ CrashAlarmConsumer \/ (\E d \in Deciders : CrashDecider(d))

Spec == Init /\ [][Next]_vars

\* The consumers run, time passes, and every pod's sweep comes round.
FairSpec ==
    /\ Spec
    /\ WF_vars(Raise) /\ WF_vars(PassDeadline)
    /\ \A s \in Sweepers : WF_vars(SweepDue(s))
    /\ \A d \in Deciders : WF_vars(Decide(d))

-----------------------------------------------------------------------------
(* Properties *)

\* Nothing that makes an alarm be decided twice or a hold be replaced.
Careful == faults \cap {"operator", "stall", "replay", "redis"} = {}

Lifecycle == INSTANCE AlarmLifecycle
    WITH status <- [a \in Alerts |-> alert[a].status], careful <- Careful
LifecycleSpec == Lifecycle!Spec

\* Nothing is superseded for the sake of a detection that then raises no alarm.
SupersededHasSuccessor ==
    job = NoJob /\ faults \subseteq {"operator", "stall"}
    => \A a \in Alerts : audit[a].status = "RESOLVED" /\ audit[a].actor = "system"
                        => \E b \in Alerts : b > a /\ alert[b].status # "NONE"

\* One alarm at most is OPEN.
OneOpen == faults \cap {"stall", "replay"} = {} => Cardinality(Opened) <= 1

\* An alarm cancelled by the vehicle driving on is not told, neither before nor
\* after.
CancelledIsSilent ==
    Careful => \A a \in cancelled : notified[a] = 0

\* The dedup key is set only if its detection has become an alarm: a failed INSERT
\* gives it back.
DedupMeansAlarm ==
    dedup /\ faults \cap {"crash", "redis", "replay"} = {} /\ job.pc \notin {"create", "release"}
    => \E a \in Alerts : alert[a].seen = age

\* Every alarm of the day is told or cancelled in the end.
Told(a) == notified[a] > 0 \/ a \in cancelled
Decided ==
    \A a \in Alerts : alert[a].status # "NONE" /\ faults \subseteq {"db"} ~> Told(a)

\* Until then somebody has it: the message that raised it, the hold with its
\* deadline, or the one who claimed the hold.
DecisionIsUnderWay ==
    faults \subseteq {"db"} => \A a \in Alerts : alert[a].status # "NONE" =>
        \/ Told(a)
        \/ job.pc = "hold" /\ job.id = a
        \/ hold = a /\ (due # None \/ job.pc = "due")
        \/ \E d \in Deciders :
              \/ At(d, "zrem") /\ claim[d].raw # None /\ Finishes(d) = a
              \/ claim[d].pc \in {"find", "detail", "notify"} /\ claim[d].alert = a
=============================================================================
