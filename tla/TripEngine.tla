------------------------------ MODULE TripEngine ------------------------------
(***************************************************************************)
(* The trip engine of gps-engine-service for one vehicle: the Kafka        *)
(* consumer with its bounded retry, the position pipeline, and the trip,   *)
(* idle, parking and engine-hours machines, whose state lives in Redis and *)
(* whose boundaries are rows of PostgreSQL.  Every awaited call of the     *)
(* handler is a step, so that a crash, an expiry or a failing statement    *)
(* can fall between any two.  Times count from the first position, in      *)
(* ticks; distance counts in steps from fix to fix.                        *)
(***************************************************************************)
EXTENDS Integers, FiniteSets, Sequences

CONSTANTS
    MaxFixes,      \* bound: positions the vehicle reports
    MaxCrashes,    \* bound: crashes of the consumer
    MaxFailures,   \* bound: statements and writes that fail, keys that expire
    Reports,       \* what a position may say: [speed: Nat, ign: Ignition]
    Gaps,          \* the times from one position to the next
    Qualities,     \* the verdicts of validation and GPS filter to consider
    FaultSets,     \* the sets of faults to consider
    MaxAttempts,   \* GPS_KAFKA_MAX_ATTEMPTS
    StartSpeed,    \* GPS_TRIP_START_SPEED_KMH
    StopSpeed,     \* GPS_TRIP_STOP_SPEED_KMH
    IdleSpeed,     \* GPS_IDLE_SPEED_KMH
    MinDistance,   \* GPS_TRIP_MIN_DISTANCE_M
    MinStop,       \* GPS_TRIP_MIN_STOP_DURATION_S
    MaxGap,        \* GPS_TRIP_MAX_GAP_S
    IdleAfter,     \* GPS_IDLE_THRESHOLD_S
    AlertAfter,    \* GPS_IDLE_ALERT_THRESHOLD_S
    ParkAfter,     \* GPS_PARKING_THRESHOLD_S
    None           \* null

Ignition == {"on", "off", "unknown"}

\* crash: the consumer's process dies; late: a position arrives after a newer
\* one; dup: the producer sends a position twice; gap: the vehicle is silent
\* for MaxGap; burst: two positions are captured at the same time; batch: several
\* positions are handled before a commit; noise: positions are rejected, stale or
\* implausible; db: an SQL statement fails; redis: a write to Redis fails; ttl: the
\* prevpos key expires, as it does after 120 s without a position.
FaultKinds == {"crash", "late", "dup", "gap", "burst", "batch", "noise", "db",
               "redis", "ttl"}

ASSUME BoundsAssumption ==
    MaxFixes \in Nat /\ MaxCrashes \in Nat /\ MaxFailures \in Nat /\ MaxAttempts \in Nat
ASSUME ThresholdsAssumption ==
    /\ {StartSpeed, StopSpeed, IdleSpeed, MinDistance, MinStop, MaxGap,
        IdleAfter, AlertAfter, ParkAfter} \subseteq Nat
    /\ IdleSpeed <= StopSpeed /\ StopSpeed < StartSpeed /\ MaxGap > 0
ASSUME InputsAssumption ==
    /\ Gaps \subseteq Nat
    /\ Reports \subseteq [speed: Nat, ign: Ignition]
    /\ Qualities \subseteq {"VALID", "STALE", "LOW_ACCURACY", "SUSPECT_JUMP", "REJECTED"}
    /\ FaultSets \subseteq SUBSET FaultKinds
ASSUME NoneAssumption ==
    None \notin Int /\ None \notin [id: Nat, at: Nat, speed: Nat, ign: Ignition]

VARIABLES
    feed,       \* the partition of the position topic
    next,       \* the offset being handled, or to be asked for
    committed,  \* the committed offset: positions up to it are not redelivered
    seen,       \* the pipeline's in-process dedupe window
    job,        \* where the handler of feed[next] is
    redis,      \* the vehicle's keys of RedisFsmCache, and prevpos
    view,       \* the latest-position key and the position last broadcast
    stored,     \* positions with a row
    refused,    \* positions rejected by validation, or given up after MaxAttempts
    trips,      \* trip_events: status of the row each position opened
    periods,    \* rows of idle_periods and parking_periods
    hours,      \* rows of engine_hours
    faults,     \* the faults this behaviour may meet
    trouble     \* how often they happened: [crashes, failures]

tables == <<stored, refused, trips, periods, hours>>
vars == <<feed, next, committed, seen, job, redis, view, tables, faults, trouble>>

Sources == 1 .. MaxFixes

PeriodEvents == {"idle.started", "idle.ended", "idle.alert",
                 "parking.started", "parking.ended", "parking.tamper"}
Events == PeriodEvents \cup
          {"trip.started", "trip.ended", "trip.discarded", "engine.hours.flushed"}
RedisKeys == {"tripfsm", "idlefsm", "parkfsm", "odo", "enginehours", "prevpos"}

\* pc: poll, insert, engine (about to read the keys), write (todo holds the
\* statements and keys still to write, out what to write).
Idle == [pc |-> "poll", quality |-> None, tries |-> 0, todo |-> <<>>, out |-> None]

Fixes == [id: Sources, at: Nat, speed: Nat, ign: Ignition]
Times == Nat \cup {None}
TripStates == [state: {"STOP", "MOVING", "PENDING_STOP"}, startAt: Times, movingAt: Times,
               dist: Nat]
IdleStates == [state: {"ACTIVE", "IDLE"}, since: Times, alerted: BOOLEAN]
ParkingStates == [state: {"UNPARKED", "PARKED"}, since: Times]
RedisValues == [tripfsm: TripStates, idlefsm: IdleStates, parkfsm: ParkingStates,
                odo: Nat, enginehours: Nat, prevpos: Fixes \cup {None}]

TypeOK ==
    /\ feed \in Seq(Fixes) /\ next \in Nat \ {0} /\ committed \in Nat
    /\ seen \subseteq Sources /\ stored \subseteq Sources /\ refused \subseteq Sources
    /\ job \in [pc: {"poll", "insert", "engine", "write"}, quality: Qualities \cup {"VALID", None},
                tries: Nat, todo: Seq(Events \cup RedisKeys),
                out: {None} \cup [keys: RedisValues, flushed: Nat, rows: Seq(Events)]]
    /\ redis \in RedisValues
    /\ view \in Times
    /\ trips \in [Sources -> {"NONE", "ACTIVE", "COMPLETED", "DISCARDED"}]
    /\ periods \subseteq [table: {"idle", "parking"}, source: Sources, event: PeriodEvents]
    /\ hours \subseteq [source: Sources, from: Int, to: Nat]
    /\ faults \in FaultSets
    /\ trouble \in [crashes: Nat, failures: Nat]

-----------------------------------------------------------------------------
(* The state machines: pure functions of a state and a position *)

InitialTrip == [state |-> "STOP", startAt |-> None, movingAt |-> None, dist |-> 0]
InitialIdle == [state |-> "ACTIVE", since |-> None, alerted |-> FALSE]
InitialParking == [state |-> "UNPARKED", since |-> None]

\* A fix the GPS filter flagged is kept with speed 0.
Flagged(q) == q \in {"LOW_ACCURACY", "SUSPECT_JUMP"}
Filtered(fix, q) == IF Flagged(q) THEN [fix EXCEPT !.speed = 0] ELSE fix

\* Metres from the previous fix, counted in steps: none out of a standing or
\* unknown fix, none into a flagged one, none between two reports of one fix.
DistanceStep(fix, prev, q) ==
  IF prev = None \/ Flagged(q) THEN 0
  ELSE IF prev.speed = 0 \/ prev.at = fix.at THEN 0 ELSE 1

\* A faulty variant: a micro-trip is forgotten, its row stays ACTIVE.
Close_Forget(s) ==
    [state |-> InitialTrip,
     events |-> IF s.dist < MinDistance THEN <<>> ELSE <<"trip.ended">>]

Close(s) == [state |-> InitialTrip,
             events |-> IF s.dist < MinDistance THEN <<"trip.discarded">>
                                                ELSE <<"trip.ended">>]
Stay(s) == [state |-> s, events |-> <<>>]

AdvanceTrip(s, fix, prev, step) ==
  LET moving == fix.speed >= StartSpeed
      slow == fix.speed <= StopSpeed
      gapBreaks == prev # None /\ fix.at - prev.at >= MaxGap
      dwell == IF s.movingAt = None THEN 0 ELSE fix.at - s.movingAt
      stops == dwell >= MinStop \/ fix.ign = "off"
      farther == [s EXCEPT !.dist = @ + step]
  IN CASE s.state = "STOP" /\ moving ->
            [state |-> [state |-> "MOVING", startAt |-> fix.at, movingAt |-> fix.at,
                        dist |-> 0],
             events |-> <<"trip.started">>]
       [] s.state = "MOVING" /\ gapBreaks -> Close(farther)
       [] s.state = "MOVING" /\ ~gapBreaks /\ slow ->
            IF stops THEN Close(farther)
                     ELSE Stay([farther EXCEPT !.state = "PENDING_STOP"])
       [] s.state = "MOVING" /\ ~gapBreaks /\ ~slow ->
            Stay([farther EXCEPT !.movingAt = fix.at])
       [] s.state = "PENDING_STOP" /\ gapBreaks -> Close(s)
       [] s.state = "PENDING_STOP" /\ ~gapBreaks /\ moving ->
            Stay([farther EXCEPT !.state = "MOVING", !.movingAt = fix.at])
       [] s.state = "PENDING_STOP" /\ ~gapBreaks /\ ~moving ->
            IF stops THEN Close(s) ELSE Stay(farther)
       [] OTHER -> Stay(s)

\* A faulty variant: the end of an idle period is reported and not remembered.
AdvanceIdle_Sticks(s, fix) ==
  LET idling == fix.ign = "on" /\ fix.speed <= IdleSpeed
      idleFor == IF s.since = None THEN 0 ELSE fix.at - s.since
  IN CASE s.state = "ACTIVE" /\ ~idling -> Stay(InitialIdle)
       [] s.state = "ACTIVE" /\ idling /\ s.since = None ->
            Stay([s EXCEPT !.since = fix.at])
       [] s.state = "ACTIVE" /\ idling /\ s.since # None /\ idleFor >= IdleAfter ->
            [state |-> [s EXCEPT !.state = "IDLE"], events |-> <<"idle.started">>]
       [] s.state = "IDLE" /\ ~idling -> [state |-> s, events |-> <<"idle.ended">>]
       [] OTHER -> Stay(s)

AdvanceIdle(s, fix) ==
  LET idling == fix.ign = "on" /\ fix.speed <= IdleSpeed
      idleFor == IF s.since = None THEN 0 ELSE fix.at - s.since
  IN CASE s.state = "ACTIVE" /\ ~idling -> Stay(InitialIdle)
       [] s.state = "ACTIVE" /\ idling /\ s.since = None ->
            Stay([s EXCEPT !.since = fix.at])
       [] s.state = "ACTIVE" /\ idling /\ s.since # None /\ idleFor >= IdleAfter ->
            [state |-> [s EXCEPT !.state = "IDLE"], events |-> <<"idle.started">>]
       [] s.state = "IDLE" /\ ~idling ->
            [state |-> InitialIdle, events |-> <<"idle.ended">>]
       [] s.state = "IDLE" /\ idling /\ ~s.alerted /\ idleFor >= AlertAfter ->
            [state |-> [s EXCEPT !.alerted = TRUE], events |-> <<"idle.alert">>]
       [] OTHER -> Stay(s)

AdvanceParking(s, fix) ==
  LET off == fix.ign = "off"
      moving == fix.speed > IdleSpeed
  IN CASE s.state = "UNPARKED" /\ off /\ ~moving /\ s.since = None ->
            Stay([s EXCEPT !.since = fix.at])
       [] s.state = "UNPARKED" /\ off /\ ~moving /\ s.since # None ->
            IF fix.at - s.since >= ParkAfter
            THEN [state |-> [s EXCEPT !.state = "PARKED"], events |-> <<"parking.started">>]
            ELSE Stay(s)
       [] s.state = "UNPARKED" /\ ~(off /\ ~moving) -> Stay(InitialParking)
       [] s.state = "PARKED" /\ moving /\ off ->
            [state |-> InitialParking, events |-> <<"parking.tamper">>]
       [] s.state = "PARKED" /\ (moving \/ fix.ign = "on") /\ ~(moving /\ off) ->
            [state |-> InitialParking, events |-> <<"parking.ended">>]
       [] OTHER -> Stay(s)

\* A faulty variant: the meter goes on from what it had when the ignition is
\* turned on.
AdvanceHours_Carry(acc, fix, prev) ==
  LET on == fix.ign = "on"
      wasOn == prev # None /\ prev.ign = "on"
      total == IF prev = None THEN 0 ELSE acc + (fix.at - prev.at)
  IN [acc |-> CASE on /\ wasOn -> total [] on /\ ~wasOn -> acc
                [] ~on /\ wasOn -> 0    [] ~on /\ ~wasOn -> acc,
      flushed |-> IF ~on /\ wasOn THEN total ELSE 0]

\* The meter: seconds accumulated while two fixes in a row report the ignition
\* on, flushed by the first one after that does not.
AdvanceHours(acc, fix, prev) ==
  LET on == fix.ign = "on"
      wasOn == prev # None /\ prev.ign = "on"
      total == IF prev = None THEN 0 ELSE acc + (fix.at - prev.at)
  IN [acc |-> CASE on /\ wasOn -> total
                [] on /\ ~wasOn -> 0
                [] ~on /\ wasOn -> 0
                [] ~on /\ ~wasOn -> acc,
      flushed |-> IF ~on /\ wasOn THEN total ELSE 0]

-----------------------------------------------------------------------------
(* The topic: what the vehicle and the gateway put on it *)

Newest(S) == {i \in S : \A j \in S : feed[j].at <= feed[i].at}

\* The capture times of an in-order position: MaxGap or more after the newest
\* one only where silences are allowed, at the same time only in a burst.
Steps == {g \in Gaps : /\ g < MaxGap \/ "gap" \in faults
                       /\ g > 0 \/ "burst" \in faults}
NextTimes ==
    IF feed = <<>> THEN {0}
    ELSE {feed[i].at + g : i \in Newest(DOMAIN feed), g \in Steps}

\* A late position was captured before one that has arrived.
LateTimes == IF "late" \in faults THEN UNION {0 .. (feed[i].at - 1) : i \in DOMAIN feed}
                                  ELSE {}

Arrive(fix) ==
    /\ feed' = Append(feed, fix)
    /\ UNCHANGED <<next, committed, seen, job, redis, view, tables, faults, trouble>>

\* The consumer is waiting: what it has not asked for yet need not be there.
Waiting == job = Idle /\ next > Len(feed) /\ Len(feed) < MaxFixes

Publish ==
    /\ Waiting
    /\ \E r \in Reports, at \in NextTimes \cup LateTimes :
         Arrive([id |-> Len(feed) + 1, at |-> at, speed |-> r.speed, ign |-> r.ign])

PublishAgain ==
    /\ "dup" \in faults /\ Waiting
    /\ \E i \in DOMAIN feed : Arrive(feed[i])

-----------------------------------------------------------------------------
(* The consumer: message-processor.ts and position-pipeline.ts *)

Fix == Filtered(feed[next], job.quality)

Done == job' = Idle /\ next' = next + 1

Verdicts == IF "noise" \in faults THEN Qualities ELSE {"VALID"}

\* A faulty variant: a position counts as seen before it has a row.
Receive_Early ==
    /\ job.pc = "poll" /\ next <= Len(feed)
    /\ IF feed[next].id \in seen
       THEN Done /\ UNCHANGED seen
       ELSE /\ seen' = seen \cup {feed[next].id}
            /\ job' = [job EXCEPT !.pc = "insert", !.quality = "VALID"]
            /\ UNCHANGED next
    /\ UNCHANGED <<feed, committed, redis, view, tables, faults, trouble>>

\* Validation, the dedupe window and the GPS filter.
Receive ==
    /\ job.pc = "poll" /\ next <= Len(feed)
    /\ "batch" \notin faults => committed = next - 1
    /\ \E q \in Verdicts :
         \/ /\ q = "REJECTED"
            /\ refused' = refused \cup {feed[next].id} /\ Done
         \/ /\ q # "REJECTED" /\ feed[next].id \in seen
            /\ Done /\ UNCHANGED refused
         \/ /\ q # "REJECTED" /\ feed[next].id \notin seen
            /\ job' = [job EXCEPT !.pc = "insert", !.quality = q]
            /\ UNCHANGED <<next, refused>>
    /\ UNCHANGED <<feed, committed, seen, redis, view, stored, trips, periods, hours,
                   faults, trouble>>

Insert ==
    /\ job.pc = "insert"
    /\ stored' = stored \cup {feed[next].id}
    /\ seen' = seen \cup {feed[next].id}
    /\ job' = [job EXCEPT !.pc = "engine"]
    /\ UNCHANGED <<feed, next, committed, redis, view, refused, trips, periods, hours,
                   faults, trouble>>

Fail(kind) ==
    /\ kind \in faults /\ trouble.failures < MaxFailures
    /\ trouble' = [trouble EXCEPT !.failures = @ + 1]
    /\ UNCHANGED faults

\* The insert throws: the handler runs again, or the position is given up.
InsertFails ==
    /\ job.pc = "insert" /\ Fail("db")
    /\ IF job.tries + 1 < MaxAttempts
       THEN /\ job' = [Idle EXCEPT !.tries = job.tries + 1]
            /\ UNCHANGED <<next, refused>>
       ELSE /\ refused' = refused \cup {feed[next].id}
            /\ Done
    /\ UNCHANGED <<feed, committed, seen, redis, view, stored, trips, periods, hours>>

\* A faulty variant: late positions are handled like all others.
OutOfOrder_Never(prev) == FALSE

\* process: the keys are read, a position older than prevpos is left alone, and
\* the statements to execute and the keys to write follow from the machines.
OutOfOrder(prev) == prev # None /\ feed[next].at < prev.at

Advance(fix, q) ==
    LET prev == redis.prevpos
        step == DistanceStep(fix, prev, q)
        trip == AdvanceTrip(redis.tripfsm, fix, prev, step)
        idle == AdvanceIdle(redis.idlefsm, fix)
        park == AdvanceParking(redis.parkfsm, fix)
        meter == AdvanceHours(redis.enginehours, fix, prev)
    IN [keys |-> [tripfsm |-> trip.state, idlefsm |-> idle.state, parkfsm |-> park.state,
                  odo |-> redis.odo + step, enginehours |-> meter.acc, prevpos |-> fix],
        flushed |-> meter.flushed,
        rows |-> trip.events \o idle.events \o park.events
                 \o (IF meter.flushed > 0 THEN <<"engine.hours.flushed">> ELSE <<>>)]

Keys == <<"tripfsm", "idlefsm", "parkfsm", "odo", "enginehours", "prevpos">>

Engine ==
    /\ job.pc = "engine"
    /\ IF OutOfOrder(redis.prevpos)
       THEN Done
       ELSE LET out == Advance(Fix, job.quality)
            IN /\ job' = [job EXCEPT !.pc = "write", !.out = out, !.todo = out.rows \o Keys]
               /\ UNCHANGED next
    /\ UNCHANGED <<feed, committed, seen, redis, view, tables, faults, trouble>>

-----------------------------------------------------------------------------
(* persistEvents: TripRepository, one statement a step *)

Active == {i \in Sources : trips[i] = "ACTIVE"}

\* A faulty variant: ON CONFLICT DO UPDATE.
insertTripStart_Upsert(i) == trips' = [trips EXCEPT ![i] = "ACTIVE"]

\* ON CONFLICT (source_event_id) DO NOTHING.
insertTripStart(i) ==
    trips' = IF trips[i] = "NONE" THEN [trips EXCEPT ![i] = "ACTIVE"] ELSE trips

\* completeTrip and discardTrip: the newest ACTIVE row, if there is one.
closeTrip(outcome) ==
    \/ Active = {} /\ UNCHANGED trips
    \/ \E i \in Newest(Active) : trips' = [trips EXCEPT ![i] = outcome]

insertPeriod(table, i, event) ==
    periods' = IF \E row \in periods : row.table = table /\ row.source = i THEN periods
               ELSE periods \cup {[table |-> table, source |-> i, event |-> event]}

\* windowStart is windowEnd less the accumulated time.
insertEngineHours(i, flushed) ==
    hours' = IF \E row \in hours : row.source = i THEN hours
             ELSE hours \cup {[source |-> i, from |-> feed[next].at - flushed,
                               to |-> feed[next].at]}

PeriodTable(event) ==
    IF event \in {"idle.started", "idle.ended", "idle.alert"} THEN "idle" ELSE "parking"

Execute(event, i) ==
    \/ /\ event = "trip.started" /\ insertTripStart(i)
       /\ UNCHANGED <<periods, hours>>
    \/ /\ event = "trip.ended" /\ closeTrip("COMPLETED")
       /\ UNCHANGED <<periods, hours>>
    \/ /\ event = "trip.discarded" /\ closeTrip("DISCARDED")
       /\ UNCHANGED <<periods, hours>>
    \/ /\ event \in PeriodEvents /\ insertPeriod(PeriodTable(event), i, event)
       /\ UNCHANGED <<trips, hours>>
    \/ /\ event = "engine.hours.flushed" /\ insertEngineHours(i, job.out.flushed)
       /\ UNCHANGED <<trips, periods>>

Writing(S) == job.pc = "write" /\ job.todo # <<>> /\ Head(job.todo) \in S

Persist ==
    /\ Writing(Events)
    /\ Execute(Head(job.todo), feed[next].id)
    /\ job' = [job EXCEPT !.todo = Tail(@)]
    /\ UNCHANGED <<feed, next, committed, seen, redis, view, stored, refused, faults,
                   trouble>>

\* A statement throws: process catches it, nothing is saved, and the pipeline
\* goes on as after a position in order.
PersistFails ==
    /\ Writing(Events) /\ Fail("db")
    /\ job' = [job EXCEPT !.todo = <<>>]
    /\ UNCHANGED <<feed, next, committed, seen, redis, view, tables>>

\* saveState and setPrevPos, one key a step.
Save ==
    /\ Writing(RedisKeys)
    /\ redis' = [redis EXCEPT ![Head(job.todo)] = job.out.keys[Head(job.todo)]]
    /\ job' = [job EXCEPT !.todo = Tail(@)]
    /\ UNCHANGED <<feed, next, committed, seen, view, tables, faults, trouble>>

\* A write to Redis fails unnoticed: it is best-effort.
SaveFails ==
    /\ Writing(RedisKeys) /\ Fail("redis")
    /\ job' = [job EXCEPT !.todo = Tail(@)]
    /\ UNCHANGED <<feed, next, committed, seen, redis, view, tables>>

\* setLatest and the broadcast, which leave out STALE fixes and jumps.
Show ==
    /\ job.pc = "write" /\ job.todo = <<>>
    /\ view' = IF job.quality \in {"STALE", "SUSPECT_JUMP"} THEN view ELSE feed[next].at
    /\ Done
    /\ UNCHANGED <<feed, committed, seen, redis, tables, faults, trouble>>

-----------------------------------------------------------------------------
(* Offsets, crashes and expiry *)

\* The offsets resolved so far are committed now and then.
Commit ==
    /\ committed < next - 1
    /\ committed' = next - 1
    /\ UNCHANGED <<feed, next, seen, job, redis, view, tables, faults, trouble>>

Crash ==
    /\ "crash" \in faults /\ trouble.crashes < MaxCrashes
    /\ trouble' = [trouble EXCEPT !.crashes = @ + 1]
    /\ job' = Idle /\ seen' = {} /\ next' = committed + 1
    /\ UNCHANGED <<feed, committed, redis, view, tables, faults>>

ExpirePrevPos ==
    /\ job = Idle /\ redis.prevpos # None /\ Fail("ttl")
    /\ redis' = [redis EXCEPT !.prevpos = None]
    /\ UNCHANGED <<feed, next, committed, seen, job, view, tables>>

-----------------------------------------------------------------------------
Init ==
    /\ feed = <<>> /\ next = 1 /\ committed = 0 /\ seen = {}
    /\ job = Idle
    /\ redis = [tripfsm |-> InitialTrip, idlefsm |-> InitialIdle, parkfsm |-> InitialParking,
                odo |-> 0, enginehours |-> 0, prevpos |-> None]
    /\ view = None
    /\ stored = {} /\ refused = {} /\ periods = {} /\ hours = {}
    /\ trips = [i \in Sources |-> "NONE"]
    /\ faults \in FaultSets
    /\ trouble = [crashes |-> 0, failures |-> 0]

Next ==
    \/ Publish \/ PublishAgain
    \/ Receive \/ Insert \/ Engine \/ Persist \/ Save \/ Show \/ Commit
    \/ InsertFails \/ PersistFails \/ SaveFails \/ Crash \/ ExpirePrevPos

Spec == Init /\ [][Next]_vars

-----------------------------------------------------------------------------
(* Properties *)

\* Every position before the committed offset has its row, was refused by the
\* validation, or was given up (to the dead-letter topic, whose failing publish is
\* the loss edge its module documents).
NothingLost ==
    \A i \in 1 .. committed : feed[i].id \in stored \cup refused

\* What the engine relies on: no statement and no write fails, prevpos is there,
\* no moving position closes a trip, and no two positions are captured at once.
Reliable == faults \subseteq {"crash", "late", "dup"}

\* When the consumer has caught up, a trip is open in the table exactly when the
\* machine is on one.
OnTrip == redis.tripfsm.state # "STOP"
Caught == job = Idle /\ next > Len(feed)
OpenIffOnTrip ==
    Reliable /\ Caught => Cardinality(Active) = (IF OnTrip THEN 1 ELSE 0)

Ledger == INSTANCE TripLedger WITH ledger <- trips, reliable <- Reliable
LedgerSpec == Ledger!Spec

\* The live view goes back in time only when prevpos has been lost or was never
\* written.
ViewNeverRegresses ==
    [][faults \cap {"db", "redis", "ttl"} = {} /\ view # None
         => view' >= view]_view

\* The rows of a table tell a story: a period starts before it ends or alerts,
\* and ends before the next one starts.
Rows(table) == {row \in periods : row.table = table}
Before(row) == {r \in Rows(row.table) : feed[r.source].at < feed[row.source].at}
Open(S) == Cardinality({r \in S : r.event \in {"idle.started", "parking.started"}})
           - Cardinality({r \in S : r.event \in {"idle.ended", "parking.ended", "parking.tamper"}})
PeriodsAlternate ==
    Reliable =>
      \A row \in periods :
        Open(Before(row)) = IF row.event \in {"idle.started", "parking.started"} THEN 0 ELSE 1

\* The windows of the engine-hours table begin at a position that reported the
\* ignition on and do not overlap; a meter that loses prevpos depends on the order
\* of the positions.
WindowsExact ==
    /\ \A w \in hours : \E i \in DOMAIN feed : feed[i].at = w.from /\ feed[i].ign = "on"
    /\ \A v, w \in hours : v # w => v.to <= w.from \/ w.to <= v.from
Metered ==
    /\ faults \cap {"crash", "redis"} = {}
    /\ "ttl" \in faults => faults \cap {"late", "dup"} = {}
HoursExact == Metered => WindowsExact
=============================================================================
