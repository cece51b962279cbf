--------------------------- MODULE TripEngineProofs ---------------------------
(***************************************************************************)
(* Proofs about TripEngine: its type invariant, that no position is lost   *)
(* on the way to the committed offset, and that the live view goes back in *)
(* time only after Redis or PostgreSQL has failed.                         *)
(***************************************************************************)
EXTENDS TripEngine, SequenceTheorems, TLAPS

-----------------------------------------------------------------------------
(* The types *)

Plans == [keys: RedisValues, flushed: Nat, rows: Seq(Events)]
Jobs == [pc: {"poll", "insert", "engine", "write"}, quality: Qualities \cup {"VALID", None},
         tries: Nat, todo: Seq(Events \cup RedisKeys),
         out: {None} \cup Plans]

TripRows == [Sources -> {"NONE", "ACTIVE", "COMPLETED", "DISCARDED"}]
PeriodRows == [table: {"idle", "parking"}, source: Sources, event: PeriodEvents]
HourRows == [source: Sources, from: Int, to: Nat]
Troubles == [crashes: Nat, failures: Nat]

\* TypeOK, in terms of these.
Parts ==
    /\ feed \in Seq(Fixes) /\ next \in Nat \ {0} /\ committed \in Nat
    /\ seen \subseteq Sources /\ stored \subseteq Sources /\ refused \subseteq Sources
    /\ job \in Jobs /\ redis \in RedisValues /\ view \in Times
    /\ trips \in TripRows /\ periods \subseteq PeriodRows /\ hours \subseteq HourRows
    /\ faults \in FaultSets /\ trouble \in Troubles

LEMMA Typed == (TypeOK <=> Parts) /\ (TypeOK' <=> Parts')
<1>1. TypeOK <=> Parts
  BY Zenon DEF TypeOK, Parts, Jobs, Plans, TripRows, PeriodRows, HourRows, Troubles
<1>2. TypeOK' <=> Parts'
  BY Zenon DEF TypeOK, Parts, Jobs, Plans, TripRows, PeriodRows, HourRows, Troubles
<1> QED
  BY <1>1, <1>2

\* The position being handled is in the topic, what is written has been computed.
PcInv ==
    /\ committed < next /\ next <= Len(feed) + 1
    /\ job.pc # "poll" => next <= Len(feed)
    /\ job.pc = "write" => job.out \in Plans

TypeInv == TypeOK /\ PcInv

LEMMA TypeInit == Init => TypeInv
<1> SUFFICES ASSUME Init PROVE TypeInv
  OBVIOUS
<1>1. redis \in RedisValues
  BY DEF Init, InitialTrip, InitialIdle, InitialParking, RedisValues, TripStates, IdleStates,
         ParkingStates, Times
<1>2. TypeOK
  BY <1>1 DEF Init, Idle, TypeOK, Times
<1>3. PcInv
  BY DEF Init, Idle, PcInv
<1> QED
  BY <1>2, <1>3 DEF TypeInv

\* What a machine makes of a position: a state and events.
Outcomes(S) == [state: S, events: Seq(Events)]

LEMMA StayType == ASSUME NEW S, NEW s \in S PROVE Stay(s) \in Outcomes(S)
  BY DEF Stay, Outcomes

LEMMA CloseType == ASSUME NEW s \in TripStates PROVE Close(s) \in Outcomes(TripStates)
<1>1. InitialTrip \in TripStates
  BY DEF InitialTrip, TripStates, Times
<1>2. <<"trip.discarded">> \in Seq(Events) /\ <<"trip.ended">> \in Seq(Events)
  BY DEF Events
<1> QED
  BY <1>1, <1>2 DEF Close, Outcomes

LEMMA TripType ==
  ASSUME NEW s \in TripStates, NEW fix \in Fixes, NEW prev \in Fixes \cup {None},
         NEW step \in {0, 1}
  PROVE  AdvanceTrip(s, fix, prev, step) \in Outcomes(TripStates)
<1> DEFINE moving == fix.speed >= StartSpeed
           slow == fix.speed <= StopSpeed
           gapBreaks == prev # None /\ fix.at - prev.at >= MaxGap
           dwell == IF s.movingAt = None THEN 0 ELSE fix.at - s.movingAt
           stops == dwell >= MinStop \/ fix.ign = "off"
           farther == [s EXCEPT !.dist = @ + step]
           started == [state |-> [state |-> "MOVING", startAt |-> fix.at, movingAt |-> fix.at,
                                  dist |-> 0],
                       events |-> <<"trip.started">>]
           pending == [farther EXCEPT !.state = "PENDING_STOP"]
           onward == [farther EXCEPT !.movingAt = fix.at]
           again == [farther EXCEPT !.state = "MOVING", !.movingAt = fix.at]
           result == AdvanceTrip(s, fix, prev, step)
<1>1. farther \in TripStates
  BY DEF TripStates
<1>2. pending \in TripStates /\ onward \in TripStates /\ again \in TripStates
  BY <1>1 DEF TripStates, Times, Fixes
<1>3. started \in Outcomes(TripStates)
  <2>1. <<"trip.started">> \in Seq(Events)
    BY DEF Events
  <2> QED
    BY <2>1 DEF Outcomes, TripStates, Times, Fixes
<1>4. \/ result = started \/ result = Close(farther) \/ result = Close(s) \/ result = Stay(s)
      \/ result = Stay(pending) \/ result = Stay(onward) \/ result = Stay(again)
      \/ result = Stay(farther)
  <2> HIDE DEF farther, pending, onward, again, started, stops, dwell
  <2>0. result =
         CASE s.state = "STOP" /\ moving -> started
           [] s.state = "MOVING" /\ gapBreaks -> Close(farther)
           [] s.state = "MOVING" /\ ~gapBreaks /\ slow -> IF stops THEN Close(farther) ELSE Stay(pending)
           [] s.state = "MOVING" /\ ~gapBreaks /\ ~slow -> Stay(onward)
           [] s.state = "PENDING_STOP" /\ gapBreaks -> Close(s)
           [] s.state = "PENDING_STOP" /\ ~gapBreaks /\ moving -> Stay(again)
           [] s.state = "PENDING_STOP" /\ ~gapBreaks /\ ~moving -> IF stops THEN Close(s) ELSE Stay(farther)
           [] OTHER -> Stay(s)
    BY DEF AdvanceTrip, farther, pending, onward, again, started, stops, dwell
  <2> HIDE DEF result, moving, slow, gapBreaks
  <2> QED
    BY <2>0
<1> HIDE DEF farther, pending, onward, again, started, result
<1>5. result \in Outcomes(TripStates)
  BY <1>1, <1>2, <1>3, <1>4, StayType, CloseType
<1> QED
  BY <1>5 DEF result

LEMMA IdleType ==
  ASSUME NEW s \in IdleStates, NEW fix \in Fixes
  PROVE  AdvanceIdle(s, fix) \in Outcomes(IdleStates)
<1> DEFINE idling == fix.ign = "on" /\ fix.speed <= IdleSpeed
           idleFor == IF s.since = None THEN 0 ELSE fix.at - s.since
           result == AdvanceIdle(s, fix)
           starting == [s EXCEPT !.since = fix.at]
           started == [state |-> [s EXCEPT !.state = "IDLE"], events |-> <<"idle.started">>]
           ended == [state |-> InitialIdle, events |-> <<"idle.ended">>]
           alert == [state |-> [s EXCEPT !.alerted = TRUE], events |-> <<"idle.alert">>]
<1>1. /\ started \in Outcomes(IdleStates) /\ ended \in Outcomes(IdleStates)
      /\ alert \in Outcomes(IdleStates)
  <2>1. /\ <<"idle.started">> \in Seq(Events) /\ <<"idle.ended">> \in Seq(Events)
        /\ <<"idle.alert">> \in Seq(Events)
    BY DEF Events, PeriodEvents
  <2>2. /\ [s EXCEPT !.state = "IDLE"] \in IdleStates /\ [s EXCEPT !.alerted = TRUE] \in IdleStates
        /\ InitialIdle \in IdleStates
    BY DEF IdleStates, InitialIdle, Times
  <2> QED
    BY <2>1, <2>2 DEF Outcomes
<1>2. starting \in IdleStates /\ InitialIdle \in IdleStates
  BY DEF IdleStates, InitialIdle, Times, Fixes
<1>3. \/ result \in {started, ended, alert}
      \/ result = Stay(s) \/ result = Stay(starting) \/ result = Stay(InitialIdle)
  <2> HIDE DEF starting, started, ended, alert, idleFor
  <2>0. result =
         CASE s.state = "ACTIVE" /\ ~idling -> Stay(InitialIdle)
           [] s.state = "ACTIVE" /\ idling /\ s.since = None -> Stay(starting)
           [] s.state = "ACTIVE" /\ idling /\ s.since # None /\ idleFor >= IdleAfter -> started
           [] s.state = "IDLE" /\ ~idling -> ended
           [] s.state = "IDLE" /\ idling /\ ~s.alerted /\ idleFor >= AlertAfter -> alert
           [] OTHER -> Stay(s)
    BY DEF AdvanceIdle, starting, started, ended, alert, idleFor
  <2> HIDE DEF result, idling
  <2> QED
    BY <2>0
<1> HIDE DEF starting, started, ended, alert, result
<1>4. result \in Outcomes(IdleStates)
  BY <1>1, <1>2, <1>3, StayType
<1> QED
  BY <1>4 DEF result

LEMMA ParkingType ==
  ASSUME NEW s \in ParkingStates, NEW fix \in Fixes
  PROVE  AdvanceParking(s, fix) \in Outcomes(ParkingStates)
<1> DEFINE off == fix.ign = "off"
           moving == fix.speed > IdleSpeed
           result == AdvanceParking(s, fix)
           starting == [s EXCEPT !.since = fix.at]
           started == [state |-> [s EXCEPT !.state = "PARKED"], events |-> <<"parking.started">>]
           tamper == [state |-> InitialParking, events |-> <<"parking.tamper">>]
           ended == [state |-> InitialParking, events |-> <<"parking.ended">>]
<1>1. starting \in ParkingStates /\ InitialParking \in ParkingStates
  BY DEF ParkingStates, InitialParking, Times, Fixes
<1>2. /\ started \in Outcomes(ParkingStates) /\ ended \in Outcomes(ParkingStates)
      /\ tamper \in Outcomes(ParkingStates)
  <2>1. /\ <<"parking.started">> \in Seq(Events) /\ <<"parking.ended">> \in Seq(Events)
        /\ <<"parking.tamper">> \in Seq(Events)
    BY DEF Events, PeriodEvents
  <2>2. [s EXCEPT !.state = "PARKED"] \in ParkingStates
    BY DEF ParkingStates
  <2> QED
    BY <1>1, <2>1, <2>2 DEF Outcomes
<1>3. \/ result \in {started, ended, tamper}
      \/ result = Stay(s) \/ result = Stay(starting) \/ result = Stay(InitialParking)
  <2> HIDE DEF starting, started, ended, tamper
  <2>0. result =
         CASE s.state = "UNPARKED" /\ off /\ ~moving /\ s.since = None -> Stay(starting)
           [] s.state = "UNPARKED" /\ off /\ ~moving /\ s.since # None ->
                IF fix.at - s.since >= ParkAfter THEN started ELSE Stay(s)
           [] s.state = "UNPARKED" /\ ~(off /\ ~moving) -> Stay(InitialParking)
           [] s.state = "PARKED" /\ moving /\ off -> tamper
           [] s.state = "PARKED" /\ (moving \/ fix.ign = "on") /\ ~(moving /\ off) -> ended
           [] OTHER -> Stay(s)
    BY DEF AdvanceParking, starting, started, ended, tamper
  <2> HIDE DEF result, off, moving
  <2> QED
    BY <2>0
<1> HIDE DEF starting, started, ended, tamper, result
<1>4. result \in Outcomes(ParkingStates)
  BY <1>1, <1>2, <1>3, StayType
<1> QED
  BY <1>4 DEF result

LEMMA HoursType ==
  ASSUME NEW acc \in Nat, NEW fix \in Fixes, NEW prev \in Fixes \cup {None},
         prev # None => prev.at <= fix.at
  PROVE  AdvanceHours(acc, fix, prev).acc \in Nat /\ AdvanceHours(acc, fix, prev).flushed \in Nat
  BY DEF AdvanceHours, Fixes

LEMMA HeadAndTail ==
  ASSUME NEW S, NEW q \in Seq(S), q # <<>>
  PROVE  Head(q) \in S /\ Tail(q) \in Seq(S)
  BY EmptySeq

LEMMA FeedType ==
  TypeOK => /\ Len(feed) \in Nat /\ DOMAIN feed = 1 .. Len(feed)
            /\ \A i \in 1 .. Len(feed) :
                 feed[i] \in Fixes /\ feed[i].id \in Sources /\ feed[i].at \in Nat
<1> SUFFICES ASSUME feed \in Seq(Fixes)
             PROVE  /\ Len(feed) \in Nat /\ DOMAIN feed = 1 .. Len(feed)
                    /\ \A i \in 1 .. Len(feed) :
                         feed[i] \in Fixes /\ feed[i].id \in Sources /\ feed[i].at \in Nat
  BY DEF TypeOK
<1>1. \A i \in 1 .. Len(feed) : feed[i] \in Fixes
  OBVIOUS
<1>2. \A fix \in Fixes : fix.id \in Sources /\ fix.at \in Nat
  BY DEF Fixes
<1> QED
  BY <1>1, <1>2

\* The position being handled, and the fix the machines get.
LEMMA FixType ==
  TypeOK /\ next <= Len(feed) =>
    /\ feed[next] \in Fixes /\ feed[next].id \in Sources /\ feed[next].at \in Nat
    /\ Fix \in Fixes /\ Fix.at = feed[next].at
<1> SUFFICES ASSUME TypeOK, next <= Len(feed)
             PROVE  /\ feed[next] \in Fixes /\ feed[next].id \in Sources /\ feed[next].at \in Nat
                    /\ Fix \in Fixes /\ Fix.at = feed[next].at
  OBVIOUS
<1>1. next \in 1 .. Len(feed)
  BY FeedType DEF TypeOK
<1>2. feed[next] \in Fixes /\ feed[next].id \in Sources /\ feed[next].at \in Nat
  BY <1>1, FeedType
<1> QED
  BY <1>2 DEF Fix, Filtered, Fixes

LEMMA AdvanceType ==
  ASSUME TypeOK, NEW fix \in Fixes, NEW q, redis.prevpos # None => redis.prevpos.at <= fix.at
  PROVE  /\ Advance(fix, q) \in Plans
         /\ Advance(fix, q).keys.prevpos = fix
<1> DEFINE prev == redis.prevpos
           step == DistanceStep(fix, prev, q)
           trip == AdvanceTrip(redis.tripfsm, fix, prev, step)
           idle == AdvanceIdle(redis.idlefsm, fix)
           park == AdvanceParking(redis.parkfsm, fix)
           meter == AdvanceHours(redis.enginehours, fix, prev)
           last == IF meter.flushed > 0 THEN <<"engine.hours.flushed">> ELSE <<>>
           values == [tripfsm |-> trip.state, idlefsm |-> idle.state, parkfsm |-> park.state,
                      odo |-> redis.odo + step, enginehours |-> meter.acc, prevpos |-> fix]
           events == trip.events \o idle.events \o park.events \o last
<1>1. /\ prev \in Fixes \cup {None} /\ step \in {0, 1}
      /\ redis.tripfsm \in TripStates /\ redis.idlefsm \in IdleStates
      /\ redis.parkfsm \in ParkingStates /\ redis.odo \in Nat /\ redis.enginehours \in Nat
  BY DEF DistanceStep, TypeOK, RedisValues
<1>2. /\ trip \in Outcomes(TripStates) /\ idle \in Outcomes(IdleStates)
      /\ park \in Outcomes(ParkingStates) /\ meter.acc \in Nat /\ meter.flushed \in Nat
  BY <1>1, TripType, IdleType, ParkingType, HoursType
<1>3. Advance(fix, q) = [keys |-> values, flushed |-> meter.flushed, rows |-> events]
  BY DEF Advance
<1> HIDE DEF trip, idle, park, meter, step
<1>4. last \in Seq(Events)
  <2>1. <<"engine.hours.flushed">> \in Seq(Events)
    BY DEF Events
  <2> QED
    BY <2>1, EmptySeq
<1>5. /\ trip.events \in Seq(Events) /\ idle.events \in Seq(Events) /\ park.events \in Seq(Events)
      /\ trip.state \in TripStates /\ idle.state \in IdleStates /\ park.state \in ParkingStates
  BY <1>2 DEF Outcomes
<1>6. events \in Seq(Events)
  BY <1>4, <1>5, ConcatProperties
<1>7. values \in RedisValues /\ values.prevpos = fix
  BY <1>1, <1>2, <1>5 DEF RedisValues
<1> HIDE DEF values, events
<1> QED
  BY <1>2, <1>3, <1>6, <1>7 DEF Plans

\* The previous position.
LEMMA RedisType ==
  ASSUME redis \in RedisValues
  PROVE  redis.prevpos # None => redis.prevpos.at \in Nat
<1>1. redis.prevpos \in Fixes \cup {None}
  BY DEF RedisValues
<1> QED
  BY <1>1 DEF Fixes

\* What the handler still has to do, and a step of it.
LEMMA TodoType ==
  ASSUME TypeInv, NEW S \in {Events, RedisKeys}, Writing(S)
  PROVE  /\ Head(job.todo) \in S /\ [job EXCEPT !.todo = Tail(@)] \in Jobs
         /\ [job EXCEPT !.todo = <<>>] \in Jobs
         /\ job.out \in Plans
         /\ next <= Len(feed)
<1>1. job \in Jobs /\ job.todo \in Seq(Events \cup RedisKeys) /\ job.todo # <<>>
  BY DEF TypeInv, TypeOK, Jobs, Plans, Writing
<1>2. Tail(job.todo) \in Seq(Events \cup RedisKeys) /\ <<>> \in Seq(Events \cup RedisKeys)
  BY <1>1, HeadAndTail, EmptySeq
<1>3. [job EXCEPT !.todo = Tail(@)] \in Jobs /\ [job EXCEPT !.todo = <<>>] \in Jobs
  BY <1>1, <1>2 DEF Jobs
<1>4. Head(job.todo) \in S /\ job.out \in Plans /\ next <= Len(feed)
  BY DEF TypeInv, PcInv, Writing
<1> QED
  BY <1>3, <1>4

LEMMA IdleType2 ==
  /\ Idle \in Jobs /\ Idle.pc = "poll"
  /\ \A n \in Nat : [Idle EXCEPT !.tries = n] \in Jobs /\ [Idle EXCEPT !.tries = n].pc = "poll"
<1>1. <<>> \in Seq(Events \cup RedisKeys)
  BY EmptySeq
<1> QED
  BY <1>1 DEF Idle, Jobs

LEMMA TypeStep == TypeInv /\ [Next]_vars => TypeInv'
<1> SUFFICES ASSUME TypeInv, [Next]_vars PROVE Parts' /\ PcInv'
  BY Typed DEF TypeInv
<1>0. TypeInv /\ TypeOK /\ Parts /\ PcInv
  BY Typed DEF TypeInv
<1> USE <1>0 DEF Parts, tables
<1>1. ASSUME NEW fix \in Fixes, Waiting, Arrive(fix) PROVE Parts' /\ PcInv'
  <2>1. feed' \in Seq(Fixes) /\ Len(feed') = Len(feed) + 1
    BY <1>1 DEF Arrive
  <2> QED
    BY <1>1, <2>1 DEF Arrive, Waiting, Idle, PcInv
<1>2. ASSUME Publish PROVE Parts' /\ PcInv'
  <2>1. PICK r \in Reports, at \in NextTimes \cup LateTimes :
          Arrive([id |-> Len(feed) + 1, at |-> at, speed |-> r.speed, ign |-> r.ign])
    BY <1>2 DEF Publish
  <2>2. at \in Nat
    <3>1. \A i \in DOMAIN feed : feed[i].at \in Nat
      BY FeedType
    <3>2. ASSUME at \in NextTimes PROVE at \in Nat
      <4>1. CASE feed = <<>>
        BY <3>2, <4>1 DEF NextTimes
      <4>2. CASE feed # <<>>
        <5>1. PICK i \in DOMAIN feed, g \in Gaps : at = feed[i].at + g
          <6>1. NextTimes = {feed[i].at + g : i \in Newest(DOMAIN feed), g \in Steps}
            BY ONLY <4>2 DEF NextTimes
          <6>2. Newest(DOMAIN feed) \subseteq DOMAIN feed /\ Steps \subseteq Gaps
            BY ONLY DEF Newest, Steps
          <6> QED
            BY ONLY <3>2, <6>1, <6>2
        <5>2. g \in Nat /\ feed[i].at \in Nat
          BY <3>1, InputsAssumption
        <5> QED
          BY ONLY <5>1, <5>2
      <4> QED
        BY <4>1, <4>2
    <3>3. ASSUME at \in LateTimes PROVE at \in Nat
      <4>1. PICK i \in DOMAIN feed : at \in 0 .. (feed[i].at - 1)
        BY <3>3, Zenon DEF LateTimes
      <4>2. feed[i].at \in Nat
        BY <3>1
      <4> QED
        BY ONLY <4>1, <4>2
    <3> QED
      BY <3>2, <3>3
  <2>3. Len(feed) + 1 \in Sources /\ r \in [speed: Nat, ign: Ignition]
    BY <1>2, InputsAssumption, BoundsAssumption DEF Publish, Waiting, Sources
  <2>4. [id |-> Len(feed) + 1, at |-> at, speed |-> r.speed, ign |-> r.ign] \in Fixes
    BY <2>2, <2>3 DEF Fixes
  <2> QED
    BY <1>1, <1>2, <2>1, <2>4 DEF Publish
<1>3. ASSUME PublishAgain PROVE Parts' /\ PcInv'
  <2>1. PICK i \in DOMAIN feed : Arrive(feed[i])
    BY <1>3 DEF PublishAgain
  <2>2. feed[i] \in Fixes
    BY FeedType
  <2> QED
    BY <1>1, <1>3, <2>1, <2>2 DEF PublishAgain
<1>4. ASSUME Receive PROVE Parts' /\ PcInv'
  <2>1. next <= Len(feed) /\ feed[next].id \in Sources
    BY <1>4, FixType DEF Receive
  <2>2. PICK q \in Verdicts :
         \/ refused' = refused \cup {feed[next].id} /\ Done
         \/ Done /\ UNCHANGED refused
         \/ job' = [job EXCEPT !.pc = "insert", !.quality = q] /\ UNCHANGED <<next, refused>>
    BY <1>4 DEF Receive
  <2>3. q \in Qualities \cup {"VALID", None}
    BY DEF Verdicts
  <2>4. job' \in Jobs /\ job'.pc \in {"poll", "insert"}
    <3>1. ASSUME Done PROVE job' \in Jobs /\ job'.pc \in {"poll", "insert"}
      BY <3>1, IdleType2 DEF Done
    <3>2. ASSUME job' = [job EXCEPT !.pc = "insert", !.quality = q]
          PROVE  job' \in Jobs /\ job'.pc \in {"poll", "insert"}
      BY ONLY <1>0, <2>3, <3>2 DEF Jobs, Parts
    <3> QED
      BY <2>2, <3>1, <3>2
  <2>5. /\ next' \in Nat \ {0} /\ refused' \subseteq Sources /\ next' <= Len(feed) + 1 /\ next <= next'
        /\ job'.pc # "poll" => next' <= Len(feed)
    BY <1>0, <2>1, <2>2 DEF Done, Idle
  <2>6. UNCHANGED <<feed, committed, seen, redis, view, stored, trips, periods, hours,
                    faults, trouble>>
    BY <1>4 DEF Receive
  <2> QED
    BY <2>4, <2>5, <2>6 DEF PcInv
<1>5. ASSUME Insert PROVE Parts' /\ PcInv'
  <2>1. next <= Len(feed) /\ feed[next].id \in Sources
    BY <1>5, FixType DEF Insert, PcInv
  <2>2. job' \in Jobs /\ job'.pc = "engine"
    BY <1>0, <1>5 DEF Insert, Jobs
  <2> QED
    BY <1>5, <2>1, <2>2 DEF Insert, PcInv
<1>6. ASSUME InsertFails PROVE Parts' /\ PcInv'
  <2>1. next <= Len(feed) /\ feed[next].id \in Sources
    BY <1>6, FixType DEF InsertFails, PcInv
  <2>2. job' \in Jobs /\ job'.pc = "poll"
    BY <1>0, <1>6, IdleType2 DEF InsertFails, Done, Idle, Jobs
  <2>3. next' \in Nat \ {0} /\ refused' \subseteq Sources /\ next' <= Len(feed) + 1 /\ next <= next'
    BY <1>6, <2>1 DEF InsertFails, Done
  <2>4. /\ UNCHANGED <<feed, committed, seen, redis, view, stored, trips, periods, hours, faults>>
        /\ trouble' = [trouble EXCEPT !.failures = @ + 1]
    BY <1>6 DEF InsertFails, Fail
  <2>5. trouble' \in Troubles
    BY <2>4 DEF Troubles
  <2> QED
    BY <2>2, <2>3, <2>4, <2>5 DEF PcInv
<1>7. ASSUME Engine PROVE Parts' /\ PcInv'
  <2>1. next <= Len(feed) /\ Fix \in Fixes /\ Fix.at = feed[next].at
    BY <1>7, FixType DEF Engine, PcInv
  <2>2. CASE OutOfOrder(redis.prevpos)
    <3>1. job' \in Jobs /\ job'.pc = "poll" /\ next' = next + 1
      BY <1>7, <2>2, IdleType2 DEF Engine, Done, Idle
    <3>2. UNCHANGED <<feed, committed, seen, redis, view, tables, faults, trouble>>
      BY <1>7 DEF Engine
    <3> QED
      BY <2>1, <3>1, <3>2 DEF PcInv
  <2>3. CASE ~OutOfOrder(redis.prevpos)
    <3> DEFINE out == Advance(Fix, job.quality)
    <3>1. redis.prevpos # None => redis.prevpos.at <= Fix.at
      <4>1. redis.prevpos # None => ~(feed[next].at < redis.prevpos.at)
        BY ONLY <2>3 DEF OutOfOrder
      <4>2. redis.prevpos # None => redis.prevpos.at \in Nat
        BY RedisType
      <4>3. feed[next].at \in Nat
        BY <2>1, FixType
      <4> QED
        BY ONLY <2>1, <4>1, <4>2, <4>3
    <3>2. out \in Plans
      BY <2>1, <3>1, AdvanceType
    <3>3. job' = [job EXCEPT !.pc = "write", !.out = out, !.todo = out.rows \o Keys]
          /\ UNCHANGED next
      BY <1>7, <2>3 DEF Engine
    <3> HIDE DEF out
    <3>4. out.rows \o Keys \in Seq(Events \cup RedisKeys)
      <4>1. Keys \in Seq(Events \cup RedisKeys)
        BY DEF Keys, RedisKeys
      <4>2. out.rows \in Seq(Events)
        BY <3>2 DEF Plans
      <4>3. out.rows \in Seq(Events \cup RedisKeys)
        BY <4>2, SeqMonotonic, Events \subseteq Events \cup RedisKeys
      <4> QED
        BY <4>1, <4>3, ConcatProperties
    <3>5. job' \in Jobs /\ job'.out \in Plans
      BY <1>0, <3>2, <3>3, <3>4 DEF Jobs
    <3> QED
      BY <1>7, <2>1, <3>3, <3>5 DEF Engine, PcInv
  <2> QED
    BY <2>2, <2>3
<1>8. ASSUME Persist PROVE Parts' /\ PcInv'
  <2> DEFINE event == Head(job.todo)
             i == feed[next].id
  <2>1. /\ event \in Events /\ job' \in Jobs /\ job'.pc = "write" /\ job'.out = job.out
        /\ job.out \in Plans /\ next <= Len(feed)
    BY <1>0, <1>8, TodoType DEF Persist, Writing
  <2>2. i \in Sources /\ feed[next].at \in Nat /\ job.out.flushed \in Nat
    BY <2>1, FixType DEF Plans
  <2>3. Execute(event, i)
    BY <1>8 DEF Persist
  <2> HIDE DEF event, i
  <2>4. trips' \in TripRows
    <3>1. UNCHANGED trips \/ insertTripStart(i) \/ closeTrip("COMPLETED") \/ closeTrip("DISCARDED")
      BY <2>3 DEF Execute
    <3> QED
      BY <2>2, <3>1 DEF insertTripStart, closeTrip, TripRows
  <2>5. periods' \subseteq PeriodRows
    <3>1. UNCHANGED periods \/ (event \in PeriodEvents /\ insertPeriod(PeriodTable(event), i, event))
      BY <2>3 DEF Execute
    <3> QED
      BY <2>2, <3>1 DEF insertPeriod, PeriodTable, PeriodRows
  <2>6. hours' \subseteq HourRows
    <3>1. UNCHANGED hours \/ insertEngineHours(i, job.out.flushed)
      BY <2>3 DEF Execute
    <3> QED
      BY <2>2, <3>1 DEF insertEngineHours, HourRows
  <2>7. UNCHANGED <<feed, next, committed, seen, redis, view, stored, refused, faults, trouble>>
    BY <1>8 DEF Persist
  <2> QED
    BY <2>1, <2>4, <2>5, <2>6, <2>7 DEF PcInv
<1>9. ASSUME PersistFails \/ SaveFails PROVE Parts' /\ PcInv'
  <2>0. \/ Writing(Events) /\ job' = [job EXCEPT !.todo = <<>>]
        \/ Writing(RedisKeys) /\ job' = [job EXCEPT !.todo = Tail(@)]
    BY <1>9 DEF PersistFails, SaveFails
  <2>1. /\ job' \in Jobs /\ job'.pc = "write" /\ job'.out = job.out /\ job.out \in Plans
        /\ next <= Len(feed)
    BY <1>0, <2>0, TodoType DEF Writing, Jobs
  <2>2. /\ UNCHANGED <<feed, next, committed, seen, redis, view, tables, faults>>
        /\ trouble' = [trouble EXCEPT !.failures = @ + 1]
    BY <1>9 DEF PersistFails, SaveFails, Fail
  <2>3. trouble' \in Troubles
    BY <2>2 DEF Troubles
  <2> QED
    BY <2>1, <2>2, <2>3 DEF PcInv
<1>10. ASSUME Save PROVE Parts' /\ PcInv'
  <2>1. /\ Head(job.todo) \in RedisKeys /\ job' \in Jobs /\ job'.pc = "write" /\ job'.out = job.out
        /\ job.out \in Plans /\ next <= Len(feed)
    BY <1>0, <1>10, TodoType DEF Save, Writing
  <2>2. redis' = [redis EXCEPT ![Head(job.todo)] = job.out.keys[Head(job.todo)]]
        /\ UNCHANGED <<feed, next, committed, seen, view, tables, faults, trouble>>
    BY <1>10 DEF Save
  <2>3. redis' \in RedisValues
    <3>1. job.out.keys \in RedisValues /\ redis \in RedisValues
      BY <2>1 DEF Plans
    <3> QED
      BY <2>1, <2>2, <3>1 DEF RedisKeys, RedisValues
  <2> QED
    BY <2>1, <2>2, <2>3 DEF PcInv
<1>11. ASSUME Show PROVE Parts' /\ PcInv'
  <2>1. next <= Len(feed) /\ feed[next].at \in Nat
    BY <1>11, FixType DEF Show, PcInv
  <2>2. job' \in Jobs /\ job'.pc = "poll" /\ next' = next + 1 /\ view' \in Times
    BY <1>11, <2>1, IdleType2 DEF Show, Done, Idle, Times
  <2> QED
    BY <1>11, <2>1, <2>2 DEF Show, PcInv
<1>12. ASSUME Commit PROVE Parts' /\ PcInv'
  BY <1>12 DEF Commit, PcInv
<1>13. ASSUME Crash PROVE Parts' /\ PcInv'
  <2>1. /\ job' = Idle /\ seen' = {} /\ next' = committed + 1
        /\ trouble' = [trouble EXCEPT !.crashes = @ + 1]
        /\ UNCHANGED <<feed, committed, redis, view, tables, faults>>
    BY <1>13 DEF Crash
  <2>2. job' \in Jobs /\ job'.pc = "poll" /\ trouble' \in Troubles
    BY <2>1, IdleType2 DEF Troubles
  <2>3. next' \in Nat \ {0} /\ committed' < next' /\ next' <= Len(feed) + 1
    BY <2>1, FeedType DEF PcInv
  <2> QED
    BY <2>1, <2>2, <2>3 DEF PcInv
<1>14. ASSUME ExpirePrevPos PROVE Parts' /\ PcInv'
  <2>1. /\ redis' = [redis EXCEPT !.prevpos = None]
        /\ trouble' = [trouble EXCEPT !.failures = @ + 1]
        /\ UNCHANGED <<feed, next, committed, seen, job, view, tables, faults>>
    BY <1>14 DEF ExpirePrevPos, Fail
  <2>2. redis' \in RedisValues /\ trouble' \in Troubles
    <3>1. redis \in RedisValues /\ trouble \in Troubles
      OBVIOUS
    <3>2. redis' \in RedisValues
      BY <2>1, <3>1 DEF RedisValues
    <3>3. trouble' \in Troubles
      BY <2>1, <3>1 DEF Troubles
    <3> QED
      BY <3>2, <3>3
  <2> QED
    BY <2>1, <2>2 DEF PcInv
<1>15. CASE UNCHANGED vars
  BY <1>15 DEF vars, PcInv
<1> QED
  BY <1>2, <1>3, <1>4, <1>5, <1>6, <1>7, <1>8, <1>9, <1>10, <1>11, <1>12, <1>13, <1>14, <1>15 DEF Next

\* Every reachable state is well-typed: the machines, the rows and what is still to
\* be written.
THEOREM TypeCorrect == Spec => []TypeOK
<1>1. TypeInv => TypeOK
  BY DEF TypeInv
<1> QED
  BY <1>1, TypeInit, TypeStep, PTL DEF Spec

-----------------------------------------------------------------------------
(* No position is lost *)

Settled(i) == feed[i].id \in stored \cup refused

\* What counts as seen has its row, and so has what the engine works on; what is
\* behind the consumer is settled.
LossInv ==
    /\ seen \subseteq stored
    /\ \A i \in 1 .. (next - 1) : Settled(i)
    /\ job.pc \in {"engine", "write"} => feed[next].id \in stored

LEMMA LossInit == Init => LossInv
  BY DEF Init, Idle, LossInv

LEMMA LossStep == TypeInv /\ LossInv /\ [Next]_vars => LossInv'
<1> SUFFICES ASSUME TypeInv, LossInv, [Next]_vars PROVE LossInv'
  OBVIOUS
<1> USE DEF TypeInv, tables
<1>0. /\ next \in Nat \ {0} /\ next <= Len(feed) + 1 /\ Len(feed) \in Nat
      /\ committed \in Nat /\ committed < next
      /\ job.pc # "poll" => next <= Len(feed)
  BY FeedType DEF TypeOK, PcInv
\* A step that keeps what is settled, and advances past a settled position only.
<1>1. ASSUME /\ UNCHANGED feed
             /\ stored \subseteq stored' /\ refused \subseteq refused' /\ seen' \subseteq stored'
             /\ \/ next' = next + 1 /\ feed[next].id \in stored' \cup refused' /\ job'.pc = "poll"
                \/ next' \in 1 .. next /\ job'.pc \in {"poll", "insert"}
                \/ next' = next /\ feed[next].id \in stored'
      PROVE  LossInv'
  BY <1>0, <1>1 DEF LossInv, Settled
<1>2. ASSUME Publish \/ PublishAgain PROVE LossInv'
  <2>1. PICK fix : Arrive(fix) /\ Waiting
    BY <1>2 DEF Publish, PublishAgain
  <2>2. \A i \in 1 .. Len(feed) : feed'[i] = feed[i]
    BY <2>1 DEF Arrive, TypeOK
  <2> QED
    BY <1>0, <2>1, <2>2 DEF Arrive, Waiting, Idle, LossInv, Settled
<1>3. ASSUME Receive PROVE LossInv'
  <2>1. UNCHANGED <<feed, seen, stored>>
    BY <1>3 DEF Receive
  <2>2. \/ next' = next + 1 /\ feed[next].id \in stored' \cup refused' /\ job'.pc = "poll"
        \/ next' \in 1 .. next /\ job'.pc \in {"poll", "insert"}
    <3>1. PICK q \in Verdicts :
            \/ refused' = refused \cup {feed[next].id} /\ Done
            \/ feed[next].id \in seen /\ Done
            \/ job' = [job EXCEPT !.pc = "insert", !.quality = q] /\ UNCHANGED next
      BY <1>3 DEF Receive
    <3>2. Done => next' = next + 1 /\ job'.pc = "poll"
      BY IdleType2 DEF Done
    <3>3. seen \subseteq stored'
      BY <2>1 DEF LossInv
    <3>4. job' = [job EXCEPT !.pc = "insert", !.quality = q] => job'.pc = "insert"
      BY DEF TypeOK
    <3> QED
      BY <1>0, <3>1, <3>2, <3>3, <3>4
  <2>3. refused \subseteq refused'
    BY <1>3 DEF Receive
  <2> QED
    BY <1>1, <2>1, <2>2, <2>3 DEF LossInv
<1>4. ASSUME Insert PROVE LossInv'
  <2>1. /\ UNCHANGED <<feed, next, refused>> /\ stored' = stored \cup {feed[next].id}
        /\ seen' = seen \cup {feed[next].id}
    BY <1>4 DEF Insert
  <2>2. seen' \subseteq stored'
    BY <2>1 DEF LossInv
  <2> QED
    BY <1>1, <2>1, <2>2
<1>5. ASSUME InsertFails PROVE LossInv'
  <2>1. UNCHANGED <<feed, seen, stored>>
    BY <1>5 DEF InsertFails
  <2>2. \/ next' = next /\ UNCHANGED refused /\ job' = [Idle EXCEPT !.tries = job.tries + 1]
        \/ next' = next + 1 /\ refused' = refused \cup {feed[next].id} /\ job' = Idle
    BY <1>5 DEF InsertFails, Done
  <2>3. job'.pc = "poll"
    BY <2>2 DEF Idle
  <2>4. seen' \subseteq stored' /\ next \in 1 .. next
    BY <1>0, <2>1 DEF LossInv
  <2> QED
    BY <1>1, <2>1, <2>2, <2>3, <2>4
<1>6. ASSUME Engine PROVE LossInv'
  BY <1>0, <1>1, <1>6 DEF Engine, Done, Idle, LossInv, TypeOK
<1>7. ASSUME Persist \/ PersistFails \/ Save \/ SaveFails PROVE LossInv'
  BY <1>0, <1>1, <1>7 DEF Persist, PersistFails, Save, SaveFails, Writing, LossInv, TypeOK
<1>8. ASSUME Show PROVE LossInv'
  BY <1>0, <1>1, <1>8 DEF Show, Done, Idle, LossInv, TypeOK
<1>9. ASSUME Commit \/ ExpirePrevPos \/ UNCHANGED vars PROVE LossInv'
  <2>1. UNCHANGED <<feed, next, seen, job, stored, refused>>
    BY <1>9 DEF Commit, ExpirePrevPos, vars
  <2> QED
    BY <2>1 DEF LossInv, Settled
<1>10. ASSUME Crash PROVE LossInv'
  BY <1>0, <1>1, <1>10 DEF Crash, Idle, LossInv
<1> QED
  BY <1>2, <1>3, <1>4, <1>5, <1>6, <1>7, <1>8, <1>9, <1>10 DEF Next

\* Whatever crashes and fails: a position before the committed offset has its row,
\* was refused by the validation, or went to the dead-letter topic.
THEOREM NoPositionIsLost == Spec => []NothingLost
<1>1. TypeInv /\ LossInv => NothingLost
  BY DEF TypeInv, TypeOK, PcInv, LossInv, Settled, NothingLost
<1>2. TypeInv /\ LossInv /\ [Next]_vars => (TypeInv /\ LossInv)'
  BY TypeStep, LossStep
<1> QED
  BY <1>1, <1>2, TypeInit, LossInit, PTL DEF Spec

-----------------------------------------------------------------------------
(* The live view *)

\* Nothing takes prevpos away or keeps it from being written.
Steady == faults \cap {"db", "redis", "ttl"} = {}

\* prevpos is never behind the live view: it is the last thing written before the
\* view, and of what is being handled.
ViewInv ==
    Steady =>
      /\ view # None => redis.prevpos # None /\ view <= redis.prevpos.at
      /\ job.pc = "write" =>
           /\ job.out.keys.prevpos \in Fixes /\ job.out.keys.prevpos.at = feed[next].at
           /\ redis.prevpos # None => redis.prevpos.at <= feed[next].at
           /\ IF job.todo = <<>> THEN redis.prevpos = job.out.keys.prevpos
                                 ELSE job.todo[Len(job.todo)] = "prevpos"

LEMMA ViewInit == Init => ViewInv
  BY DEF Init, Idle, ViewInv

LEMMA EmptyLength == ASSUME NEW S, NEW q \in Seq(S) PROVE q = <<>> <=> Len(q) = 0
<1>1. Len(<<>>) = 0 /\ (q # <<>> => Len(q) \in Nat \ {0})
  BY EmptySeq
<1>2. Len(q) \in Nat \ {0} => Len(q) # 0
  OBVIOUS
<1>3. q = <<>> => Len(q) = Len(<<>>)
  OBVIOUS
<1> QED
  BY ONLY <1>1, <1>2, <1>3, Zenon

\* The last element of a sequence is its head, or that of its tail.
LEMMA LastOfTail ==
  ASSUME NEW S, NEW q \in Seq(S), q # <<>>
  PROVE  \/ Tail(q) = <<>> /\ q[Len(q)] = Head(q)
         \/ Tail(q) # <<>> /\ Tail(q)[Len(Tail(q))] = q[Len(q)]
<1>1. Len(q) \in Nat \ {0} /\ Tail(q) \in Seq(S) /\ Len(Tail(q)) = Len(q) - 1
  BY EmptySeq
<1>2. CASE Len(q) = 1
  <2>1. Tail(q) = <<>>
    <3>1. Len(Tail(q)) = 0
      BY <1>1, <1>2
    <3> QED
      BY <1>1, <3>1, EmptyLength
  <2>2. q[Len(q)] = Head(q)
    BY <1>2
  <2> QED
    BY <2>1, <2>2
<1>3. CASE Len(q) > 1
  <2>1. Tail(q) # <<>>
    <3>1. Len(Tail(q)) # 0
      <4>1. \A n \in Nat : n > 1 => n - 1 # 0
        OBVIOUS
      <4> QED
        BY ONLY <1>1, <1>3, <4>1, Zenon
    <3>2. Tail(q) = <<>> <=> Len(Tail(q)) = 0
      <4>1. \A t \in Seq(S) : t = <<>> <=> Len(t) = 0
        BY EmptyLength
      <4> HIDE <1>3
      <4> QED
        BY ONLY <1>1, <4>1, Zenon
    <3> QED
      BY ONLY <3>1, <3>2, Zenon
  <2>2. Tail(q)[Len(q) - 1] = q[Len(q)]
    BY <1>1, <1>3
  <2> QED
    BY <1>1, <2>1, <2>2
<1> QED
  BY <1>1, <1>2, <1>3

LEMMA ViewStep == TypeInv /\ TypeInv' /\ ViewInv /\ [Next]_vars => ViewInv'
<1> SUFFICES ASSUME TypeInv, TypeInv', ViewInv, [Next]_vars, Steady' PROVE ViewInv'
  BY DEF ViewInv
<1> USE DEF TypeInv, tables
<1>0. Steady
  <2>1. UNCHANGED faults
    BY DEF Next, vars, Publish, PublishAgain, Arrive, Receive, Insert, InsertFails, Engine, Persist,
           PersistFails, Save, SaveFails, Show, Commit, Crash, ExpirePrevPos, Fail
  <2> QED
    BY <2>1 DEF Steady
<1>1. /\ view # None => redis.prevpos # None /\ view <= redis.prevpos.at
      /\ job.pc = "write" =>
           /\ job.out.keys.prevpos \in Fixes /\ job.out.keys.prevpos.at = feed[next].at
           /\ redis.prevpos # None => redis.prevpos.at <= feed[next].at
           /\ IF job.todo = <<>> THEN redis.prevpos = job.out.keys.prevpos
                                 ELSE job.todo[Len(job.todo)] = "prevpos"
  BY <1>0 DEF ViewInv
<1>2. /\ next \in Nat \ {0} /\ Len(feed) \in Nat /\ job.todo \in Seq(Events \cup RedisKeys)
      /\ job.pc # "poll" => next <= Len(feed)
      /\ redis.prevpos \in Fixes \cup {None} /\ view \in Nat \cup {None}
      /\ \A fix \in Fixes : fix.at \in Nat /\ fix # None
  <2>1. redis.prevpos \in Fixes \cup {None} /\ view \in Nat \cup {None}
    BY DEF TypeOK, RedisValues, Times
  <2>2. \A fix \in Fixes : fix.at \in Nat /\ fix \in [id: Nat, at: Nat, speed: Nat, ign: Ignition]
    BY DEF Fixes, Sources
  <2>3. \A fix \in Fixes : fix # None
    BY <2>2, NoneAssumption
  <2>4. /\ next \in Nat \ {0} /\ job.todo \in Seq(Events \cup RedisKeys)
        /\ job.pc # "poll" => next <= Len(feed)
    BY DEF TypeOK, PcInv
  <2> QED
    BY <2>1, <2>2, <2>3, <2>4, FeedType
\* Steps that leave the handler where it is not writing.
<1>3. ASSUME job'.pc # "write", UNCHANGED <<view, redis>> PROVE ViewInv'
  BY <1>1, <1>3 DEF ViewInv
<1>4. ASSUME Publish \/ PublishAgain PROVE ViewInv'
  <2>1. \E fix : Arrive(fix) /\ Waiting
    BY <1>4, Zenon DEF Publish, PublishAgain
  <2>2. job' = Idle /\ UNCHANGED <<view, redis>>
    BY <2>1 DEF Arrive, Waiting
  <2> QED
    BY <1>3, <2>2, IdleType2
<1>5. ASSUME Receive \/ Insert \/ InsertFails PROVE ViewInv'
  <2>1. \/ job' = Idle \/ job' = [Idle EXCEPT !.tries = job.tries + 1]
        \/ \E q : job' = [job EXCEPT !.pc = "insert", !.quality = q]
        \/ job' = [job EXCEPT !.pc = "engine"]
    <3>1. CASE Receive
      BY <3>1 DEF Receive, Done
    <3>2. CASE Insert
      BY <3>2 DEF Insert
    <3>3. CASE InsertFails
      BY <3>3 DEF InsertFails, Done
    <3> QED
      BY <1>5, <3>1, <3>2, <3>3
  <2>2. job \in Jobs
    BY Typed DEF Parts
  <2>3. job'.pc # "write"
    <3>1. ASSUME NEW q, job' = [job EXCEPT !.pc = "insert", !.quality = q] PROVE job'.pc = "insert"
      BY <2>2, <3>1 DEF Jobs
    <3>2. CASE job' = Idle \/ job' = [Idle EXCEPT !.tries = job.tries + 1]
      BY <3>2 DEF Idle
    <3>3. CASE job' = [job EXCEPT !.pc = "engine"]
      BY <2>2, <3>3 DEF Jobs
    <3> QED
      BY <2>1, <3>1, <3>2, <3>3
  <2>4. UNCHANGED <<view, redis>>
    BY <1>5 DEF Receive, Insert, InsertFails
  <2> QED
    BY <1>3, <2>3, <2>4
<1>6. ASSUME Engine PROVE ViewInv'
  <2>1. CASE OutOfOrder(redis.prevpos)
    <3>1. job' = Idle /\ UNCHANGED <<view, redis>>
      BY <1>6, <2>1 DEF Engine, Done
    <3> QED
      BY <1>3, <3>1, IdleType2
  <2>2. CASE ~OutOfOrder(redis.prevpos)
    <3> DEFINE out == Advance(Fix, job.quality)
    <3>1. next <= Len(feed) /\ Fix \in Fixes /\ Fix.at = feed[next].at /\ feed[next].at \in Nat
      BY <1>2, <1>6, FixType DEF Engine
    <3>2. redis.prevpos # None => redis.prevpos.at <= Fix.at
      BY <1>2, <2>2, <3>1 DEF OutOfOrder
    <3>3. out \in Plans /\ out.keys.prevpos = Fix
      BY <3>1, <3>2, AdvanceType
    <3>4. job' = [job EXCEPT !.pc = "write", !.out = out, !.todo = out.rows \o Keys]
          /\ UNCHANGED <<feed, next, view, redis>>
      BY <1>6, <2>2 DEF Engine
    <3> HIDE DEF out
    <3>5. /\ out.rows \o Keys # <<>>
          /\ (out.rows \o Keys)[Len(out.rows \o Keys)] = "prevpos"
      <4>1. out.rows \in Seq(Events)
        BY <3>3 DEF Plans
      <4>2. out.rows \in Seq(Events \cup RedisKeys)
        BY <4>1, SeqMonotonic, Events \subseteq Events \cup RedisKeys
      <4>3. Keys \in Seq(Events \cup RedisKeys) /\ Len(Keys) = 6 /\ Keys[6] = "prevpos"
        BY DEF Keys, RedisKeys
      <4>4. Len(out.rows) \in Nat
        BY <4>2
      <4>5. /\ Len(out.rows \o Keys) = Len(out.rows) + 6
            /\ (out.rows \o Keys)[Len(out.rows) + 6] = Keys[6]
        <5>1. /\ Len(out.rows \o Keys) = Len(out.rows) + Len(Keys)
              /\ \A i \in 1 .. Len(out.rows) + Len(Keys) :
                   (out.rows \o Keys)[i] =
                     IF i <= Len(out.rows) THEN out.rows[i] ELSE Keys[i - Len(out.rows)]
          BY <4>2, <4>3, ConcatProperties, Zenon
        <5>2. /\ Len(out.rows) + 6 \in 1 .. Len(out.rows) + 6
              /\ ~(Len(out.rows) + 6 <= Len(out.rows))
              /\ (Len(out.rows) + 6) - Len(out.rows) = 6
          BY <4>4
        <5> QED
          BY <4>3, <5>1, <5>2, Zenon
      <4>6. Len(out.rows \o Keys) # 0
        BY <4>4, <4>5
      <4> QED
        BY <4>3, <4>5, <4>6, EmptyLength
    <3>6. /\ job'.pc = "write" /\ job'.out = out /\ job'.todo = out.rows \o Keys
      BY <3>4 DEF TypeOK
    <3> QED
      BY <1>1, <3>1, <3>2, <3>3, <3>4, <3>5, <3>6 DEF ViewInv
  <2> QED
    BY <2>1, <2>2
<1>7. ASSUME Persist PROVE ViewInv'
  <2>1. /\ job.pc = "write" /\ job.todo # <<>> /\ Head(job.todo) \in Events
        /\ job' = [job EXCEPT !.todo = Tail(@)] /\ UNCHANGED <<feed, next, view, redis>>
    BY <1>7 DEF Persist, Writing
  <2>2. "prevpos" \notin Events
    BY DEF Events, PeriodEvents
  <2>3. Tail(job.todo) # <<>> /\ Tail(job.todo)[Len(Tail(job.todo))] = "prevpos"
    BY <1>1, <1>2, <2>1, <2>2, LastOfTail
  <2>4. job'.pc = "write" /\ job'.out = job.out /\ job'.todo = Tail(job.todo)
    BY <2>1 DEF TypeOK
  <2> QED
    BY <1>1, <2>1, <2>3, <2>4 DEF ViewInv
<1>8. ASSUME Save PROVE ViewInv'
  <2>1. /\ job.pc = "write" /\ job.todo # <<>> /\ Head(job.todo) \in RedisKeys
        /\ job' = [job EXCEPT !.todo = Tail(@)]
        /\ redis' = [redis EXCEPT ![Head(job.todo)] = job.out.keys[Head(job.todo)]]
        /\ UNCHANGED <<feed, next, view>>
    BY <1>8 DEF Save, Writing
  <2>2. job'.pc = "write" /\ job'.out = job.out /\ job'.todo = Tail(job.todo)
    BY <2>1 DEF TypeOK
  <2>3. redis'.prevpos = IF Head(job.todo) = "prevpos" THEN job.out.keys.prevpos ELSE redis.prevpos
    <3>1. redis \in RedisValues
      BY DEF TypeOK
    <3> QED
      BY <2>1, <3>1 DEF RedisValues
  <2>4. IF Tail(job.todo) = <<>> THEN Head(job.todo) = "prevpos"
                                ELSE Tail(job.todo)[Len(Tail(job.todo))] = "prevpos"
    BY <1>1, <1>2, <2>1, LastOfTail
  <2>5. feed[next].at \in Nat
    BY <1>2, <2>1, FixType
  <2>6. job'.todo = <<>> => redis'.prevpos = job.out.keys.prevpos
    BY <2>2, <2>3, <2>4
  <2>7. job'.todo # <<>> => job'.todo[Len(job'.todo)] = "prevpos"
    BY <2>2, <2>4
  <2>8. /\ redis'.prevpos # None => redis'.prevpos.at <= feed[next].at
        /\ view # None => redis'.prevpos # None /\ view <= redis'.prevpos.at
    <3>1. CASE Head(job.todo) = "prevpos"
      <4>1. redis'.prevpos = job.out.keys.prevpos /\ redis'.prevpos.at = feed[next].at
        BY <1>1, <2>1, <2>3, <3>1
      <4>2. redis'.prevpos # None
        BY <1>1, <1>2, <2>1, <4>1
      <4>3. view # None => view \in Nat /\ view <= redis.prevpos.at /\ redis.prevpos.at \in Nat
                           /\ redis.prevpos.at <= feed[next].at
        BY <1>1, <1>2, <2>1
      <4> QED
        BY ONLY <2>5, <4>1, <4>2, <4>3
    <3>2. CASE Head(job.todo) # "prevpos"
      BY <1>1, <2>1, <2>3, <3>2
    <3> QED
      BY <3>1, <3>2
  <2>9. job'.out.keys.prevpos = job.out.keys.prevpos
    BY <2>2
  <2> QED
    BY <1>1, <2>1, <2>2, <2>6, <2>7, <2>8, <2>9 DEF ViewInv
<1>9. ASSUME Show PROVE ViewInv'
  <2>1. /\ job.pc = "write" /\ job.todo = <<>> /\ job' = Idle
        /\ view' \in {view, feed[next].at} /\ UNCHANGED redis
    BY <1>9 DEF Show, Done
  <2>2. feed[next].at \in Nat
    BY <1>2, <2>1, FixType
  <2> QED
    BY <1>1, <1>2, <2>1, <2>2, IdleType2 DEF ViewInv
<1>10. ASSUME Crash PROVE ViewInv'
  <2>1. job' = Idle /\ UNCHANGED <<view, redis>>
    BY <1>10 DEF Crash
  <2> QED
    BY <1>3, <2>1, IdleType2
<1>11. ASSUME Commit \/ UNCHANGED vars PROVE ViewInv'
  <2>1. UNCHANGED <<feed, next, view, redis, job>>
    BY <1>11 DEF Commit, vars
  <2> QED
    BY <1>1, <2>1 DEF ViewInv
<1>12. ~PersistFails /\ ~SaveFails /\ ~ExpirePrevPos
  BY <1>0 DEF PersistFails, SaveFails, ExpirePrevPos, Fail, Steady
<1> QED
  BY <1>4, <1>5, <1>6, <1>7, <1>8, <1>9, <1>10, <1>11, <1>12 DEF Next

\* Crashes, late, repeated and noisy positions never take the live view back in time:
\* that takes a failure of Redis or PostgreSQL, or a prevpos that has expired.
THEOREM ViewGoesForward == Spec => ViewNeverRegresses
<1> DEFINE Forward == faults \cap {"db", "redis", "ttl"} = {} /\ view # None => view' >= view
<1>1. TypeInv /\ ViewInv /\ [Next]_vars => [Forward]_view
  <2> SUFFICES ASSUME TypeInv, ViewInv, [Next]_vars, view' # view, Steady, view # None
               PROVE  view' >= view
    BY DEF Steady
  <2>1. Show
    BY DEF Next, vars, Publish, PublishAgain, Arrive, Receive, Insert, InsertFails, Engine, Persist,
           PersistFails, Save, SaveFails, Commit, Crash, ExpirePrevPos
  <2>2. job.pc = "write" /\ job.todo = <<>> /\ view' = feed[next].at
    BY <2>1 DEF Show
  <2>3. view <= redis.prevpos.at /\ redis.prevpos.at = feed[next].at
    BY <2>2 DEF ViewInv
  <2>4. view \in Nat /\ feed[next].at \in Nat
    BY <2>2, FixType DEF TypeInv, TypeOK, PcInv, Times
  <2> QED
    BY <2>2, <2>3, <2>4
<1>2. TypeInv /\ ViewInv /\ [Next]_vars => (TypeInv /\ ViewInv)'
  BY TypeStep, ViewStep
<1> QED
  BY <1>1, <1>2, TypeInit, ViewInit, PTL DEF Spec, ViewNeverRegresses
===============================================================================
