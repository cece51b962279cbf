--------------------------- MODULE TripTablesProofs ---------------------------
(***************************************************************************)
(* Proofs about the tables TripEngine writes: the windows of the engine    *)
(* hours, the rows of the trips and those of idling and parking.           *)
(***************************************************************************)
EXTENDS TripEngineProofs, FiniteSetTheorems

-----------------------------------------------------------------------------
(* What each step does to the handler, and what it leaves alone *)

LEMMA FaultsKept == [Next]_vars => faults' = faults
  BY DEF Next, vars, tables, Publish, PublishAgain, Arrive, Receive, Insert, InsertFails, Engine,
         Persist, PersistFails, Save, SaveFails, Show, Commit, Crash, ExpirePrevPos, Fail

LEMMA Numbers ==
  TypeInv => /\ Len(feed) \in Nat /\ next \in Nat \ {0} /\ committed \in Nat
             /\ next <= Len(feed) + 1 /\ committed < next
             /\ job.pc # "poll" => next \in 1 .. Len(feed)
             /\ \A i \in 1 .. Len(feed) :
                  /\ feed[i] \in Fixes /\ feed[i].id \in Sources /\ feed[i].at \in Nat
                  /\ feed[i].speed \in Nat
             /\ DOMAIN feed = 1 .. Len(feed)
<1> SUFFICES ASSUME TypeInv
             PROVE  /\ Len(feed) \in Nat /\ next \in Nat \ {0} /\ committed \in Nat
                    /\ next <= Len(feed) + 1 /\ committed < next
                    /\ job.pc # "poll" => next \in 1 .. Len(feed)
                    /\ \A i \in 1 .. Len(feed) :
                         /\ feed[i] \in Fixes /\ feed[i].id \in Sources /\ feed[i].at \in Nat
                         /\ feed[i].speed \in Nat
                    /\ DOMAIN feed = 1 .. Len(feed)
  OBVIOUS
<1>1. \A fix \in Fixes : fix.speed \in Nat
  BY DEF Fixes
<1> QED
  BY <1>1, FeedType DEF TypeInv, TypeOK, PcInv

LEMMA ArriveMove ==
  ASSUME TypeInv, NEW fix, Waiting, Arrive(fix)
  PROVE  /\ job = Idle /\ job.pc = "poll" /\ next = Len(feed) + 1
         /\ feed' = Append(feed, fix) /\ Len(feed') = Len(feed) + 1
         /\ feed'[Len(feed) + 1] = fix /\ \A i \in 1 .. Len(feed) : feed'[i] = feed[i]
         /\ DOMAIN feed = 1 .. Len(feed) /\ DOMAIN feed' = 1 .. Len(feed) + 1
         /\ UNCHANGED <<next, committed, seen, job, redis, trips, periods, hours>>
<1>1. job = Idle /\ next > Len(feed) /\ feed' = Append(feed, fix)
      /\ UNCHANGED <<next, committed, seen, job, redis, trips, periods, hours>>
  BY DEF Waiting, Arrive, tables
<1>2. feed \in Seq(Fixes)
  BY DEF TypeInv, TypeOK
<1>3. /\ Len(feed') = Len(feed) + 1 /\ feed'[Len(feed) + 1] = fix
      /\ \A i \in 1 .. Len(feed) : feed'[i] = feed[i]
      /\ DOMAIN feed = 1 .. Len(feed) /\ DOMAIN feed' = 1 .. Len(feed) + 1
  BY <1>1, <1>2
<1>4. next = Len(feed) + 1
  BY <1>1, Numbers
<1> QED
  BY <1>1, <1>3, <1>4, IdleType2

LEMMA ReceiveMove ==
  ASSUME TypeInv, Receive
  PROVE  /\ job.pc = "poll" /\ next \in 1 .. Len(feed)
         /\ committed = next - 1 \/ "batch" \in faults
         /\ UNCHANGED <<feed, committed, seen, redis, trips, periods, hours>>
         /\ \/ /\ job' = Idle /\ job'.pc = "poll" /\ next' = next + 1
               /\ feed[next].id \in seen \/ "noise" \in faults
            \/ /\ next' = next /\ job'.pc = "insert" /\ feed[next].id \notin seen
               /\ job'.quality = "VALID" \/ "noise" \in faults
<1>1. /\ job.pc = "poll" /\ next \in 1 .. Len(feed)
      /\ committed = next - 1 \/ "batch" \in faults
      /\ UNCHANGED <<feed, committed, seen, redis, trips, periods, hours>>
  BY Numbers DEF Receive
<1>2. PICK q \in Verdicts :
         \/ q = "REJECTED" /\ Done
         \/ feed[next].id \in seen /\ Done
         \/ /\ feed[next].id \notin seen
            /\ job' = [job EXCEPT !.pc = "insert", !.quality = q] /\ UNCHANGED next
  BY DEF Receive
<1>3. q = "VALID" \/ "noise" \in faults
  BY DEF Verdicts
<1>4. Done => job' = Idle /\ job'.pc = "poll" /\ next' = next + 1
  BY IdleType2 DEF Done
<1>5. job' = [job EXCEPT !.pc = "insert", !.quality = q] => job'.pc = "insert" /\ job'.quality = q
  BY DEF TypeInv, TypeOK
<1> QED
  BY <1>1, <1>2, <1>3, <1>4, <1>5

LEMMA InsertMove ==
  ASSUME TypeInv, Insert
  PROVE  /\ job.pc = "insert" /\ next \in 1 .. Len(feed)
         /\ seen' = seen \cup {feed[next].id}
         /\ job'.pc = "engine" /\ job'.quality = job.quality
         /\ UNCHANGED <<feed, next, committed, redis, trips, periods, hours>>
  BY Numbers DEF TypeInv, TypeOK, Insert

LEMMA InsertFailsMove ==
  ASSUME TypeInv, InsertFails
  PROVE  /\ job.pc = "insert" /\ next \in 1 .. Len(feed) /\ "db" \in faults
         /\ job'.pc = "poll" /\ next' \in {next, next + 1}
         /\ UNCHANGED <<feed, committed, seen, redis, trips, periods, hours>>
<1>1. /\ job.pc = "insert" /\ next \in 1 .. Len(feed) /\ "db" \in faults
      /\ UNCHANGED <<feed, committed, seen, redis, trips, periods, hours>>
  BY Numbers DEF InsertFails, Fail
<1>2. \/ job' = [Idle EXCEPT !.tries = job.tries + 1] /\ UNCHANGED next
      \/ Done
  BY DEF InsertFails
<1>3. job'.pc = "poll"
  BY <1>2 DEF Done, Idle
<1> QED
  BY <1>1, <1>2, <1>3 DEF Done

LEMMA EngineMove ==
  ASSUME TypeInv, Engine
  PROVE  /\ job.pc = "engine" /\ next \in 1 .. Len(feed)
         /\ UNCHANGED <<feed, committed, seen, redis, trips, periods, hours>>
         /\ \/ /\ OutOfOrder(redis.prevpos)
               /\ job' = Idle /\ job'.pc = "poll" /\ next' = next + 1
            \/ /\ ~OutOfOrder(redis.prevpos)
               /\ next' = next /\ job'.pc = "write" /\ job'.quality = job.quality
               /\ job'.out = Advance(Fix, job.quality)
               /\ job'.out \in Plans /\ job'.out.keys.prevpos = Fix
               /\ job'.todo = job'.out.rows \o Keys
               /\ Fix \in Fixes /\ Fix.at = feed[next].at /\ Fix.ign = feed[next].ign
               /\ redis.prevpos # None => redis.prevpos.at <= Fix.at
<1>1. /\ job.pc = "engine" /\ next \in 1 .. Len(feed)
      /\ UNCHANGED <<feed, committed, seen, redis, trips, periods, hours>>
  BY Numbers DEF Engine, tables
<1>2. CASE OutOfOrder(redis.prevpos)
  BY <1>1, <1>2, IdleType2 DEF Engine, Done
<1>3. CASE ~OutOfOrder(redis.prevpos)
  <2> DEFINE out == Advance(Fix, job.quality)
  <2>1. job' = [job EXCEPT !.pc = "write", !.out = out, !.todo = out.rows \o Keys]
        /\ UNCHANGED next
    BY <1>3 DEF Engine
  <2>2. Fix \in Fixes /\ Fix.at = feed[next].at /\ feed[next].at \in Nat
    BY <1>1, FixType DEF TypeInv
  <2>3. Fix.ign = feed[next].ign
    BY <1>1, Numbers DEF Fix, Filtered, Fixes
  <2>4. redis.prevpos # None => redis.prevpos.at <= Fix.at
    <3>1. redis.prevpos # None => redis.prevpos.at \in Nat
      BY RedisType DEF TypeInv, TypeOK
    <3> QED
      BY <1>3, <2>2, <3>1 DEF OutOfOrder
  <2>5. out \in Plans /\ out.keys.prevpos = Fix
    BY <2>2, <2>4, AdvanceType DEF TypeInv
  <2> HIDE DEF out
  <2>6. /\ job'.pc = "write" /\ job'.quality = job.quality /\ job'.out = out
        /\ job'.todo = out.rows \o Keys
    BY <2>1 DEF TypeInv, TypeOK
  <2>7. out = Advance(Fix, job.quality)
    BY DEF out
  <2> QED
    BY <1>1, <1>3, <2>1, <2>2, <2>3, <2>4, <2>5, <2>6, <2>7
<1> QED
  BY <1>2, <1>3

\* A step of the list of statements and keys.
Works(S) ==
    /\ Writing(S) /\ Head(job.todo) \in S
    /\ job.pc = "write" /\ next \in 1 .. Len(feed) /\ job.out \in Plans
    /\ job'.pc = "write" /\ job'.out = job.out /\ job'.quality = job.quality
    /\ UNCHANGED <<feed, next, committed, seen>>

LEMMA PersistMove ==
  ASSUME TypeInv, Persist
  PROVE  /\ Works(Events) /\ job'.todo = Tail(job.todo) /\ UNCHANGED redis
         /\ Execute(Head(job.todo), feed[next].id)
<1>1. Writing(Events) /\ job.pc = "write" /\ job' = [job EXCEPT !.todo = Tail(@)]
      /\ Execute(Head(job.todo), feed[next].id)
      /\ UNCHANGED <<feed, next, committed, seen, redis>>
  BY DEF Persist, Writing
<1>2. /\ job'.pc = "write" /\ job'.out = job.out /\ job'.quality = job.quality
      /\ job'.todo = Tail(job.todo)
  BY <1>1 DEF TypeInv, TypeOK
<1>3. Head(job.todo) \in Events /\ next \in 1 .. Len(feed) /\ job.out \in Plans
  BY <1>1, Numbers DEF Writing, TypeInv, PcInv
<1> QED
  BY <1>1, <1>2, <1>3 DEF Works

LEMMA PersistFailsMove ==
  ASSUME TypeInv, PersistFails
  PROVE  /\ Works(Events) /\ job'.todo = <<>> /\ "db" \in faults
         /\ UNCHANGED <<redis, trips, periods, hours>>
<1>1. Writing(Events) /\ job.pc = "write" /\ job' = [job EXCEPT !.todo = <<>>] /\ "db" \in faults
      /\ UNCHANGED <<feed, next, committed, seen, redis, trips, periods, hours>>
  BY DEF PersistFails, Writing, Fail, tables
<1>2. /\ job'.pc = "write" /\ job'.out = job.out /\ job'.quality = job.quality
      /\ job'.todo = <<>>
  BY <1>1 DEF TypeInv, TypeOK
<1>3. Head(job.todo) \in Events /\ next \in 1 .. Len(feed) /\ job.out \in Plans
  BY <1>1, Numbers DEF Writing, TypeInv, PcInv
<1> QED
  BY <1>1, <1>2, <1>3 DEF Works

LEMMA SaveMove ==
  ASSUME TypeInv, Save
  PROVE  /\ Works(RedisKeys) /\ job'.todo = Tail(job.todo)
         /\ redis' = [redis EXCEPT ![Head(job.todo)] = job.out.keys[Head(job.todo)]]
         /\ redis \in RedisValues /\ job.out.keys \in RedisValues
         /\ UNCHANGED <<trips, periods, hours>>
<1>1. Writing(RedisKeys) /\ job.pc = "write" /\ job' = [job EXCEPT !.todo = Tail(@)]
      /\ redis' = [redis EXCEPT ![Head(job.todo)] = job.out.keys[Head(job.todo)]]
      /\ UNCHANGED <<feed, next, committed, seen, trips, periods, hours>>
  BY DEF Save, Writing, tables
<1>2. /\ job'.pc = "write" /\ job'.out = job.out /\ job'.quality = job.quality
      /\ job'.todo = Tail(job.todo)
  BY <1>1 DEF TypeInv, TypeOK
<1>3. Head(job.todo) \in RedisKeys /\ next \in 1 .. Len(feed) /\ job.out \in Plans
  BY <1>1, Numbers DEF Writing, TypeInv, PcInv
<1>4. redis \in RedisValues /\ job.out.keys \in RedisValues
  BY <1>3 DEF Plans, TypeInv, TypeOK
<1> QED
  BY <1>1, <1>2, <1>3, <1>4 DEF Works

LEMMA SaveFailsMove ==
  ASSUME TypeInv, SaveFails
  PROVE  /\ Works(RedisKeys) /\ job'.todo = Tail(job.todo) /\ "redis" \in faults
         /\ UNCHANGED <<redis, trips, periods, hours>>
<1>1. Writing(RedisKeys) /\ job.pc = "write" /\ job' = [job EXCEPT !.todo = Tail(@)]
      /\ "redis" \in faults
      /\ UNCHANGED <<feed, next, committed, seen, redis, trips, periods, hours>>
  BY DEF SaveFails, Writing, Fail, tables
<1>2. /\ job'.pc = "write" /\ job'.out = job.out /\ job'.quality = job.quality
      /\ job'.todo = Tail(job.todo)
  BY <1>1 DEF TypeInv, TypeOK
<1>3. Head(job.todo) \in RedisKeys /\ next \in 1 .. Len(feed) /\ job.out \in Plans
  BY <1>1, Numbers DEF Writing, TypeInv, PcInv
<1> QED
  BY <1>1, <1>2, <1>3 DEF Works

LEMMA ShowMove ==
  ASSUME TypeInv, Show
  PROVE  /\ job.pc = "write" /\ job.todo = <<>> /\ next \in 1 .. Len(feed)
         /\ job' = Idle /\ job'.pc = "poll" /\ next' = next + 1
         /\ UNCHANGED <<feed, committed, seen, redis, trips, periods, hours>>
  BY Numbers, IdleType2 DEF Show, Done, tables

LEMMA CommitMove ==
  ASSUME Commit
  PROVE  /\ committed < next - 1 /\ committed' = next - 1
         /\ UNCHANGED <<feed, next, seen, job, redis, trips, periods, hours>>
  BY DEF Commit, tables

LEMMA CrashMove ==
  ASSUME Crash
  PROVE  /\ "crash" \in faults /\ job' = Idle /\ job'.pc = "poll"
         /\ seen' = {} /\ next' = committed + 1
         /\ UNCHANGED <<feed, committed, redis, trips, periods, hours>>
  BY IdleType2 DEF Crash, tables

LEMMA ExpireMove ==
  ASSUME ExpirePrevPos
  PROVE  /\ "ttl" \in faults /\ job = Idle /\ job.pc = "poll" /\ redis' = [redis EXCEPT !.prevpos = None]
         /\ UNCHANGED <<feed, next, committed, seen, job, trips, periods, hours>>
  BY IdleType2 DEF ExpirePrevPos, Fail, tables

LEMMA StutterMove ==
  UNCHANGED vars => UNCHANGED <<feed, next, committed, seen, job, redis, trips, periods, hours>>
  BY DEF vars, tables

-----------------------------------------------------------------------------
(* What the machines make of a position *)

TripEvents == {"trip.started", "trip.ended", "trip.discarded"}
IdleEvents == {"idle.started", "idle.ended", "idle.alert"}
ParkingEvents == {"parking.started", "parking.ended", "parking.tamper"}

\* A trip starts at a position that moves, and only out of STOP; it ends at one that
\* does not, or after a gap, and leaves STOP behind.
LEMMA TripResult ==
  ASSUME NEW s \in TripStates, NEW fix \in Fixes, NEW prev \in Fixes \cup {None},
         NEW step \in {0, 1}, NEW r, r = AdvanceTrip(s, fix, prev, step)
  PROVE  \/ r.events = <<>> /\ (r.state.state = "STOP" <=> s.state = "STOP")
         \/ /\ r.events = <<"trip.started">> /\ s.state = "STOP"
            /\ fix.speed >= StartSpeed /\ r.state.state = "MOVING"
         \/ /\ r.events = <<"trip.ended">> \/ r.events = <<"trip.discarded">>
            /\ s.state # "STOP"
            /\ r.state.state = "STOP"
            /\ \/ ~(fix.speed >= StartSpeed)
               \/ prev # None /\ fix.at - prev.at >= MaxGap
<1> DEFINE moving == fix.speed >= StartSpeed
           slow == fix.speed <= StopSpeed
           gapBreaks == prev # None /\ fix.at - prev.at >= MaxGap
           dwell == IF s.movingAt = None THEN 0 ELSE fix.at - s.movingAt
           stops == dwell >= MinStop \/ fix.ign = "off"
           farther == [s EXCEPT !.dist = @ + step]
           started == [state |-> [state |-> "MOVING", startAt |-> fix.at, movingAt |-> fix.at,
                                  dist |-> 0],
                       events |-> <<"trip.started">>]
           pending == [farther EXCEPT !.state = "PENDING_STOP"]
           onward == [farther EXCEPT !.movingAt = fix.at]
           again == [farther EXCEPT !.state = "MOVING", !.movingAt = fix.at]
<1>1. /\ farther.state = s.state /\ pending.state = "PENDING_STOP" /\ onward.state = s.state
      /\ again.state = "MOVING"
  BY DEF TripStates
<1>2. started.events = <<"trip.started">> /\ started.state.state = "MOVING"
  OBVIOUS
<1>3. \A z : /\ Close(z).events \in {<<"trip.ended">>, <<"trip.discarded">>}
             /\ Close(z).state.state = "STOP"
             /\ Stay(z).events = <<>> /\ Stay(z).state = z
  BY DEF Close, Stay, InitialTrip
<1>4. s.state \in {"STOP", "MOVING", "PENDING_STOP"}
  BY DEF TripStates
<1>5. slow => ~moving
  BY ThresholdsAssumption DEF Fixes
<1>6. r =
         CASE s.state = "STOP" /\ moving -> started
           [] s.state = "MOVING" /\ gapBreaks -> Close(farther)
           [] s.state = "MOVING" /\ ~gapBreaks /\ slow -> IF stops THEN Close(farther) ELSE Stay(pending)
           [] s.state = "MOVING" /\ ~gapBreaks /\ ~slow -> Stay(onward)
           [] s.state = "PENDING_STOP" /\ gapBreaks -> Close(s)
           [] s.state = "PENDING_STOP" /\ ~gapBreaks /\ moving -> Stay(again)
           [] s.state = "PENDING_STOP" /\ ~gapBreaks /\ ~moving -> IF stops THEN Close(s) ELSE Stay(farther)
           [] OTHER -> Stay(s)
  <2> HIDE DEF farther, pending, onward, again, started, stops, dwell
  <2> QED
    BY DEF AdvanceTrip, farther, pending, onward, again, started, stops, dwell
<1> HIDE DEF farther, pending, onward, again, started, stops, dwell, moving, slow, gapBreaks
<1>7. \/ s.state = "STOP" /\ moving /\ r = started
      \/ s.state = "STOP" /\ r = Stay(s)
      \/ s.state # "STOP" /\ (gapBreaks \/ ~moving) /\ (r = Close(farther) \/ r = Close(s))
      \/ /\ s.state # "STOP"
         /\ r \in {Stay(pending), Stay(onward), Stay(again), Stay(farther)}
  BY ONLY <1>4, <1>5, <1>6
<1>8. \/ r.events = <<>> /\ (r.state.state = "STOP" <=> s.state = "STOP")
      \/ /\ r.events = <<"trip.started">> /\ s.state = "STOP"
         /\ moving /\ r.state.state = "MOVING"
      \/ /\ r.events = <<"trip.ended">> \/ r.events = <<"trip.discarded">>
         /\ s.state # "STOP"
         /\ r.state.state = "STOP" /\ (~moving \/ gapBreaks)
  <2>1. CASE s.state = "STOP" /\ moving /\ r = started
    BY ONLY <1>2, <2>1
  <2>2. CASE s.state = "STOP" /\ r = Stay(s)
    BY ONLY <1>3, <2>2
  <2>3. CASE s.state # "STOP" /\ (gapBreaks \/ ~moving) /\ (r = Close(farther) \/ r = Close(s))
    BY ONLY <1>3, <2>3
  <2>4. CASE s.state # "STOP" /\ r \in {Stay(pending), Stay(onward), Stay(again), Stay(farther)}
    BY ONLY <1>1, <1>3, <2>4
  <2> QED
    BY ONLY <1>7, <2>1, <2>2, <2>3, <2>4
<1> QED
  BY <1>8 DEF moving, gapBreaks

Idling(fix) == fix.ign = "on" /\ fix.speed <= IdleSpeed
Parked(fix) == fix.ign = "off" /\ fix.speed <= IdleSpeed

LEMMA IdleResult ==
  ASSUME NEW s \in IdleStates, NEW fix \in Fixes, NEW r, r = AdvanceIdle(s, fix)
  PROVE  \/ r.events = <<>> /\ r.state.state = s.state
         \/ /\ r.events = <<"idle.started">> /\ s.state = "ACTIVE" /\ r.state.state = "IDLE"
            /\ Idling(fix)
         \/ /\ r.events = <<"idle.ended">> /\ s.state = "IDLE" /\ r.state.state = "ACTIVE"
            /\ ~Idling(fix)
         \/ /\ r.events = <<"idle.alert">> /\ s.state = "IDLE" /\ r.state.state = "IDLE"
            /\ Idling(fix)
<1> DEFINE idling == fix.ign = "on" /\ fix.speed <= IdleSpeed
           idleFor == IF s.since = None THEN 0 ELSE fix.at - s.since
           starting == [s EXCEPT !.since = fix.at]
           started == [state |-> [s EXCEPT !.state = "IDLE"], events |-> <<"idle.started">>]
           ended == [state |-> InitialIdle, events |-> <<"idle.ended">>]
           alert == [state |-> [s EXCEPT !.alerted = TRUE], events |-> <<"idle.alert">>]
<1>1. /\ starting.state = s.state /\ started.state.state = "IDLE" /\ alert.state.state = s.state
      /\ ended.state.state = "ACTIVE" /\ InitialIdle.state = "ACTIVE"
      /\ started.events = <<"idle.started">> /\ ended.events = <<"idle.ended">>
      /\ alert.events = <<"idle.alert">>
  BY DEF IdleStates, InitialIdle
<1>2. \A z : Stay(z).events = <<>> /\ Stay(z).state = z
  BY DEF Stay
<1>3. s.state \in {"ACTIVE", "IDLE"}
  BY DEF IdleStates
<1>4. r =
         CASE s.state = "ACTIVE" /\ ~idling -> Stay(InitialIdle)
           [] s.state = "ACTIVE" /\ idling /\ s.since = None -> Stay(starting)
           [] s.state = "ACTIVE" /\ idling /\ s.since # None /\ idleFor >= IdleAfter -> started
           [] s.state = "IDLE" /\ ~idling -> ended
           [] s.state = "IDLE" /\ idling /\ ~s.alerted /\ idleFor >= AlertAfter -> alert
           [] OTHER -> Stay(s)
  <2> HIDE DEF starting, started, ended, alert, idleFor
  <2> QED
    BY DEF AdvanceIdle, starting, started, ended, alert, idleFor
<1> HIDE DEF starting, started, ended, alert, idleFor, idling
<1>5. \/ s.state = "ACTIVE" /\ r = Stay(InitialIdle)
      \/ s.state = "ACTIVE" /\ idling /\ r \in {Stay(starting), started}
      \/ s.state = "IDLE" /\ ~idling /\ r = ended
      \/ s.state = "IDLE" /\ idling /\ r = alert
      \/ r = Stay(s)
  BY ONLY <1>3, <1>4
<1>6. \/ r.events = <<>> /\ r.state.state = s.state
      \/ /\ r.events = <<"idle.started">> /\ s.state = "ACTIVE" /\ r.state.state = "IDLE"
         /\ idling
      \/ /\ r.events = <<"idle.ended">> /\ s.state = "IDLE" /\ r.state.state = "ACTIVE"
         /\ ~idling
      \/ /\ r.events = <<"idle.alert">> /\ s.state = "IDLE" /\ r.state.state = "IDLE"
         /\ idling
  BY ONLY <1>1, <1>2, <1>5
<1> QED
  BY <1>6 DEF idling, Idling

LEMMA ParkingResult ==
  ASSUME NEW s \in ParkingStates, NEW fix \in Fixes, NEW r, r = AdvanceParking(s, fix)
  PROVE  \/ r.events = <<>> /\ r.state.state = s.state
         \/ /\ r.events = <<"parking.started">> /\ s.state = "UNPARKED"
            /\ r.state.state = "PARKED" /\ Parked(fix)
         \/ /\ r.events = <<"parking.ended">> \/ r.events = <<"parking.tamper">>
            /\ s.state = "PARKED"
            /\ r.state.state = "UNPARKED" /\ ~Parked(fix)
<1> DEFINE off == fix.ign = "off"
           moving == fix.speed > IdleSpeed
           on == fix.ign = "on"
           starting == [s EXCEPT !.since = fix.at]
           started == [state |-> [s EXCEPT !.state = "PARKED"], events |-> <<"parking.started">>]
           tamper == [state |-> InitialParking, events |-> <<"parking.tamper">>]
           ended == [state |-> InitialParking, events |-> <<"parking.ended">>]
           longer == fix.at - s.since >= ParkAfter
<1>1. /\ starting.state = s.state /\ started.state.state = "PARKED"
      /\ ended.state.state = "UNPARKED" /\ tamper.state.state = "UNPARKED"
      /\ InitialParking.state = "UNPARKED"
      /\ started.events = <<"parking.started">> /\ ended.events = <<"parking.ended">>
      /\ tamper.events = <<"parking.tamper">>
  BY DEF ParkingStates, InitialParking
<1>2. \A z : Stay(z).events = <<>> /\ Stay(z).state = z
  BY DEF Stay
<1>3. s.state \in {"UNPARKED", "PARKED"} /\ ~(on /\ off)
  BY DEF ParkingStates
<1>4. r =
         CASE s.state = "UNPARKED" /\ off /\ ~moving /\ s.since = None -> Stay(starting)
           [] s.state = "UNPARKED" /\ off /\ ~moving /\ s.since # None ->
                IF longer THEN started ELSE Stay(s)
           [] s.state = "UNPARKED" /\ ~(off /\ ~moving) -> Stay(InitialParking)
           [] s.state = "PARKED" /\ moving /\ off -> tamper
           [] s.state = "PARKED" /\ (moving \/ on) /\ ~(moving /\ off) -> ended
           [] OTHER -> Stay(s)
  <2> HIDE DEF starting, started, ended, tamper, longer
  <2> QED
    BY DEF AdvanceParking, starting, started, ended, tamper, longer
<1>5. Parked(fix) <=> off /\ ~moving
  BY ThresholdsAssumption DEF Parked, Fixes
<1> HIDE DEF starting, started, ended, tamper, longer, off, moving, on
<1>6. \/ s.state = "UNPARKED" /\ off /\ ~moving /\ r \in {Stay(starting), started}
      \/ s.state = "UNPARKED" /\ r = Stay(InitialParking)
      \/ s.state = "PARKED" /\ ~(off /\ ~moving) /\ r \in {tamper, ended}
      \/ r = Stay(s)
  BY ONLY <1>3, <1>4
<1> QED
  BY ONLY <1>1, <1>2, <1>5, <1>6

\* Four lists of at most one event, one after the other.
Short(q) == q = <<>> \/ \E e \in Events : q = <<e>>

LEMMA ShortList ==
  ASSUME NEW q, Short(q)
  PROVE  /\ q \in Seq(Events)
         /\ \/ q = <<>> /\ Len(q) = 0
            \/ q # <<>> /\ Len(q) = 1 /\ q = <<q[1]>>
<1>1. CASE q = <<>>
  BY <1>1, EmptySeq
<1>2. ASSUME NEW e \in Events, q = <<e>>
      PROVE  q \in Seq(Events) /\ q # <<>> /\ Len(q) = 1 /\ q = <<q[1]>>
  BY <1>2
<1> QED
  BY <1>1, <1>2 DEF Short

\* An element of two lists put one after the other.
LEMMA TwoLists ==
  ASSUME NEW S, NEW p \in Seq(S), NEW q \in Seq(S)
  PROVE  /\ p \o q \in Seq(S) /\ Len(p) \in Nat /\ Len(q) \in Nat
         /\ Len(p \o q) = Len(p) + Len(q)
         /\ \A x \in 1 .. Len(p) : (p \o q)[x] = p[x] /\ x \in 1 .. Len(p \o q)
         /\ \A x \in 1 .. Len(q) :
              (p \o q)[Len(p) + x] = q[x] /\ Len(p) + x \in 1 .. Len(p \o q)
         /\ \A x \in 1 .. Len(p \o q) :
              \/ x \in 1 .. Len(p) /\ (p \o q)[x] = p[x]
              \/ x - Len(p) \in 1 .. Len(q) /\ (p \o q)[x] = q[x - Len(p)]
<1> DEFINE pq == p \o q
<1>1. /\ pq \in Seq(S) /\ Len(pq) = Len(p) + Len(q) /\ Len(p) \in Nat /\ Len(q) \in Nat
      /\ \A x \in 1 .. Len(p) + Len(q) : pq[x] = IF x <= Len(p) THEN p[x] ELSE q[x - Len(p)]
  BY ConcatProperties
<1> HIDE DEF pq
<1>2. /\ \A x \in 1 .. Len(p) : pq[x] = p[x] /\ x \in 1 .. Len(pq)
      /\ \A x \in 1 .. Len(q) : pq[Len(p) + x] = q[x] /\ Len(p) + x \in 1 .. Len(pq)
      /\ \A x \in 1 .. Len(pq) :
           \/ x \in 1 .. Len(p) /\ pq[x] = p[x]
           \/ x - Len(p) \in 1 .. Len(q) /\ pq[x] = q[x - Len(p)]
  BY ONLY <1>1
<1> QED
  BY <1>1, <1>2 DEF pq

\* A list put together from another one and at most one event.
Lengthened(p, q, pq) ==
    /\ pq \in Seq(Events)
    /\ \A x \in 1 .. Len(p) : pq[x] = p[x] /\ x \in 1 .. Len(pq)
    /\ \A x \in 1 .. Len(pq) :
         \/ x \in 1 .. Len(p) /\ pq[x] = p[x]
         \/ q = <<pq[x]>> /\ x = Len(pq)
    /\ q # <<>> => \E x \in 1 .. Len(pq) : q = <<pq[x]>>

LEMMA ShortTail ==
  ASSUME NEW p \in Seq(Events), NEW q, Short(q), NEW pq, pq = p \o q
  PROVE  Lengthened(p, q, pq)
<1> USE DEF Lengthened
<1>1. /\ q \in Seq(Events)
      /\ \/ q = <<>> /\ Len(q) = 0
         \/ q # <<>> /\ Len(q) = 1 /\ q = <<q[1]>>
  BY ShortList
<1>2. /\ pq \in Seq(Events) /\ Len(p) \in Nat /\ Len(q) \in Nat
      /\ Len(pq) = Len(p) + Len(q)
      /\ \A x \in 1 .. Len(p) : pq[x] = p[x] /\ x \in 1 .. Len(pq)
      /\ \A x \in 1 .. Len(q) : pq[Len(p) + x] = q[x] /\ Len(p) + x \in 1 .. Len(pq)
      /\ \A x \in 1 .. Len(pq) :
           \/ x \in 1 .. Len(p) /\ pq[x] = p[x]
           \/ x - Len(p) \in 1 .. Len(q) /\ pq[x] = q[x - Len(p)]
  BY <1>1, TwoLists
<1>3. CASE Len(q) = 0
  <2>1. \A x : x \notin 1 .. Len(q)
    BY ONLY <1>3
  <2> QED
    BY ONLY <1>1, <1>2, <1>3, <2>1
<1>4. CASE Len(q) = 1 /\ q # <<>> /\ q = <<q[1]>>
  <2>1. \A x \in Nat : x - Len(p) \in 1 .. Len(q) => x - Len(p) = 1 /\ x = Len(pq)
    BY ONLY <1>2, <1>4
  <2>2. Len(p) + 1 \in 1 .. Len(pq) /\ pq[Len(p) + 1] = q[1] /\ Len(pq) = Len(p) + 1
    BY ONLY <1>2, <1>4
  <2>3. \A x \in 1 .. Len(pq) : x \in Nat
    BY ONLY <1>2
  <2>4. \A x \in 1 .. Len(pq) :
          \/ x \in 1 .. Len(p) /\ pq[x] = p[x]
          \/ q[1] = pq[x] /\ x = Len(pq)
    BY ONLY <1>2, <2>1, <2>3, Zenon
  <2>5. \E x \in 1 .. Len(pq) : q[1] = pq[x]
    BY ONLY <2>2, Zenon
  <2> QED
    BY ONLY <1>2, <1>4, <2>2, <2>4, <2>5, Zenon
<1> QED
  BY <1>1, <1>3, <1>4

\* A list put together from four lists of at most one event each.
Joined(a, b, c, d, all) ==
    /\ all \in Seq(Events)
    /\ \A x \in 1 .. Len(all) :
         \/ a = <<all[x]>> \/ b = <<all[x]>> \/ c = <<all[x]>>
         \/ d = <<all[x]>> /\ x = Len(all)
    /\ a # <<>> => \E x \in 1 .. Len(all) : a = <<all[x]>>
    /\ b # <<>> => \E x \in 1 .. Len(all) : b = <<all[x]>>
    /\ c # <<>> => \E x \in 1 .. Len(all) : c = <<all[x]>>

LEMMA FourLists ==
  ASSUME NEW a, NEW b, NEW c, NEW d, Short(a), Short(b), Short(c), Short(d),
         NEW all, all = a \o b \o c \o d
  PROVE  Joined(a, b, c, d, all)
<1> USE DEF Joined
<1> DEFINE ab == a \o b
           abc == ab \o c
           abcd == abc \o d
<1>1. /\ a \in Seq(Events)
      /\ \A x \in 1 .. Len(a) : a = <<a[x]>>
      /\ a # <<>> => \E x \in 1 .. Len(a) : a = <<a[x]>>
  <2>1. CASE a = <<>> /\ Len(a) = 0
    BY <2>1, ShortList
  <2>2. CASE a # <<>> /\ Len(a) = 1 /\ a = <<a[1]>>
    BY <2>2, ShortList
  <2> QED
    BY <2>1, <2>2, ShortList
<1>a. ab = a \o b /\ abc = ab \o c /\ abcd = abc \o d /\ all = abcd
  OBVIOUS
<1> HIDE DEF ab, abc, abcd
<1>2. Lengthened(a, b, ab)
  BY ONLY <1>1, <1>a, Short(b), ShortTail
<1>3. Lengthened(ab, c, abc)
  <2>1. ab \in Seq(Events)
    BY <1>2 DEF Lengthened
  <2> QED
    BY ONLY <1>a, <2>1, Short(c), ShortTail
<1>4. Lengthened(abc, d, abcd)
  <2>1. abc \in Seq(Events)
    BY <1>3 DEF Lengthened
  <2> QED
    BY ONLY <1>a, <2>1, Short(d), ShortTail
<1> USE DEF Lengthened
<1>5. \A x \in 1 .. Len(abcd) :
        \/ a = <<abcd[x]>> \/ b = <<abcd[x]>> \/ c = <<abcd[x]>>
        \/ d = <<abcd[x]>> /\ x = Len(abcd)
  <2>1. \A x \in 1 .. Len(ab) : a = <<ab[x]>> \/ b = <<ab[x]>>
    BY ONLY <1>1, <1>2, Zenon
  <2>2. \A x \in 1 .. Len(abc) : a = <<abc[x]>> \/ b = <<abc[x]>> \/ c = <<abc[x]>>
    BY ONLY <1>3, <2>1, Zenon
  <2> QED
    BY ONLY <1>4, <2>2, Zenon
<1>6. /\ \A x \in 1 .. Len(a) : a[x] = abcd[x] /\ x \in 1 .. Len(abcd)
      /\ \A x \in 1 .. Len(ab) : ab[x] = abcd[x] /\ x \in 1 .. Len(abcd)
      /\ \A x \in 1 .. Len(abc) : abc[x] = abcd[x] /\ x \in 1 .. Len(abcd)
  BY ONLY <1>2, <1>3, <1>4, Zenon
<1>7. /\ a # <<>> => \E x \in 1 .. Len(abcd) : a = <<abcd[x]>>
      /\ b # <<>> => \E x \in 1 .. Len(abcd) : b = <<abcd[x]>>
      /\ c # <<>> => \E x \in 1 .. Len(abcd) : c = <<abcd[x]>>
  BY ONLY <1>1, <1>2, <1>3, <1>6, Zenon
<1> QED
  BY ONLY <1>4, <1>5, <1>7, <1>a, Zenon

LEMMA OtherEvent ==
  ASSUME NEW S, NEW q, q = <<>> \/ (\E e \in S : q = <<e>>), NEW f, f \notin S
  PROVE  q # <<f>>
  OBVIOUS

\* What the engine writes of a position: the states of the machines and their events, in
\* their order, with the flush of the hours last.
WrittenFrom(out, fix, trip, idle, park, meter) ==
    /\ out.keys.tripfsm = trip.state /\ out.keys.idlefsm = idle.state
    /\ out.keys.parkfsm = park.state /\ out.keys.enginehours = meter.acc
    /\ out.keys.prevpos = fix /\ out.flushed = meter.flushed
    /\ \A x \in 1 .. Len(out.rows) :
         \/ trip.events = <<out.rows[x]>>
         \/ idle.events = <<out.rows[x]>>
         \/ park.events = <<out.rows[x]>>
         \/ meter.flushed > 0 /\ out.rows[x] = "engine.hours.flushed" /\ x = Len(out.rows)
    /\ trip.events # <<>> => \E x \in 1 .. Len(out.rows) : trip.events = <<out.rows[x]>>
    /\ idle.events # <<>> => \E x \in 1 .. Len(out.rows) : idle.events = <<out.rows[x]>>
    /\ park.events # <<>> => \E x \in 1 .. Len(out.rows) : park.events = <<out.rows[x]>>
    /\ trip.events = <<>> \/ \E e \in TripEvents : trip.events = <<e>>
    /\ idle.events = <<>> \/ \E e \in IdleEvents : idle.events = <<e>>
    /\ park.events = <<>> \/ \E e \in ParkingEvents : park.events = <<e>>

LEMMA AdvanceParts ==
  ASSUME TypeOK, NEW fix \in Fixes, NEW q, redis.prevpos # None => redis.prevpos.at <= fix.at,
         NEW out, out = Advance(fix, q),
         NEW trip, trip = AdvanceTrip(redis.tripfsm, fix, redis.prevpos,
                                      DistanceStep(fix, redis.prevpos, q)),
         NEW idle, idle = AdvanceIdle(redis.idlefsm, fix),
         NEW park, park = AdvanceParking(redis.parkfsm, fix),
         NEW meter, meter = AdvanceHours(redis.enginehours, fix, redis.prevpos)
  PROVE  WrittenFrom(out, fix, trip, idle, park, meter)
<1> DEFINE last == IF meter.flushed > 0 THEN <<"engine.hours.flushed">> ELSE <<>>
           all == trip.events \o idle.events \o park.events \o last
           step == DistanceStep(fix, redis.prevpos, q)
<1>1. out = [keys |-> [tripfsm |-> trip.state, idlefsm |-> idle.state, parkfsm |-> park.state,
                       odo |-> redis.odo + step, enginehours |-> meter.acc, prevpos |-> fix],
             flushed |-> meter.flushed,
             rows |-> all]
  BY DEF Advance
<1>2. /\ redis.prevpos \in Fixes \cup {None} /\ redis.tripfsm \in TripStates
      /\ redis.idlefsm \in IdleStates /\ redis.parkfsm \in ParkingStates
      /\ step \in {0, 1}
  BY DEF TypeOK, RedisValues, DistanceStep
<1> HIDE DEF step
<1>3. /\ trip.events = <<>> \/ \E e \in TripEvents : trip.events = <<e>>
      /\ idle.events = <<>> \/ \E e \in IdleEvents : idle.events = <<e>>
      /\ park.events = <<>> \/ \E e \in ParkingEvents : park.events = <<e>>
  <2>1. trip.events = <<>> \/ \E e \in TripEvents : trip.events = <<e>>
    <3>1. \/ trip.events = <<>> \/ trip.events = <<"trip.started">>
          \/ trip.events = <<"trip.ended">> \/ trip.events = <<"trip.discarded">>
      <4>1. trip = AdvanceTrip(redis.tripfsm, fix, redis.prevpos, step)
        BY DEF step
      <4> QED
        BY <1>2, <4>1, TripResult
    <3> QED
      BY ONLY <3>1 DEF TripEvents
  <2>2. idle.events = <<>> \/ \E e \in IdleEvents : idle.events = <<e>>
    <3>1. \/ idle.events = <<>> \/ idle.events = <<"idle.started">>
          \/ idle.events = <<"idle.ended">> \/ idle.events = <<"idle.alert">>
      BY <1>2, IdleResult
    <3> QED
      BY ONLY <3>1 DEF IdleEvents
  <2>3. park.events = <<>> \/ \E e \in ParkingEvents : park.events = <<e>>
    <3>1. \/ park.events = <<>> \/ park.events = <<"parking.started">>
          \/ park.events = <<"parking.ended">> \/ park.events = <<"parking.tamper">>
      BY <1>2, ParkingResult
    <3> QED
      BY ONLY <3>1 DEF ParkingEvents
  <2> QED
    BY <2>1, <2>2, <2>3
<1>4. Short(trip.events) /\ Short(idle.events) /\ Short(park.events) /\ Short(last)
  <2>1. TripEvents \subseteq Events /\ IdleEvents \subseteq Events /\ ParkingEvents \subseteq Events
        /\ "engine.hours.flushed" \in Events
    BY DEF TripEvents, IdleEvents, ParkingEvents, Events, PeriodEvents
  <2>2. Short(last)
    BY <2>1 DEF Short
  <2> HIDE DEF last
  <2> QED
    BY ONLY <1>3, <2>1, <2>2, Zenon DEF Short
<1>5. \A e : last = <<e>> => meter.flushed > 0 /\ e = "engine.hours.flushed"
  OBVIOUS
<1>6. Joined(trip.events, idle.events, park.events, last, all)
  <2>1. all = trip.events \o idle.events \o park.events \o last
    OBVIOUS
  <2> HIDE DEF last, all
  <2> QED
    BY ONLY <1>4, <2>1, FourLists
<1> HIDE DEF last, all
<1>7. /\ out.keys.tripfsm = trip.state /\ out.keys.idlefsm = idle.state
      /\ out.keys.parkfsm = park.state /\ out.keys.enginehours = meter.acc
      /\ out.keys.prevpos = fix /\ out.flushed = meter.flushed /\ out.rows = all
  BY ONLY <1>1
<1> QED
  <2>1. \A x \in 1 .. Len(out.rows) :
             \/ trip.events = <<out.rows[x]>>
             \/ idle.events = <<out.rows[x]>>
             \/ park.events = <<out.rows[x]>>
             \/ meter.flushed > 0 /\ out.rows[x] = "engine.hours.flushed" /\ x = Len(out.rows)
    BY ONLY <1>5, <1>6, <1>7 DEF Joined
  <2>2. trip.events # <<>> => \E x \in 1 .. Len(out.rows) : trip.events = <<out.rows[x]>>
    BY ONLY <1>6, <1>7, Zenon DEF Joined
  <2>3. idle.events # <<>> => \E x \in 1 .. Len(out.rows) : idle.events = <<out.rows[x]>>
    BY ONLY <1>6, <1>7, Zenon DEF Joined
  <2>4. park.events # <<>> => \E x \in 1 .. Len(out.rows) : park.events = <<out.rows[x]>>
    BY ONLY <1>6, <1>7, Zenon DEF Joined
  <2> QED
    BY ONLY <1>3, <1>7, <2>1, <2>2, <2>3, <2>4 DEF WrittenFrom

-----------------------------------------------------------------------------
(* The list of what is still to be written *)

Left == Len(job.todo)

\* The j-th thing to do: statements before keys, the keys in their order.
Planned(j) == IF j <= Left - 6 THEN job.out.rows[Len(job.out.rows) + 6 - Left + j]
                               ELSE Keys[6 - Left + j]
TodoInv ==
    job.pc = "write" =>
      /\ Left <= Len(job.out.rows) + 6
      /\ \A j \in 1 .. Left : job.todo[j] = Planned(j)

LEMMA TodoInit == Init => TodoInv
  BY DEF Init, Idle, TodoInv

LEMMA KeysType == /\ Keys \in Seq(RedisKeys) /\ Len(Keys) = 6
                  /\ \A j \in 1 .. 6 : Keys[j] \in RedisKeys
                  /\ Keys[1] = "tripfsm" /\ Keys[2] = "idlefsm" /\ Keys[3] = "parkfsm"
                  /\ Keys[4] = "odo" /\ Keys[5] = "enginehours" /\ Keys[6] = "prevpos"
  BY DEF Keys, RedisKeys

LEMMA EventsAreNotKeys == \A e \in Events : e \notin RedisKeys
  BY DEF Events, PeriodEvents, RedisKeys

LEMMA LeftType ==
  TypeInv => /\ Left \in Nat /\ (job.todo = <<>> <=> Left = 0)
             /\ job.pc = "write" => job.out.rows \in Seq(Events) /\ Len(job.out.rows) \in Nat
<1> SUFFICES ASSUME TypeInv
             PROVE  /\ Left \in Nat /\ (job.todo = <<>> <=> Left = 0)
                    /\ job.pc = "write" => job.out.rows \in Seq(Events) /\ Len(job.out.rows) \in Nat
  OBVIOUS
<1>1. job.todo \in Seq(Events \cup RedisKeys)
  BY DEF TypeInv, TypeOK
<1>2. Left \in Nat /\ (job.todo = <<>> <=> Left = 0)
  BY <1>1, EmptyLength DEF Left
<1>3. job.pc = "write" => job.out.rows \in Seq(Events)
  BY DEF TypeInv, PcInv, Plans
<1> QED
  BY <1>2, <1>3

\* What is first on the list tells how much is left.
LEMMA WorkHead ==
  ASSUME TypeInv, TodoInv, NEW S \in {Events, RedisKeys}, Works(S)
  PROVE  /\ Left \in Nat \ {0} /\ Head(job.todo) = job.todo[1]
         /\ S = Events => /\ Left > 6
                          /\ Len(job.out.rows) + 7 - Left \in 1 .. Len(job.out.rows)
                          /\ Head(job.todo) = job.out.rows[Len(job.out.rows) + 7 - Left]
         /\ S = RedisKeys => Left \in 1 .. 6 /\ Head(job.todo) = Keys[7 - Left]
<1>1. job.todo \in Seq(Events \cup RedisKeys) /\ job.todo # <<>>
      /\ job.pc = "write" /\ Head(job.todo) \in S
  BY DEF TypeInv, TypeOK, Works, Writing
<1>2. Left \in Nat \ {0} /\ Head(job.todo) = job.todo[1]
  BY <1>1, LeftType
<1>3. job.out.rows \in Seq(Events) /\ Len(job.out.rows) \in Nat
  BY <1>1, LeftType
<1>4. /\ Left <= Len(job.out.rows) + 6
      /\ job.todo[1] = IF 1 <= Left - 6 THEN job.out.rows[Len(job.out.rows) + 6 - Left + 1]
                                        ELSE Keys[6 - Left + 1]
  BY <1>1, <1>2 DEF TodoInv, Planned
<1>5. CASE Left > 6
  <2>1. Len(job.out.rows) + 7 - Left \in 1 .. Len(job.out.rows)
        /\ Len(job.out.rows) + 6 - Left + 1 = Len(job.out.rows) + 7 - Left /\ 1 <= Left - 6
    BY ONLY <1>2, <1>3, <1>4, <1>5
  <2>2. Head(job.todo) = job.out.rows[Len(job.out.rows) + 7 - Left]
    BY ONLY <1>2, <1>4, <2>1
  <2>3. Head(job.todo) \in Events
    BY <1>3, <2>1, <2>2
  <2>4. S = Events
    BY <1>1, <2>3, EventsAreNotKeys
  <2>5. S # RedisKeys
    BY <1>1, <2>3, EventsAreNotKeys
  <2> QED
    BY ONLY <1>2, <1>5, <2>1, <2>2, <2>4, <2>5
<1>6. CASE ~(Left > 6)
  <2>1. Left \in 1 .. 6 /\ 6 - Left + 1 = 7 - Left /\ ~(1 <= Left - 6) /\ 7 - Left \in 1 .. 6
    BY ONLY <1>2, <1>6
  <2>2. Head(job.todo) = Keys[7 - Left]
    BY ONLY <1>2, <1>4, <2>1
  <2>3. Head(job.todo) \in RedisKeys
    BY ONLY <2>1, <2>2, KeysType
  <2>4. S # Events
    BY ONLY <1>1, <2>3, EventsAreNotKeys
  <2> QED
    BY ONLY <1>2, <2>1, <2>2, <2>4
<1> QED
  BY <1>5, <1>6

\* A step down the list.
LEMMA WorkTail ==
  ASSUME TypeInv, NEW S \in {Events, RedisKeys}, Works(S), job'.todo = Tail(job.todo)
  PROVE  /\ Left \in Nat \ {0} /\ Left' = Left - 1
         /\ \A j \in 1 .. Left' : job'.todo[j] = job.todo[j + 1]
<1>1. job.todo \in Seq(Events \cup RedisKeys) /\ job.todo # <<>>
  BY DEF TypeInv, TypeOK, Works, Writing
<1>2. Len(job.todo) \in Nat \ {0} /\ Len(Tail(job.todo)) = Len(job.todo) - 1
      /\ \A j \in 1 .. Len(job.todo) - 1 : Tail(job.todo)[j] = job.todo[j + 1]
  BY <1>1, EmptySeq
<1> QED
  BY <1>2 DEF Left

\* A fresh list: the statements and then the keys.
LEMMA FreshTodo ==
  ASSUME NEW rows \in Seq(Events), NEW todo, todo = rows \o Keys
  PROVE  /\ Len(rows) \in Nat /\ Len(todo) = Len(rows) + 6
         /\ \A j \in 1 .. Len(todo) : todo[j] = IF j <= Len(rows) THEN rows[j] ELSE Keys[j - Len(rows)]
<1>1. rows \in Seq(Events \cup RedisKeys) /\ Keys \in Seq(Events \cup RedisKeys)
  <2>1. rows \in Seq(Events \cup RedisKeys)
    BY SeqMonotonic, Events \subseteq Events \cup RedisKeys
  <2>2. Keys \in Seq(Events \cup RedisKeys)
    BY KeysType, SeqMonotonic, RedisKeys \subseteq Events \cup RedisKeys
  <2> QED
    BY <2>1, <2>2
<1>2. Len(rows) \in Nat /\ Len(Keys) = 6
  BY <1>1, KeysType
<1>3. /\ Len(rows \o Keys) = Len(rows) + Len(Keys)
      /\ \A j \in 1 .. Len(rows) + Len(Keys) :
           (rows \o Keys)[j] = IF j <= Len(rows) THEN rows[j] ELSE Keys[j - Len(rows)]
  BY <1>1, ConcatProperties, Zenon
<1> QED
  BY ONLY <1>2, <1>3, todo = rows \o Keys

\* Where a step may leave the handler writing.
LEMMA WriteCases ==
  ASSUME TypeInv, [Next]_vars, job'.pc = "write"
  PROVE  \/ Engine \/ Persist \/ PersistFails \/ Save \/ SaveFails
         \/ /\ UNCHANGED <<job, feed, next, redis, trips, periods, hours>> /\ job.pc = "write"
            /\ Commit \/ UNCHANGED vars
<1>1. ASSUME Publish \/ PublishAgain PROVE FALSE
  <2>1. PICK fix : Arrive(fix) /\ Waiting
    BY <1>1 DEF Publish, PublishAgain
  <2> QED
    BY <2>1, ArriveMove
<1>2. ~Receive
  BY ReceiveMove
<1>3. ~Insert /\ ~InsertFails /\ ~Show /\ ~Crash /\ ~ExpirePrevPos
  BY InsertMove, InsertFailsMove, ShowMove, CrashMove, ExpireMove
<1> QED
  BY <1>1, <1>2, <1>3, CommitMove, StutterMove DEF Next

LEMMA TodoStep == TypeInv /\ TypeInv' /\ TodoInv /\ [Next]_vars => TodoInv'
<1> SUFFICES ASSUME TypeInv, TypeInv', TodoInv, [Next]_vars, job'.pc = "write"
             PROVE  /\ Left' <= Len(job'.out.rows) + 6
                    /\ \A j \in 1 .. Left' : job'.todo[j] = Planned(j)'
  BY DEF TodoInv
<1>1. CASE Engine
  <2>1. job'.out.rows \in Seq(Events) /\ job'.todo = job'.out.rows \o Keys
    BY <1>1, EngineMove DEF Plans
  <2>2. /\ Len(job'.out.rows) \in Nat /\ Len(job'.todo) = Len(job'.out.rows) + 6
        /\ \A j \in 1 .. Len(job'.todo) :
             job'.todo[j] = IF j <= Len(job'.out.rows) THEN job'.out.rows[j]
                                                      ELSE Keys[j - Len(job'.out.rows)]
    BY <2>1, FreshTodo
  <2> QED
    BY ONLY <2>2 DEF Left, Planned
<1>2. ASSUME NEW S \in {Events, RedisKeys}, Works(S), job'.todo = Tail(job.todo)
      PROVE  /\ Left' <= Len(job'.out.rows) + 6
             /\ \A j \in 1 .. Left' : job'.todo[j] = Planned(j)'
  <2>1. /\ Left \in Nat \ {0} /\ Left' = Left - 1
        /\ \A j \in 1 .. Left' : job'.todo[j] = job.todo[j + 1]
    BY <1>2, WorkTail
  <2>2. job'.out = job.out /\ job.pc = "write"
    BY <1>2 DEF Works
  <2>3. Len(job.out.rows) \in Nat /\ Left <= Len(job.out.rows) + 6
        /\ \A j \in 1 .. Left : job.todo[j] = Planned(j)
    BY <2>2, LeftType DEF TodoInv
  <2> HIDE DEF Left
  <2> QED
    BY ONLY <2>1, <2>2, <2>3 DEF Planned
<1>3. CASE PersistFails
  <2>1. Left' = 0 /\ Len(job'.out.rows) \in Nat
    BY <1>3, PersistFailsMove, LeftType DEF Left
  <2> QED
    BY <2>1
<1>4. CASE UNCHANGED job /\ job.pc = "write"
  BY <1>4 DEF TodoInv, Left, Planned
<1> QED
  BY <1>1, <1>2, <1>3, <1>4, WriteCases, PersistMove, SaveMove, SaveFailsMove

-----------------------------------------------------------------------------
(* What arrives on the topic *)

\* A position that is published: the first one, a late one, or one in order.
LEMMA PublishMove ==
  ASSUME TypeInv, Publish
  PROVE  \E fix :
           /\ Waiting /\ Arrive(fix) /\ fix.id = Len(feed) + 1 /\ fix.at \in Nat
           /\ \/ Len(feed) = 0 /\ fix.at = 0
              \/ "late" \in faults /\ \E i \in 1 .. Len(feed) : fix.at < feed[i].at
              \/ \E i \in 1 .. Len(feed), g \in Steps :
                   /\ g \in Nat /\ fix.at = feed[i].at + g
                   /\ \A j \in 1 .. Len(feed) : feed[j].at <= feed[i].at
<1>1. PICK r \in Reports, at \in NextTimes \cup LateTimes :
        Arrive([id |-> Len(feed) + 1, at |-> at, speed |-> r.speed, ign |-> r.ign])
  BY DEF Publish
<1> DEFINE fix == [id |-> Len(feed) + 1, at |-> at, speed |-> r.speed, ign |-> r.ign]
<1>2. Waiting /\ Arrive(fix) /\ fix.id = Len(feed) + 1 /\ fix.at = at
  BY <1>1 DEF Publish
<1>3. /\ DOMAIN feed = 1 .. Len(feed) /\ Len(feed) \in Nat
      /\ \A i \in 1 .. Len(feed) : feed[i].at \in Nat
  BY Numbers
<1> HIDE DEF fix
<1>4. ASSUME at \in LateTimes
      PROVE  at \in Nat /\ "late" \in faults /\ \E i \in 1 .. Len(feed) : at < feed[i].at
  <2>1. PICK i \in DOMAIN feed : at \in 0 .. (feed[i].at - 1) /\ "late" \in faults
    BY <1>4, Zenon DEF LateTimes
  <2> QED
    BY <1>3, <2>1
<1>5. ASSUME at \in NextTimes, feed = <<>> PROVE at = 0 /\ Len(feed) = 0
  BY <1>5 DEF NextTimes
<1>6. ASSUME at \in NextTimes, feed # <<>>
      PROVE  /\ at \in Nat
             /\ \E i \in 1 .. Len(feed), g \in Steps :
                  /\ g \in Nat /\ at = feed[i].at + g
                  /\ \A j \in 1 .. Len(feed) : feed[j].at <= feed[i].at
  <2>1. PICK i \in Newest(DOMAIN feed), g \in Steps : at = feed[i].at + g
    BY ONLY <1>6 DEF NextTimes
  <2>2. i \in 1 .. Len(feed) /\ \A j \in 1 .. Len(feed) : feed[j].at <= feed[i].at
    BY <1>3, <2>1 DEF Newest
  <2>3. g \in Nat
    BY <2>1, InputsAssumption DEF Steps
  <2>4. feed[i].at + g \in Nat
    BY ONLY <1>3, <2>2, <2>3
  <2> QED
    BY ONLY <2>1, <2>2, <2>3, <2>4
<1> QED
  BY <1>2, <1>4, <1>5, <1>6

LEMMA PublishAgainMove ==
  ASSUME TypeInv, PublishAgain
  PROVE  "dup" \in faults /\ \E i \in 1 .. Len(feed) : Waiting /\ Arrive(feed[i])
  BY Numbers DEF PublishAgain

-----------------------------------------------------------------------------
(* The windows of the engine hours are exact *)

\* The windows end before the meter's began, and the meter began at a position that
\* reported the ignition on.
Fits(prev, acc) ==
    prev # None =>
      /\ \A w \in hours : w.to <= prev.at
      /\ prev.ign = "on" =>
           /\ \A w \in hours : w.to <= prev.at - acc
           /\ \E i \in DOMAIN feed : feed[i].at = prev.at - acc /\ feed[i].ign = "on"

WindowEnds == \A w \in hours : \E k \in DOMAIN feed : k <= next /\ feed[k].at = w.to
InOrder == "ttl" \in faults => \A i, j \in DOMAIN feed : i < j => feed[i].at <= feed[j].at

\* The window that is about to be written, the last of the statements.
FlushFits ==
    \A x \in 1 .. Len(job.out.rows) :
      job.out.rows[x] = "engine.hours.flushed" =>
        /\ x = Len(job.out.rows) /\ job.out.flushed > 0
        /\ job.out.keys.prevpos.ign # "on" /\ redis.prevpos # None
        /\ \A w \in hours : w.to <= feed[next].at - job.out.flushed
        /\ \E i \in DOMAIN feed :
             feed[i].at = feed[next].at - job.out.flushed /\ feed[i].ign = "on"

\* The meter in Redis fits the windows until a new one is written, and the one to be
\* written does from then on.
MeterInv ==
    Metered =>
      /\ WindowsExact /\ WindowEnds /\ InOrder
      /\ redis.prevpos = None => hours = {} \/ "ttl" \in faults
      /\ (job.pc # "write" \/ Left = 0 \/ Left > 6) => Fits(redis.prevpos, redis.enginehours)
      /\ job.pc = "write" /\ Left > 0 =>
           /\ Fits(job.out.keys.prevpos, job.out.keys.enginehours)
           /\ job.out.keys.prevpos = Fix
      /\ job.pc = "write" /\ Left = 1 => redis.enginehours = job.out.keys.enginehours
      /\ job.pc = "write" /\ Left > 6 => FlushFits

LEMMA MeterInit == Init => MeterInv
<1> SUFFICES ASSUME Init PROVE MeterInv
  OBVIOUS
<1>1. hours = {} /\ feed = <<>> /\ redis.prevpos = None /\ job.pc # "write"
  BY DEF Init, Idle
<1>2. InOrder
  BY <1>1 DEF InOrder
<1> QED
  BY ONLY <1>1, <1>2 DEF MeterInv, WindowsExact, WindowEnds, Fits

\* The meter and a position: the window stays open, begins, is flushed, or there is none.
LEMMA MeterAdvances ==
  ASSUME TypeInv, WindowEnds, InOrder, next \in 1 .. Len(feed),
         redis.prevpos = None => hours = {} \/ "ttl" \in faults,
         Fits(redis.prevpos, redis.enginehours),
         redis.prevpos # None => redis.prevpos.at <= Fix.at,
         NEW meter, meter = AdvanceHours(redis.enginehours, Fix, redis.prevpos)
  PROVE  /\ Fits(Fix, meter.acc)
         /\ meter.flushed > 0 =>
              /\ Fix.ign # "on" /\ redis.prevpos # None
              /\ \A w \in hours : w.to <= feed[next].at - meter.flushed
              /\ \E i \in DOMAIN feed :
                   feed[i].at = feed[next].at - meter.flushed /\ feed[i].ign = "on"
<1> DEFINE prev == redis.prevpos
           acc == redis.enginehours
           at == feed[next].at
           on == Fix.ign = "on"
           wasOn == prev # None /\ prev.ign = "on"
           total == IF prev = None THEN 0 ELSE acc + (Fix.at - prev.at)
<1>1. /\ Fix.at = at /\ Fix.ign = feed[next].ign /\ at \in Nat /\ DOMAIN feed = 1 .. Len(feed)
      /\ Fix # None
  <2>1. Fix \in Fixes /\ Fix.at = at
    BY FixType, Numbers DEF TypeInv
  <2>2. Fix.ign = feed[next].ign
    BY Numbers DEF Fix, Filtered, Fixes
  <2>3. Fix # None
    <3>1. Fix \in [id: Nat, at: Nat, speed: Nat, ign: Ignition]
      BY <2>1 DEF Fixes, Sources
    <3> QED
      BY <3>1, NoneAssumption
  <2> QED
    BY <2>1, <2>2, <2>3, Numbers
<1>2. acc \in Nat /\ (prev # None => prev.at \in Nat)
  BY RedisType DEF TypeInv, TypeOK, RedisValues
<1>3. hours \subseteq HourRows /\ \A w \in hours : w.to \in Nat
  BY DEF TypeInv, TypeOK, HourRows
<1>4. meter.acc = (CASE on /\ wasOn -> total [] on /\ ~wasOn -> 0
                     [] ~on /\ wasOn -> 0 [] ~on /\ ~wasOn -> acc)
      /\ meter.flushed = (IF ~on /\ wasOn THEN total ELSE 0)
  BY DEF AdvanceHours
<1>5. \A w \in hours : w.to <= at
  <2>1. CASE prev # None
    BY <1>1, <1>2, <1>3, <2>1 DEF Fits
  <2>2. CASE prev = None /\ "ttl" \in faults
    <3>1. SUFFICES ASSUME NEW w \in hours PROVE w.to <= at
      OBVIOUS
    <3>2. PICK k \in DOMAIN feed : k <= next /\ feed[k].at = w.to
      BY <3>1 DEF WindowEnds
    <3>3. k \in Nat /\ next \in Nat
      BY <1>1, <3>2, Numbers
    <3>4. k = next \/ k < next
      BY <3>2, <3>3
    <3> QED
      BY <1>1, <2>2, <3>2, <3>4 DEF InOrder
  <2> QED
    BY <2>1, <2>2
<1> HIDE DEF prev, acc, at
<1>6. wasOn => /\ total = acc + (at - prev.at) /\ at - total = prev.at - acc
               /\ \A w \in hours : w.to <= at - total
               /\ \E i \in DOMAIN feed : feed[i].at = at - total /\ feed[i].ign = "on"
  <2> SUFFICES ASSUME wasOn
               PROVE  /\ total = acc + (at - prev.at) /\ at - total = prev.at - acc
                      /\ \A w \in hours : w.to <= at - total
                      /\ \E i \in DOMAIN feed : feed[i].at = at - total /\ feed[i].ign = "on"
    OBVIOUS
  <2>1. total = acc + (at - prev.at) /\ at - total = prev.at - acc
    BY <1>1, <1>2
  <2>2. /\ \A w \in hours : w.to <= prev.at - acc
        /\ \E i \in DOMAIN feed : feed[i].at = prev.at - acc /\ feed[i].ign = "on"
    BY DEF Fits, prev, acc
  <2> QED
    BY ONLY <2>1, <2>2
<1> HIDE DEF on, wasOn, total
<1>7. CASE on /\ wasOn
  <2>1. meter.acc = total /\ meter.flushed = 0
    BY ONLY <1>4, <1>7
  <2> QED
    BY ONLY <1>1, <1>5, <1>6, <1>7, <2>1 DEF Fits, on
<1>8. CASE on /\ ~wasOn
  <2>1. meter.acc = 0 /\ meter.flushed = 0 /\ at - 0 = at
    BY ONLY <1>1, <1>4, <1>8
  <2>2. next \in DOMAIN feed /\ feed[next].at = at /\ feed[next].ign = "on"
    BY <1>1, <1>8 DEF on, at
  <2> QED
    BY ONLY <1>1, <1>5, <1>8, <2>1, <2>2 DEF Fits, on
<1>9. CASE ~on /\ wasOn
  <2>1. meter.flushed = total /\ prev # None
    BY ONLY <1>4, <1>9 DEF wasOn
  <2> QED
    BY ONLY <1>1, <1>5, <1>6, <1>9, <2>1 DEF Fits, on, at, prev
<1>10. CASE ~on /\ ~wasOn
  <2>1. meter.flushed = 0
    BY ONLY <1>4, <1>10
  <2> QED
    BY ONLY <1>1, <1>5, <1>10, <2>1 DEF Fits, on
<1> QED
  BY <1>7, <1>8, <1>9, <1>10

LEMMA MeterStep == TypeInv /\ TypeInv' /\ TodoInv /\ MeterInv /\ [Next]_vars => MeterInv'
<1> SUFFICES ASSUME TypeInv, TypeInv', TodoInv, MeterInv, [Next]_vars, Metered' PROVE MeterInv'
  BY DEF MeterInv
<1>0. Metered /\ faults' = faults
  BY FaultsKept DEF Metered
<1>1. /\ WindowsExact /\ WindowEnds /\ InOrder
      /\ redis.prevpos = None => hours = {} \/ "ttl" \in faults
      /\ (job.pc # "write" \/ Left = 0 \/ Left > 6) => Fits(redis.prevpos, redis.enginehours)
      /\ job.pc = "write" /\ Left > 0 =>
           /\ Fits(job.out.keys.prevpos, job.out.keys.enginehours)
           /\ job.out.keys.prevpos = Fix
      /\ job.pc = "write" /\ Left = 1 => redis.enginehours = job.out.keys.enginehours
      /\ job.pc = "write" /\ Left > 6 => FlushFits
  BY <1>0 DEF MeterInv
<1>2. /\ Len(feed) \in Nat /\ next \in Nat \ {0} /\ DOMAIN feed = 1 .. Len(feed)
      /\ \A i \in 1 .. Len(feed) : feed[i].at \in Nat
      /\ "crash" \notin faults /\ "redis" \notin faults
      /\ "ttl" \in faults => "late" \notin faults /\ "dup" \notin faults
  BY <1>0, Numbers DEF Metered
\* A step that writes neither a row nor a key, and leaves the handler before the engine.
<1>3. ASSUME UNCHANGED <<hours, redis>>, job'.pc # "write",
             job.pc # "write" \/ Left = 0, next' \in {next, next + 1},
             \A i \in DOMAIN feed : i \in DOMAIN feed' /\ feed'[i] = feed[i], InOrder'
      PROVE  MeterInv'
  <2>1. WindowsExact'
    BY ONLY <1>1, <1>3 DEF WindowsExact
  <2>2. WindowEnds'
    BY ONLY <1>1, <1>2, <1>3 DEF WindowEnds
  <2>3. Fits(redis.prevpos, redis.enginehours)'
    BY ONLY <1>1, <1>3 DEF Fits
  <2> QED
    BY ONLY <1>0, <1>1, <1>3, <2>1, <2>2, <2>3 DEF MeterInv
<1>4. ASSUME NEW fix, Waiting, Arrive(fix), fix.at \in Nat,
             "ttl" \in faults => \A i \in 1 .. Len(feed) : feed[i].at <= fix.at
      PROVE  MeterInv'
  <2>1. /\ feed'[Len(feed) + 1] = fix /\ \A i \in 1 .. Len(feed) : feed'[i] = feed[i]
        /\ DOMAIN feed' = 1 .. Len(feed) + 1 /\ job.pc = "poll"
        /\ UNCHANGED <<next, job, redis, hours>>
    BY <1>4, ArriveMove
  <2>2. \A i \in 1 .. Len(feed) + 1 : i \in 1 .. Len(feed) \/ i = Len(feed) + 1
    BY <1>2
  <2>3. InOrder'
    BY ONLY <1>0, <1>1, <1>2, <1>4, <2>1, <2>2 DEF InOrder
  <2>4. \A i \in DOMAIN feed : i \in DOMAIN feed' /\ feed'[i] = feed[i]
    BY ONLY <1>2, <2>1
  <2>5. job'.pc # "write"
    BY <2>1
  <2> QED
    BY <1>3, <2>1, <2>3, <2>4, <2>5
<1>5. ASSUME Publish PROVE MeterInv'
  <2>1. PICK fix :
           /\ Waiting /\ Arrive(fix) /\ fix.at \in Nat
           /\ \/ Len(feed) = 0 /\ fix.at = 0
              \/ "late" \in faults /\ \E i \in 1 .. Len(feed) : fix.at < feed[i].at
              \/ \E i \in 1 .. Len(feed), g \in Steps :
                   /\ g \in Nat /\ fix.at = feed[i].at + g
                   /\ \A j \in 1 .. Len(feed) : feed[j].at <= feed[i].at
    BY <1>5, PublishMove
  <2>2. "ttl" \in faults => \A i \in 1 .. Len(feed) : feed[i].at <= fix.at
    BY ONLY <1>2, <2>1
  <2> QED
    BY <1>4, <2>1, <2>2
<1>6. ASSUME PublishAgain PROVE MeterInv'
  <2>1. PICK i \in 1 .. Len(feed) : Waiting /\ Arrive(feed[i])
    BY <1>6, PublishAgainMove
  <2>2. "ttl" \notin faults /\ feed[i].at \in Nat
    BY <1>2, <1>6, <2>1, PublishAgainMove
  <2> QED
    BY <1>4, <2>1, <2>2
<1>7. ASSUME UNCHANGED feed PROVE InOrder'
  BY <1>0, <1>1, <1>7 DEF InOrder
<1>8. ASSUME Receive \/ Insert \/ InsertFails \/ Show PROVE MeterInv'
  <2>1. /\ UNCHANGED <<hours, redis, feed>> /\ job'.pc # "write"
        /\ job.pc # "write" \/ Left = 0
    BY <1>8, ReceiveMove, InsertMove, InsertFailsMove, ShowMove, LeftType
  <2>2. next' \in {next, next + 1}
    BY <1>8, ReceiveMove, InsertMove, InsertFailsMove, ShowMove
  <2> QED
    BY <1>3, <1>7, <2>1, <2>2
<1>9. ASSUME Engine PROVE MeterInv'
  <2>1. CASE OutOfOrder(redis.prevpos)
    BY <1>3, <1>7, <1>9, <2>1, EngineMove
  <2>2. CASE ~OutOfOrder(redis.prevpos)
    <3> DEFINE trip == AdvanceTrip(redis.tripfsm, Fix, redis.prevpos,
                                   DistanceStep(Fix, redis.prevpos, job.quality))
               idle == AdvanceIdle(redis.idlefsm, Fix)
               park == AdvanceParking(redis.parkfsm, Fix)
               meter == AdvanceHours(redis.enginehours, Fix, redis.prevpos)
    <3>1. /\ job.pc = "engine" /\ next \in 1 .. Len(feed) /\ next' = next /\ job'.pc = "write"
          /\ job'.quality = job.quality /\ job'.out = Advance(Fix, job.quality)
          /\ job'.out \in Plans /\ job'.todo = job'.out.rows \o Keys
          /\ Fix \in Fixes /\ (redis.prevpos # None => redis.prevpos.at <= Fix.at)
          /\ UNCHANGED <<feed, redis, hours>>
      BY <1>9, <2>2, EngineMove
    <3>2. Fix' = Fix
      BY <3>1 DEF Fix, Filtered, Flagged
    <3>3. WrittenFrom(job'.out, Fix, trip, idle, park, meter)
      <4>1. /\ trip = AdvanceTrip(redis.tripfsm, Fix, redis.prevpos,
                                  DistanceStep(Fix, redis.prevpos, job.quality))
            /\ idle = AdvanceIdle(redis.idlefsm, Fix) /\ park = AdvanceParking(redis.parkfsm, Fix)
            /\ meter = AdvanceHours(redis.enginehours, Fix, redis.prevpos) /\ TypeOK
        BY DEF TypeInv
      <4> HIDE DEF trip, idle, park, meter
      <4> QED
        BY ONLY <3>1, <4>1, AdvanceParts
    <3>4. /\ Fits(Fix, meter.acc)
          /\ meter.flushed > 0 =>
              /\ Fix.ign # "on" /\ redis.prevpos # None
              /\ \A w \in hours : w.to <= feed[next].at - meter.flushed
              /\ \E i \in DOMAIN feed :
                   feed[i].at = feed[next].at - meter.flushed /\ feed[i].ign = "on"
      BY <1>1, <3>1, MeterAdvances
    <3> HIDE DEF trip, idle, park, meter
    <3>5. \A x \in 1 .. Len(job'.out.rows) :
            job'.out.rows[x] = "engine.hours.flushed" =>
              meter.flushed > 0 /\ x = Len(job'.out.rows)
      <4>1. "engine.hours.flushed" \notin TripEvents /\ "engine.hours.flushed" \notin IdleEvents
            /\ "engine.hours.flushed" \notin ParkingEvents
        BY DEF TripEvents, IdleEvents, ParkingEvents
      <4>2. /\ trip.events # <<"engine.hours.flushed">>
            /\ idle.events # <<"engine.hours.flushed">>
            /\ park.events # <<"engine.hours.flushed">>
        <5>1. /\ trip.events = <<>> \/ \E e \in TripEvents : trip.events = <<e>>
              /\ idle.events = <<>> \/ \E e \in IdleEvents : idle.events = <<e>>
              /\ park.events = <<>> \/ \E e \in ParkingEvents : park.events = <<e>>
          BY ONLY <3>3, Zenon DEF WrittenFrom
        <5>2. trip.events # <<"engine.hours.flushed">>
          BY ONLY <4>1, <5>1, OtherEvent, Zenon
        <5>3. idle.events # <<"engine.hours.flushed">>
          BY ONLY <4>1, <5>1, OtherEvent, Zenon
        <5>4. park.events # <<"engine.hours.flushed">>
          BY ONLY <4>1, <5>1, OtherEvent
        <5> QED
          BY ONLY <5>2, <5>3, <5>4
      <4>3. \A x \in 1 .. Len(job'.out.rows) :
              \/ trip.events = <<job'.out.rows[x]>>
              \/ idle.events = <<job'.out.rows[x]>>
              \/ park.events = <<job'.out.rows[x]>>
              \/ meter.flushed > 0 /\ x = Len(job'.out.rows)
        BY ONLY <3>3, Zenon DEF WrittenFrom
      <4> QED
        BY ONLY <4>2, <4>3, Zenon
    <3>6. FlushFits'
      BY ONLY <3>1, <3>3, <3>4, <3>5 DEF FlushFits, WrittenFrom
    <3>7. Left' \in Nat /\ Left' >= 6
      <4>1. job'.out.rows \in Seq(Events)
        BY <3>1 DEF Plans
      <4>2. Len(job'.out.rows) \in Nat /\ Len(job'.todo) = Len(job'.out.rows) + 6
        BY <3>1, <4>1, FreshTodo
      <4> QED
        BY <4>2 DEF Left
    <3>8. WindowsExact' /\ WindowEnds' /\ InOrder'
      BY <1>1, <1>7, <3>1 DEF WindowsExact, WindowEnds
    <3>9. Fits(redis.prevpos, redis.enginehours)'
      BY ONLY <1>1, <3>1 DEF Fits
    <3>10. Fits(job.out.keys.prevpos, job.out.keys.enginehours)'
      BY ONLY <3>1, <3>3, <3>4 DEF Fits, WrittenFrom
    <3>11. job'.out.keys.prevpos = Fix'
      BY <3>2, <3>3 DEF WrittenFrom
    <3> QED
      BY ONLY <1>0, <1>1, <3>1, <3>6, <3>7, <3>8, <3>9, <3>10, <3>11 DEF MeterInv
  <2> QED
    BY <2>1, <2>2
<1>10. ASSUME Persist PROVE MeterInv'
  <2> DEFINE x == Len(job.out.rows) + 7 - Left
             event == Head(job.todo)
  <2>1. /\ Works(Events) /\ job'.todo = Tail(job.todo) /\ UNCHANGED <<redis, feed, next>>
        /\ Execute(event, feed[next].id)
        /\ job.pc = "write" /\ job'.pc = "write" /\ job'.out = job.out
        /\ job'.quality = job.quality /\ next \in 1 .. Len(feed)
    BY <1>10, PersistMove DEF Works
  <2>2. /\ Left \in Nat /\ Left > 6 /\ Left' = Left - 1 /\ x \in 1 .. Len(job.out.rows)
        /\ event = job.out.rows[x]
    BY <2>1, WorkHead, WorkTail
  <2>3. Fix' = Fix
    BY <2>1 DEF Fix, Filtered, Flagged
  <2>4. Len(job.out.rows) \in Nat /\ Left > 0 /\ Left' >= 6 /\ Left' \in Nat
    BY <2>1, <2>2, LeftType
  <2>5. CASE event # "engine.hours.flushed"
    <3>1. UNCHANGED hours
      BY <2>1, <2>5 DEF Execute
    <3>2. WindowsExact' /\ WindowEnds' /\ InOrder' /\ FlushFits'
      BY <1>1, <1>7, <2>1, <2>2, <3>1 DEF WindowsExact, WindowEnds, FlushFits
    <3>3. Fits(redis.prevpos, redis.enginehours)'
      BY ONLY <1>1, <2>1, <2>2, <3>1 DEF Fits
    <3>4. Fits(job.out.keys.prevpos, job.out.keys.enginehours)'
      BY ONLY <1>1, <2>1, <2>4, <3>1 DEF Fits
    <3> QED
      BY ONLY <1>0, <1>1, <2>1, <2>3, <2>4, <3>1, <3>2, <3>3, <3>4 DEF MeterInv
  <2>6. CASE event = "engine.hours.flushed"
    <3> DEFINE from == feed[next].at - job.out.flushed
               w == [source |-> feed[next].id, from |-> from, to |-> feed[next].at]
    <3>1. /\ x = Len(job.out.rows) /\ job.out.flushed > 0
          /\ job.out.keys.prevpos.ign # "on" /\ redis.prevpos # None
          /\ \A v \in hours : v.to <= from
          /\ \E i \in DOMAIN feed : feed[i].at = from /\ feed[i].ign = "on"
      BY <1>1, <2>1, <2>2, <2>6 DEF FlushFits
    <3>2. hours' = hours \/ hours' = hours \cup {w}
      BY <2>1, <2>6 DEF Execute, insertEngineHours, PeriodEvents
    <3>3. w.from = from /\ w.to = feed[next].at
      OBVIOUS
    <3> HIDE DEF w, from
    <3>4. Left' = 6
      BY ONLY <2>2, <2>4, <3>1
    <3>5. WindowsExact'
      BY ONLY <1>1, <2>1, <3>1, <3>2, <3>3 DEF WindowsExact
    <3>6. WindowEnds'
      <4>1. next \in DOMAIN feed /\ next <= next
        BY <1>2, <2>1
      <4> QED
        BY ONLY <1>1, <2>1, <3>2, <3>3, <4>1 DEF WindowEnds
    <3>7. Fits(job.out.keys.prevpos, job.out.keys.enginehours)'
      <4>1. job.out.keys.prevpos.at = feed[next].at /\ feed[next].at \in Nat
        BY <1>1, <2>1, <2>4, FixType, Numbers DEF TypeInv
      <4>2. \A v \in hours : v.to <= job.out.keys.prevpos.at
        <5>1. job.out.keys.prevpos # None
          BY <1>1, <2>1, <2>4, FixType, NoneAssumption DEF TypeInv, Fixes, Sources
        <5> QED
          BY <1>1, <2>1, <2>4, <5>1 DEF Fits
      <4> QED
        BY ONLY <2>1, <3>1, <3>2, <3>3, <4>1, <4>2 DEF Fits
    <3>8. InOrder'
      BY <1>7, <2>1
    <3> QED
      BY ONLY <1>0, <1>1, <2>1, <2>3, <2>4, <3>1, <3>4, <3>5, <3>6, <3>7, <3>8 DEF MeterInv
  <2> QED
    BY <2>5, <2>6
<1>11. ASSUME PersistFails PROVE MeterInv'
  <2>1. /\ Works(Events) /\ job'.todo = <<>> /\ UNCHANGED <<redis, hours, feed, next>>
        /\ job'.pc = "write"
    BY <1>11, PersistFailsMove DEF Works
  <2>2. Left > 6 /\ Left' = 0 /\ job.pc = "write"
    BY <2>1, WorkHead DEF Left, Works
  <2>3. WindowsExact' /\ WindowEnds' /\ InOrder'
    BY <1>1, <1>7, <2>1 DEF WindowsExact, WindowEnds
  <2>4. Fits(redis.prevpos, redis.enginehours)'
    BY ONLY <1>1, <2>1, <2>2 DEF Fits
  <2> QED
    BY ONLY <1>0, <1>1, <2>1, <2>2, <2>3, <2>4 DEF MeterInv
<1>12. ASSUME Save PROVE MeterInv'
  <2> DEFINE key == Head(job.todo)
  <2>1. /\ Works(RedisKeys) /\ job'.todo = Tail(job.todo) /\ UNCHANGED <<hours, feed, next>>
        /\ redis' = [redis EXCEPT ![key] = job.out.keys[key]]
        /\ redis \in RedisValues
        /\ job.pc = "write" /\ job'.pc = "write" /\ job'.out = job.out /\ job'.quality = job.quality
        /\ next \in 1 .. Len(feed)
    BY <1>12, SaveMove DEF Works
  <2>2. Left \in 1 .. 6 /\ Left' = Left - 1 /\ key = Keys[7 - Left]
    BY <2>1, WorkHead, WorkTail
  <2>3. (Left = 1 => key = "prevpos") /\ (Left = 2 => key = "enginehours")
        /\ (Left # 1 => key # "prevpos") /\ (Left # 2 => key # "enginehours")
    BY ONLY <2>2, KeysType
  <2>4. /\ redis'.prevpos = IF Left = 1 THEN job.out.keys.prevpos ELSE redis.prevpos
        /\ redis'.enginehours = IF Left = 2 THEN job.out.keys.enginehours ELSE redis.enginehours
    BY <2>1, <2>3 DEF RedisValues
  <2>5. Fix' = Fix /\ Fix # None
    <3>1. Fix \in [id: Nat, at: Nat, speed: Nat, ign: Ignition]
      BY <2>1, FixType, Numbers DEF TypeInv, Fixes, Sources
    <3> QED
      BY <2>1, <3>1, NoneAssumption DEF Fix, Filtered, Flagged
  <2>6. WindowsExact' /\ WindowEnds' /\ InOrder'
    BY <1>1, <1>7, <2>1 DEF WindowsExact, WindowEnds
  <2>7. Fits(job.out.keys.prevpos, job.out.keys.enginehours) /\ job.out.keys.prevpos = Fix
    BY <1>1, <2>1, <2>2
  <2>8. Fits(job.out.keys.prevpos, job.out.keys.enginehours)'
    BY ONLY <2>1, <2>7 DEF Fits
  <2>9. Left' = 0 => Fits(redis.prevpos, redis.enginehours)'
    <3> SUFFICES ASSUME Left' = 0 PROVE Fits(redis.prevpos, redis.enginehours)'
      OBVIOUS
    <3>1. redis'.prevpos = job.out.keys.prevpos /\ redis'.enginehours = job.out.keys.enginehours
      BY <1>1, <2>1, <2>2, <2>4
    <3> QED
      BY ONLY <2>1, <2>7, <3>1 DEF Fits
  <2>10. redis'.prevpos = None => hours' = {} \/ "ttl" \in faults'
    BY <1>0, <1>1, <2>1, <2>4, <2>5, <2>7
  <2>11. Left' = 1 => redis'.enginehours = job'.out.keys.enginehours
    BY <2>1, <2>2, <2>4
  <2>12. Left' \in 0 .. 5
    BY <2>2
  <2>13. job'.out.keys.prevpos = Fix'
    BY <2>1, <2>5, <2>7
  <2> QED
    BY ONLY <1>0, <2>1, <2>6, <2>8, <2>9, <2>10, <2>11, <2>12, <2>13 DEF MeterInv
<1>13. ASSUME Commit \/ UNCHANGED vars PROVE MeterInv'
  <2>1. UNCHANGED <<feed, next, job, redis, hours>>
    BY <1>13, CommitMove, StutterMove
  <2>2. WindowsExact' /\ WindowEnds' /\ InOrder' /\ (FlushFits' <=> FlushFits)
    BY <1>1, <1>7, <2>1 DEF WindowsExact, WindowEnds, FlushFits
  <2>3. /\ Fits(redis.prevpos, redis.enginehours)' <=> Fits(redis.prevpos, redis.enginehours)
        /\ Fits(job.out.keys.prevpos, job.out.keys.enginehours)'
             <=> Fits(job.out.keys.prevpos, job.out.keys.enginehours)
        /\ Left' = Left /\ Fix' = Fix
    BY <2>1 DEF Fits, Left, Fix, Filtered, Flagged
  <2> QED
    BY ONLY <1>0, <1>1, <2>1, <2>2, <2>3 DEF MeterInv
<1>14. ASSUME ExpirePrevPos PROVE MeterInv'
  <2>1. /\ "ttl" \in faults /\ job.pc = "poll" /\ redis' = [redis EXCEPT !.prevpos = None]
        /\ UNCHANGED <<feed, next, job, hours>>
    BY <1>14, ExpireMove
  <2>2. redis'.prevpos = None
    BY <2>1 DEF TypeInv, TypeOK, RedisValues
  <2>3. WindowsExact' /\ WindowEnds' /\ InOrder'
    BY <1>1, <1>7, <2>1 DEF WindowsExact, WindowEnds
  <2>4. Fits(redis.prevpos, redis.enginehours)'
    BY ONLY <2>2 DEF Fits
  <2> QED
    BY ONLY <1>0, <2>1, <2>2, <2>3, <2>4 DEF MeterInv
<1>15. ~SaveFails /\ ~Crash
  BY <1>2, SaveFailsMove, CrashMove
<1> QED
  BY <1>5, <1>6, <1>8, <1>9, <1>10, <1>11, <1>12, <1>13, <1>14, <1>15 DEF Next

\* Without crashes and lost writes, and as long as a meter that lost its predecessor meets
\* the positions in order, every second of engine time is in one window.
THEOREM EngineHoursAreExact == Spec => []HoursExact
<1>1. MeterInv => HoursExact
  BY DEF MeterInv, HoursExact
<1>2. TypeInv /\ TodoInv /\ MeterInv /\ [Next]_vars => (TypeInv /\ TodoInv /\ MeterInv)'
  BY TypeStep, TodoStep, MeterStep
<1> QED
  BY <1>1, <1>2, TypeInit, TodoInit, MeterInit, PTL DEF Spec

-----------------------------------------------------------------------------
(* The topic and the consumer of a reliable engine *)

LEMMA ReliableFaults ==
  Reliable => /\ "gap" \notin faults /\ "burst" \notin faults /\ "batch" \notin faults
              /\ "noise" \notin faults /\ "db" \notin faults /\ "redis" \notin faults
              /\ "ttl" \notin faults
  BY DEF Reliable

\* A repeated position is the copy of the one its id names; silences are shorter than
\* MaxGap; of two positions with one capture time the second has been overtaken.
FeedIds == \A k \in 1 .. Len(feed) : feed[k].id \in 1 .. k /\ feed[feed[k].id] = feed[k]
InGap == \A k \in 1 .. Len(feed) :
           feed[k].at = 0 \/ \E m \in 1 .. (k - 1) : feed[k].at < feed[m].at + MaxGap
Peaks == \A a, b \in 1 .. Len(feed) :
           a < b /\ feed[a].id # feed[b].id /\ feed[a].at = feed[b].at
             => \E m \in 1 .. (b - 1) : feed[b].at < feed[m].at
FeedInv == Reliable => FeedIds /\ InGap /\ Peaks

LEMMA FeedInit == Init => FeedInv
<1> SUFFICES ASSUME Init PROVE FeedIds /\ InGap /\ Peaks
  BY DEF FeedInv
<1>1. 1 .. Len(feed) = {}
  BY DEF Init
<1> QED
  BY <1>1 DEF FeedIds, InGap, Peaks

LEMMA FeedStep == TypeInv /\ FeedInv /\ [Next]_vars => FeedInv'
<1> SUFFICES ASSUME TypeInv, FeedInv, [Next]_vars, Reliable' PROVE (FeedIds /\ InGap /\ Peaks)'
  BY DEF FeedInv
<1>1. FeedIds /\ InGap /\ Peaks /\ Reliable
  BY FaultsKept DEF FeedInv, Reliable
<1>2. /\ Len(feed) \in Nat /\ \A i \in 1 .. Len(feed) : feed[i].at \in Nat /\ i \in Nat
      /\ MaxGap \in Nat /\ MaxGap > 0
  BY Numbers, ThresholdsAssumption
<1>3. CASE UNCHANGED feed
  BY <1>1, <1>3 DEF FeedIds, InGap, Peaks
<1> DEFINE n == Len(feed) + 1
<1>4. ASSUME NEW fix, Waiting, Arrive(fix)
      PROVE  /\ Len(feed') = n /\ feed'[n] = fix /\ \A i \in 1 .. Len(feed) : feed'[i] = feed[i]
             /\ \A i \in 1 .. n : i = n \/ i \in 1 .. Len(feed)
             /\ n \in Nat /\ n - 1 = Len(feed)
  BY <1>2, <1>4, ArriveMove
<1>5. ASSUME Publish PROVE (FeedIds /\ InGap /\ Peaks)'
  <2>1. PICK fix :
           /\ Waiting /\ Arrive(fix) /\ fix.id = n /\ fix.at \in Nat
           /\ \/ Len(feed) = 0 /\ fix.at = 0
              \/ "late" \in faults /\ \E i \in 1 .. Len(feed) : fix.at < feed[i].at
              \/ \E i \in 1 .. Len(feed), g \in Steps :
                   /\ g \in Nat /\ fix.at = feed[i].at + g
                   /\ \A j \in 1 .. Len(feed) : feed[j].at <= feed[i].at
    BY <1>5, PublishMove
  <2>2. \A g \in Steps : g < MaxGap /\ g > 0
    BY <1>1, ReliableFaults DEF Steps
  <2>3. /\ Len(feed') = n /\ feed'[n] = fix /\ \A i \in 1 .. Len(feed) : feed'[i] = feed[i]
        /\ \A i \in 1 .. n : i = n \/ i \in 1 .. Len(feed)
        /\ n \in Nat /\ n - 1 = Len(feed)
    BY <1>4, <2>1
  <2> HIDE DEF n
  <2>4. FeedIds'
    <3>1. \A k \in 1 .. Len(feed) : feed[k].id \in 1 .. Len(feed)
      BY ONLY <1>1, <1>2 DEF FeedIds
    <3>2. n \in 1 .. n
      BY ONLY <1>2, <2>3
    <3> QED
      BY ONLY <1>1, <2>1, <2>3, <3>1, <3>2 DEF FeedIds
  \* Whatever arrives is late, or within MaxGap of the newest, and never at its time.
  <2>5. \/ fix.at = 0 /\ Len(feed) = 0
        \/ \E i \in 1 .. Len(feed) : fix.at < feed[i].at
        \/ /\ \E i \in 1 .. Len(feed) : fix.at < feed[i].at + MaxGap
           /\ \A j \in 1 .. Len(feed) : feed[j].at < fix.at
    <3>1. ASSUME NEW i \in 1 .. Len(feed), NEW g \in Steps, g \in Nat, fix.at = feed[i].at + g,
                 \A j \in 1 .. Len(feed) : feed[j].at <= feed[i].at
          PROVE  /\ fix.at < feed[i].at + MaxGap
                 /\ \A j \in 1 .. Len(feed) : feed[j].at < fix.at
      BY ONLY <1>2, <2>2, <3>1
    <3> QED
      BY ONLY <2>1, <3>1, Zenon
  <2>6. InGap'
    <3>1. fix.at = 0 \/ \E m \in 1 .. (n - 1) : fix.at < feed[m].at + MaxGap
      BY ONLY <1>2, <2>1, <2>3, <2>5
    <3>2. \A k \in 1 .. n : \A m \in 1 .. (k - 1) : m \in 1 .. Len(feed)
      BY ONLY <1>2, <2>3
    <3>3. \A k \in 1 .. n : feed'[k].at = 0
                            \/ \E m \in 1 .. (k - 1) : feed'[k].at < feed[m].at + MaxGap
      BY ONLY <1>1, <2>3, <3>1 DEF InGap
    <3> QED
      BY ONLY <2>3, <3>2, <3>3, Zenon DEF InGap
  <2>7. Peaks'
    <3>1. \A a, b \in 1 .. n : a < b => a \in 1 .. Len(feed)
      BY ONLY <1>2, <2>3
    <3>2. \A a \in 1 .. Len(feed) : feed[a].at = fix.at => \E m \in 1 .. (n - 1) : fix.at < feed[m].at
      BY ONLY <1>2, <2>1, <2>3, <2>5
    <3>3. \A k \in 1 .. n : \A m \in 1 .. (k - 1) : m \in 1 .. Len(feed)
      BY ONLY <1>2, <2>3
    <3>4. \A a, b \in 1 .. n :
           a < b /\ feed'[a].id # feed'[b].id /\ feed'[a].at = feed'[b].at
             => \E m \in 1 .. (b - 1) : feed'[b].at < feed[m].at
      BY ONLY <1>1, <2>3, <3>1, <3>2 DEF Peaks
    <3> QED
      BY ONLY <2>3, <3>3, <3>4 DEF Peaks
  <2> QED
    BY <2>4, <2>6, <2>7
<1>6. ASSUME PublishAgain PROVE (FeedIds /\ InGap /\ Peaks)'
  <2>1. PICK i \in 1 .. Len(feed) : Waiting /\ Arrive(feed[i])
    BY <1>6, PublishAgainMove
  <2>2. /\ Len(feed') = n /\ feed'[n] = feed[i] /\ \A j \in 1 .. Len(feed) : feed'[j] = feed[j]
        /\ \A j \in 1 .. n : j = n \/ j \in 1 .. Len(feed)
        /\ n \in Nat /\ n - 1 = Len(feed)
    BY <1>4, <2>1
  <2> HIDE DEF n
  <2>3. FeedIds'
    <3>1. \A k \in 1 .. Len(feed) : feed[k].id \in 1 .. Len(feed)
      BY ONLY <1>1, <1>2 DEF FeedIds
    <3>2. feed[i].id \in 1 .. n
      BY ONLY <1>2, <2>1, <2>2, <3>1
    <3> QED
      BY ONLY <1>1, <2>1, <2>2, <3>1, <3>2 DEF FeedIds
  <2>4. \A k \in 1 .. n : \A m \in 1 .. (k - 1) : m \in 1 .. Len(feed)
    BY ONLY <1>2, <2>2
  <2>5. InGap'
    <3>1. feed[i].at < feed[i].at + MaxGap /\ i \in 1 .. (n - 1)
      BY ONLY <1>2, <2>1, <2>2
    <3>2. \A k \in 1 .. n : feed'[k].at = 0
                            \/ \E m \in 1 .. (k - 1) : feed'[k].at < feed[m].at + MaxGap
      BY ONLY <1>1, <2>1, <2>2, <3>1 DEF InGap
    <3> QED
      BY ONLY <2>2, <2>4, <3>2, Zenon DEF InGap
  <2>6. Peaks'
    <3>1. \A a, b \in 1 .. n : a < b => a \in 1 .. Len(feed)
      BY ONLY <1>2, <2>2
    <3>2. \A a \in 1 .. Len(feed) : feed[a].id # feed[i].id /\ feed[a].at = feed[i].at
             => \E m \in 1 .. (n - 1) : feed[i].at < feed[m].at
      <4>1. SUFFICES ASSUME NEW a \in 1 .. Len(feed), feed[a].id # feed[i].id, feed[a].at = feed[i].at
                     PROVE  \E m \in 1 .. Len(feed) : feed[i].at < feed[m].at
        BY <2>2
      <4>2. a < i \/ i < a
        BY <1>2, <2>1, <4>1
      <4>3. \/ \E m \in 1 .. (i - 1) : feed[i].at < feed[m].at
            \/ \E m \in 1 .. (a - 1) : feed[a].at < feed[m].at
        BY ONLY <1>1, <2>1, <4>1, <4>2 DEF Peaks
      <4> QED
        BY ONLY <1>2, <2>1, <4>1, <4>3
    <3>3. \A a, b \in 1 .. n :
           a < b /\ feed'[a].id # feed'[b].id /\ feed'[a].at = feed'[b].at
             => \E m \in 1 .. (b - 1) : feed'[b].at < feed[m].at
      BY ONLY <1>1, <2>1, <2>2, <3>1, <3>2 DEF Peaks
    <3> QED
      BY ONLY <2>2, <2>4, <3>3 DEF Peaks
  <2> QED
    BY <2>3, <2>5, <2>6
<1>7. UNCHANGED feed \/ Publish \/ PublishAgain
  BY DEF Next, vars, tables, Receive, Insert, InsertFails, Engine, Persist, PersistFails, Save,
         SaveFails, Show, Commit, Crash, ExpirePrevPos
<1> QED
  BY <1>3, <1>5, <1>6, <1>7

\* The key of the previous position is at or after a time.
Behind(t) == redis.prevpos # None /\ t <= redis.prevpos.at

\* The consumer is at most one position ahead of its commit, and only between two
\* positions; nothing it has left behind is newer than prevpos; prevpos is that of the
\* position being handled once all is written.
ConsumerInv ==
  Reliable =>
    /\ job.pc # "poll" => job.quality = "VALID" /\ committed = next - 1
    /\ committed \in {next - 1, next - 2}
    /\ \A k \in 1 .. (next - 1) : Behind(feed[k].at)
    /\ \A s \in seen : /\ s \in 1 .. Len(feed)
                       /\ \/ Behind(feed[s].at)
                          \/ job.pc \in {"engine", "write"} /\ feed[s] = feed[next]
    /\ job.pc = "write" => /\ job.out.keys.prevpos = feed[next]
                           /\ ~OutOfOrder(redis.prevpos)
                           /\ Left = 0 => redis.prevpos = feed[next]

LEMMA ConsumerInit == Init => ConsumerInv
  BY DEF Init, Idle, ConsumerInv

LEMMA ConsumerStep ==
  TypeInv /\ TypeInv' /\ TodoInv /\ FeedInv /\ ConsumerInv /\ [Next]_vars => ConsumerInv'
<1> SUFFICES ASSUME TypeInv, TypeInv', TodoInv, FeedInv, ConsumerInv, [Next]_vars, Reliable'
             PROVE  ConsumerInv'
  BY DEF ConsumerInv
<1>0. Reliable /\ Reliable'
  BY FaultsKept DEF Reliable
<1>1. /\ job.pc # "poll" => job.quality = "VALID" /\ committed = next - 1
      /\ committed \in {next - 1, next - 2}
      /\ \A k \in 1 .. (next - 1) : Behind(feed[k].at)
      /\ \A s \in seen : /\ s \in 1 .. Len(feed)
                         /\ \/ Behind(feed[s].at)
                            \/ job.pc \in {"engine", "write"} /\ feed[s] = feed[next]
      /\ job.pc = "write" => /\ job.out.keys.prevpos = feed[next]
                             /\ ~OutOfOrder(redis.prevpos)
                             /\ Left = 0 => redis.prevpos = feed[next]
  BY <1>0 DEF ConsumerInv
<1>2. /\ Len(feed) \in Nat /\ next \in Nat \ {0} /\ committed \in Nat /\ committed < next
      /\ next <= Len(feed) + 1
      /\ \A i \in 1 .. Len(feed) : feed[i].at \in Nat
      /\ redis.prevpos # None => redis.prevpos.at \in Nat
      /\ \A k \in 1 .. Len(feed) : feed[k].id \in 1 .. Len(feed) /\ feed[feed[k].id] = feed[k]
  <2>1. redis.prevpos # None => redis.prevpos.at \in Nat
    BY RedisType DEF TypeInv, TypeOK
  <2>2. \A k \in 1 .. Len(feed) : feed[k].id \in 1 .. Len(feed) /\ feed[feed[k].id] = feed[k]
    BY <1>0, Numbers DEF FeedInv, FeedIds
  <2> QED
    BY <2>1, <2>2, Numbers
<1>3. ASSUME Publish \/ PublishAgain PROVE ConsumerInv'
  <2>1. PICK fix : Waiting /\ Arrive(fix)
    BY <1>3 DEF Publish, PublishAgain
  <2>2. /\ job.pc = "poll" /\ next = Len(feed) + 1 /\ Len(feed') = Len(feed) + 1
        /\ \A i \in 1 .. Len(feed) : feed'[i] = feed[i] /\ i \in 1 .. Len(feed')
        /\ UNCHANGED <<next, committed, seen, job, redis>>
    BY <1>2, <2>1, ArriveMove
  <2> QED
    BY ONLY <1>0, <1>1, <1>2, <2>2 DEF ConsumerInv, Behind
\* Behind the position just handled.
<1>4. ASSUME next \in 1 .. Len(feed), committed = next - 1, Behind(feed[next].at),
             job'.pc = "poll", next' = next + 1, UNCHANGED <<feed, committed, seen, redis>>
      PROVE  ConsumerInv'
  <2>1. \A k \in 1 .. (next + 1 - 1) : k = next \/ k \in 1 .. (next - 1)
    BY <1>2
  <2>2. committed' \in {next' - 1, next' - 2}
    BY <1>2, <1>4
  <2> QED
    BY ONLY <1>0, <1>1, <1>4, <2>1, <2>2 DEF ConsumerInv, Behind
<1>5. ASSUME Receive PROVE ConsumerInv'
  <2>1. /\ job.pc = "poll" /\ next \in 1 .. Len(feed) /\ committed = next - 1
        /\ UNCHANGED <<feed, committed, seen, redis>>
        /\ \/ job'.pc = "poll" /\ next' = next + 1 /\ feed[next].id \in seen
           \/ next' = next /\ job'.pc = "insert" /\ job'.quality = "VALID"
    BY <1>0, <1>5, ReceiveMove, ReliableFaults
  <2>2. CASE job'.pc = "poll" /\ next' = next + 1 /\ feed[next].id \in seen
    BY <1>1, <1>2, <1>4, <2>1, <2>2
  <2>3. CASE next' = next /\ job'.pc = "insert" /\ job'.quality = "VALID"
    BY ONLY <1>0, <1>1, <2>1, <2>3 DEF ConsumerInv, Behind
  <2> QED
    BY <2>1, <2>2, <2>3
<1>6. ASSUME Insert PROVE ConsumerInv'
  <2>1. /\ job.pc = "insert" /\ next \in 1 .. Len(feed)
        /\ seen' = seen \cup {feed[next].id}
        /\ job'.pc = "engine" /\ job'.quality = job.quality
        /\ UNCHANGED <<feed, next, committed, redis>>
    BY <1>6, InsertMove
  <2> QED
    BY ONLY <1>0, <1>1, <1>2, <2>1 DEF ConsumerInv, Behind
<1>7. ASSUME Engine PROVE ConsumerInv'
  <2>1. job.pc = "engine" /\ next \in 1 .. Len(feed) /\ UNCHANGED <<feed, committed, seen, redis>>
    BY <1>7, EngineMove
  <2>2. CASE OutOfOrder(redis.prevpos)
    <3>1. job'.pc = "poll" /\ next' = next + 1
      BY <1>7, <2>2, EngineMove
    <3>2. Behind(feed[next].at)
      BY <1>2, <2>1, <2>2 DEF OutOfOrder, Behind
    <3> QED
      BY <1>1, <1>4, <2>1, <3>1, <3>2
  <2>3. CASE ~OutOfOrder(redis.prevpos)
    <3>1. /\ next' = next /\ job'.pc = "write" /\ job'.quality = job.quality
          /\ job'.out.keys.prevpos = Fix /\ job'.out \in Plans
          /\ job'.todo = job'.out.rows \o Keys
      BY <1>7, <2>3, EngineMove
    <3>2. Fix = feed[next]
      BY <1>1, <2>1 DEF Fix, Filtered, Flagged
    <3>3. Left' # 0
      <4>1. job'.out.rows \in Seq(Events)
        BY <3>1 DEF Plans
      <4>2. Len(job'.out.rows) \in Nat /\ Len(job'.todo) = Len(job'.out.rows) + 6
        BY <3>1, <4>1, FreshTodo
      <4> QED
        BY <4>2 DEF Left
    <3> QED
      BY ONLY <1>0, <1>1, <2>1, <2>3, <3>1, <3>2, <3>3 DEF ConsumerInv, Behind, OutOfOrder
  <2> QED
    BY <2>2, <2>3
<1>8. ASSUME Persist PROVE ConsumerInv'
  <2>1. /\ Works(Events) /\ job'.todo = Tail(job.todo)
        /\ job.pc = "write" /\ job'.pc = "write" /\ job'.out = job.out /\ job'.quality = job.quality
        /\ UNCHANGED <<feed, next, committed, seen, redis>>
    BY <1>8, PersistMove DEF Works
  <2>2. Left' # 0
    BY <2>1, WorkHead, WorkTail
  <2> QED
    BY ONLY <1>0, <1>1, <2>1, <2>2 DEF ConsumerInv, Behind, OutOfOrder
<1>9. ASSUME Save PROVE ConsumerInv'
  <2> DEFINE key == Head(job.todo)
  <2>1. /\ Works(RedisKeys) /\ job'.todo = Tail(job.todo)
        /\ redis' = [redis EXCEPT ![key] = job.out.keys[key]] /\ redis \in RedisValues
        /\ job.pc = "write" /\ job'.pc = "write" /\ job'.out = job.out /\ job'.quality = job.quality
        /\ next \in 1 .. Len(feed) /\ UNCHANGED <<feed, next, committed, seen>>
    BY <1>9, SaveMove DEF Works
  <2>2. Left \in 1 .. 6 /\ Left' = Left - 1 /\ key = Keys[7 - Left]
    BY <2>1, WorkHead, WorkTail
  <2>3. Left = 1 <=> key = "prevpos"
    BY ONLY <2>2, KeysType
  <2>4. redis'.prevpos = IF Left = 1 THEN feed[next] ELSE redis.prevpos
    BY <1>1, <2>1, <2>3 DEF RedisValues
  <2>5. feed[next] # None
    <3>1. feed[next] \in [id: Nat, at: Nat, speed: Nat, ign: Ignition]
      BY <2>1, Numbers DEF Fixes, Sources
    <3> QED
      BY <3>1, NoneAssumption
  <2>6. \A k \in 1 .. Len(feed) : Behind(feed[k].at) => Behind(feed[k].at)'
    BY ONLY <1>1, <1>2, <2>1, <2>4, <2>5 DEF Behind, OutOfOrder
  <2>7. ~OutOfOrder(redis.prevpos)'
    BY ONLY <1>1, <1>2, <2>1, <2>4 DEF OutOfOrder
  <2>8. Left' = 0 => redis'.prevpos = feed'[next']
    BY ONLY <2>1, <2>2, <2>4
  <2>9. \A k \in 1 .. (next - 1) : k \in 1 .. Len(feed)
    BY <1>2
  <2> QED
    BY ONLY <1>0, <1>1, <2>1, <2>6, <2>7, <2>8, <2>9 DEF ConsumerInv
<1>10. ASSUME Show PROVE ConsumerInv'
  <2>1. /\ job.pc = "write" /\ job.todo = <<>> /\ next \in 1 .. Len(feed)
        /\ job'.pc = "poll" /\ next' = next + 1
        /\ UNCHANGED <<feed, committed, seen, redis>>
    BY <1>10, ShowMove
  <2>2. redis.prevpos = feed[next] /\ feed[next] \in Fixes
    BY <1>1, <2>1, LeftType, Numbers
  <2>3. Behind(feed[next].at)
    <3>1. feed[next] # None
      BY <2>2, NoneAssumption DEF Fixes, Sources
    <3> QED
      BY <1>2, <2>1, <2>2, <3>1 DEF Behind
  <2>4. \A s \in seen : Behind(feed[s].at)
    BY <1>1, <2>3
  <2> QED
    BY <1>1, <1>4, <2>1, <2>3
<1>11. ASSUME Commit PROVE ConsumerInv'
  <2>1. UNCHANGED <<feed, next, seen, job, redis>> /\ committed' = next - 1
    BY <1>11, CommitMove
  <2> QED
    BY ONLY <1>0, <1>1, <2>1 DEF ConsumerInv, Behind, OutOfOrder, Left
<1>12. ASSUME Crash PROVE ConsumerInv'
  <2>1. /\ job'.pc = "poll" /\ seen' = {} /\ next' = committed + 1
        /\ UNCHANGED <<feed, committed, redis>>
    BY <1>12, CrashMove
  <2>2. committed' \in {next' - 1, next' - 2} /\ \A k \in 1 .. (next' - 1) : k \in 1 .. (next - 1)
    BY ONLY <1>2, <2>1
  <2> QED
    BY ONLY <1>0, <1>1, <2>1, <2>2 DEF ConsumerInv, Behind
<1>13. CASE UNCHANGED vars
  <2>1. UNCHANGED <<feed, next, committed, seen, job, redis>>
    BY <1>13, StutterMove
  <2> QED
    BY ONLY <1>0, <1>1, <2>1 DEF ConsumerInv, Behind, OutOfOrder, Left
<1>14. ~InsertFails /\ ~PersistFails /\ ~SaveFails /\ ~ExpirePrevPos
  BY <1>0, ReliableFaults, InsertFailsMove, PersistFailsMove, SaveFailsMove, ExpireMove
<1> QED
  BY <1>3, <1>5, <1>6, <1>7, <1>8, <1>9, <1>10, <1>11, <1>12, <1>13, <1>14 DEF Next

-----------------------------------------------------------------------------
(* What the tables of a reliable engine rest on *)

Consumer == TypeInv /\ TodoInv /\ FeedInv /\ ConsumerInv /\ Reliable

\* The position at next is the one to be handled, now or after a crash.
Ready == next <= Len(feed) /\ committed = next - 1 /\ ~OutOfOrder(redis.prevpos)
Pending(S) == \E j \in 1 .. Left : job.todo[j] \in S

LEMMA Working == Consumer /\ job.pc = "write" => Ready
  BY Numbers DEF Consumer, ConsumerInv, Ready

\* A position in order is newer than every other one that came before it.
LEMMA Newer ==
  ASSUME Consumer, job.pc = "write", NEW i \in 1 .. next, feed[i].id # feed[next].id
  PROVE  feed[i].at < feed[next].at
<1>1. /\ next \in 1 .. Len(feed) /\ Len(feed) \in Nat
      /\ \A k \in 1 .. Len(feed) : feed[k].at \in Nat
      /\ redis.prevpos # None => redis.prevpos.at \in Nat
  BY Numbers, RedisType DEF Consumer, TypeInv, TypeOK
<1>2. /\ \A k \in 1 .. (next - 1) : Behind(feed[k].at)
      /\ ~OutOfOrder(redis.prevpos) /\ Peaks
  BY DEF Consumer, ConsumerInv, FeedInv
<1>3. \A k \in 1 .. (next - 1) : feed[k].at <= feed[next].at /\ k \in 1 .. Len(feed)
  BY ONLY <1>1, <1>2 DEF Behind, OutOfOrder
<1>4. i \in 1 .. (next - 1) /\ i < next /\ i \in 1 .. Len(feed)
  BY <1>1
<1>5. ASSUME feed[i].at = feed[next].at PROVE FALSE
  <2>1. PICK m \in 1 .. (next - 1) : feed[next].at < feed[m].at
    BY <1>1, <1>2, <1>4, <1>5 DEF Peaks
  <2> QED
    BY <1>1, <1>3, <2>1
<1> QED
  BY <1>1, <1>3, <1>4, <1>5

\* No silence before it has reached MaxGap.
LEMMA NoBreak ==
  ASSUME Consumer, job.pc = "write"
  PROVE  ~(redis.prevpos # None /\ feed[next].at - redis.prevpos.at >= MaxGap)
<1>1. /\ next \in 1 .. Len(feed) /\ Len(feed) \in Nat
      /\ \A k \in 1 .. Len(feed) : feed[k].at \in Nat
      /\ redis.prevpos # None => redis.prevpos.at \in Nat
      /\ MaxGap \in Nat /\ MaxGap > 0
  BY Numbers, RedisType, ThresholdsAssumption DEF Consumer, TypeInv, TypeOK
<1>2. /\ \A k \in 1 .. (next - 1) : Behind(feed[k].at)
      /\ feed[next].at = 0 \/ \E m \in 1 .. (next - 1) : feed[next].at < feed[m].at + MaxGap
  BY <1>1 DEF Consumer, ConsumerInv, FeedInv, InGap
<1>3. \A k \in 1 .. (next - 1) : k \in 1 .. Len(feed)
  BY <1>1
<1>4. feed[next].at \in Nat /\ MaxGap \in Nat
  BY <1>1
<1>5. ASSUME redis.prevpos # None PROVE feed[next].at < redis.prevpos.at + MaxGap
  <2>1. redis.prevpos.at \in Nat /\ \A k \in 1 .. (next - 1) : feed[k].at <= redis.prevpos.at
    BY ONLY <1>1, <1>2, <1>5 DEF Behind
  <2>2. CASE feed[next].at = 0
    BY ONLY <1>1, <2>1, <2>2
  <2>3. ASSUME NEW m \in 1 .. (next - 1), feed[next].at < feed[m].at + MaxGap
        PROVE  feed[next].at < redis.prevpos.at + MaxGap
    <3>1. feed[m].at \in Nat /\ feed[m].at <= redis.prevpos.at
      BY ONLY <1>1, <1>3, <2>1, <2>3
    <3> QED
      BY ONLY <1>4, <2>1, <2>3, <3>1
  <2> QED
    BY ONLY <1>2, <2>2, <2>3
<1>6. redis.prevpos # None => redis.prevpos.at \in Nat
  BY <1>1
<1> QED
  BY ONLY <1>4, <1>5, <1>6

TripStep == AdvanceTrip(redis.tripfsm, feed[next], redis.prevpos,
                        DistanceStep(feed[next], redis.prevpos, "VALID"))
IdleStep == AdvanceIdle(redis.idlefsm, feed[next])
ParkStep == AdvanceParking(redis.parkfsm, feed[next])

\* A list holds the event of a machine, if it has one, and no other event of its kind.
Lists(todo, S, events) ==
    /\ \A j \in 1 .. Len(todo) : todo[j] \in S => events = <<todo[j]>>
    /\ events # <<>> => \E j \in 1 .. Len(todo) : todo[j] \in S

\* Statements of three machines: those of the first one are told apart by their names.
Mixed(rows, S, T, U, p, q, r) ==
    /\ S \cap T = {} /\ S \cap U = {}
    /\ "engine.hours.flushed" \notin S /\ S \cap RedisKeys = {}
    /\ p = <<>> \/ \E e \in S : p = <<e>>
    /\ q = <<>> \/ \E e \in T : q = <<e>>
    /\ r = <<>> \/ \E e \in U : r = <<e>>
    /\ \A x \in 1 .. Len(rows) :
         \/ p = <<rows[x]>> \/ q = <<rows[x]>> \/ r = <<rows[x]>>
         \/ rows[x] = "engine.hours.flushed"
    /\ p # <<>> => \E x \in 1 .. Len(rows) : p = <<rows[x]>>

LEMMA ToldApart ==
  ASSUME NEW rows, NEW S, NEW T, NEW U, NEW p, NEW q, NEW r, NEW todo, Mixed(rows, S, T, U, p, q, r),
         \A j \in 1 .. Len(todo) : \/ j \in 1 .. Len(rows) /\ todo[j] = rows[j]
                              \/ todo[j] \in RedisKeys,
         \A x \in 1 .. Len(rows) : x \in 1 .. Len(todo) /\ todo[x] = rows[x]
  PROVE  Lists(todo, S, p)
<1> USE DEF Mixed
<1>1. \A f : f \in S => q # <<f>> /\ r # <<f>>
  <2>1. \A f : f \in S => f \notin T /\ f \notin U
    OBVIOUS
  <2>2. \A f : f \notin T => q # <<f>>
    BY OtherEvent
  <2>3. \A f : f \notin U => r # <<f>>
    BY OtherEvent
  <2> QED
    BY ONLY <2>1, <2>2, <2>3
<1>2. ASSUME NEW j \in 1 .. Len(todo), todo[j] \in S PROVE p = <<todo[j]>>
  <2>1. j \in 1 .. Len(rows) /\ todo[j] = rows[j]
    BY <1>2
  <2> QED
    BY <1>1, <1>2, <2>1
<1>3. ASSUME p # <<>> PROVE \E j \in 1 .. Len(todo) : todo[j] \in S
  <2>1. PICK x \in 1 .. Len(rows) : p = <<rows[x]>>
    BY <1>3
  <2>2. rows[x] \in S
    BY <1>3, <2>1, OtherEvent
  <2> QED
    BY <2>1, <2>2
<1> QED
  BY ONLY <1>2, <1>3 DEF Lists

LEMMA FreshPlan ==
  ASSUME Consumer, TypeInv', Engine, job'.pc = "write"
  PROVE  /\ job'.out.keys.tripfsm = TripStep.state
         /\ job'.out.keys.idlefsm = IdleStep.state
         /\ job'.out.keys.parkfsm = ParkStep.state
         /\ Left' >= 6 /\ next' = next
         /\ TripStep' = TripStep /\ IdleStep' = IdleStep /\ ParkStep' = ParkStep
         /\ UNCHANGED <<feed, committed, seen, redis, trips, periods>>
         /\ Lists(job'.todo, TripEvents, TripStep.events)
         /\ Lists(job'.todo, IdleEvents, IdleStep.events)
         /\ Lists(job'.todo, ParkingEvents, ParkStep.events)
<1> DEFINE out == job'.out
           meter == AdvanceHours(redis.enginehours, Fix, redis.prevpos)
<1>1. /\ job.pc = "engine" /\ next \in 1 .. Len(feed)
      /\ UNCHANGED <<feed, committed, seen, redis, trips, periods>>
      /\ next' = next /\ out = Advance(Fix, job.quality) /\ out \in Plans
      /\ job'.todo = out.rows \o Keys /\ Fix \in Fixes
      /\ redis.prevpos # None => redis.prevpos.at <= Fix.at
  BY EngineMove DEF Consumer
<1>2. job.quality = "VALID" /\ Fix = feed[next]
  BY <1>1 DEF Consumer, ConsumerInv, Fix, Filtered, Flagged
<1>3. WrittenFrom(out, Fix, TripStep, IdleStep, ParkStep, meter)
  <2>1. /\ TripStep = AdvanceTrip(redis.tripfsm, Fix, redis.prevpos,
                                  DistanceStep(Fix, redis.prevpos, job.quality))
        /\ IdleStep = AdvanceIdle(redis.idlefsm, Fix) /\ ParkStep = AdvanceParking(redis.parkfsm, Fix)
        /\ TypeOK
    BY <1>2 DEF TripStep, IdleStep, ParkStep, Consumer, TypeInv
  <2> HIDE DEF out, meter
  <2>2. meter = AdvanceHours(redis.enginehours, Fix, redis.prevpos)
    BY DEF meter
  <2>3. redis.prevpos # None => redis.prevpos.at <= Fix.at
    BY ONLY <1>1
  <2> QED
    BY ONLY <1>1, <2>1, <2>2, <2>3, AdvanceParts
<1> HIDE DEF out, meter
<1>4. /\ Len(out.rows) \in Nat /\ Len(job'.todo) = Len(out.rows) + 6
      /\ \A j \in 1 .. Len(job'.todo) :
           job'.todo[j] = IF j <= Len(out.rows) THEN out.rows[j] ELSE Keys[j - Len(out.rows)]
  <2>1. out.rows \in Seq(Events) /\ job'.todo = out.rows \o Keys
    BY <1>1 DEF Plans
  <2> QED
    BY ONLY <2>1, FreshTodo
<1>6. \A j \in 1 .. Len(job'.todo) : \/ j \in 1 .. Len(out.rows) /\ job'.todo[j] = out.rows[j]
                            \/ job'.todo[j] \in RedisKeys
  <2>1. \A j \in 1 .. Len(job'.todo) : j <= Len(out.rows) \/ j - Len(out.rows) \in 1 .. 6
    BY ONLY <1>4
  <2>2. \A j \in 1 .. Len(job'.todo) : j <= Len(out.rows) => j \in 1 .. Len(out.rows)
    BY ONLY <1>4
  <2> QED
    BY ONLY <1>4, <2>1, <2>2, KeysType
<1>7. \A x \in 1 .. Len(out.rows) : x \in 1 .. Len(job'.todo) /\ job'.todo[x] = out.rows[x]
  BY ONLY <1>4
<1>8. /\ TripEvents \cap IdleEvents = {} /\ TripEvents \cap ParkingEvents = {}
      /\ IdleEvents \cap ParkingEvents = {}
      /\ TripEvents \cap RedisKeys = {} /\ IdleEvents \cap RedisKeys = {}
      /\ ParkingEvents \cap RedisKeys = {}
      /\ "engine.hours.flushed" \notin TripEvents /\ "engine.hours.flushed" \notin IdleEvents
      /\ "engine.hours.flushed" \notin ParkingEvents
  BY DEF TripEvents, IdleEvents, ParkingEvents, RedisKeys
<1>9. /\ TripStep.events = <<>> \/ \E e \in TripEvents : TripStep.events = <<e>>
      /\ IdleStep.events = <<>> \/ \E e \in IdleEvents : IdleStep.events = <<e>>
      /\ ParkStep.events = <<>> \/ \E e \in ParkingEvents : ParkStep.events = <<e>>
      /\ \A x \in 1 .. Len(out.rows) :
         \/ TripStep.events = <<out.rows[x]>>
         \/ IdleStep.events = <<out.rows[x]>>
         \/ ParkStep.events = <<out.rows[x]>>
         \/ out.rows[x] = "engine.hours.flushed"
      /\ TripStep.events # <<>> => \E x \in 1 .. Len(out.rows) : TripStep.events = <<out.rows[x]>>
      /\ IdleStep.events # <<>> => \E x \in 1 .. Len(out.rows) : IdleStep.events = <<out.rows[x]>>
      /\ ParkStep.events # <<>> => \E x \in 1 .. Len(out.rows) : ParkStep.events = <<out.rows[x]>>
  BY ONLY <1>3, Zenon DEF WrittenFrom
<1>11. /\ TripStep' = TripStep /\ IdleStep' = IdleStep /\ ParkStep' = ParkStep
  BY <1>1 DEF TripStep, IdleStep, ParkStep
<1>12. Lists(job'.todo, TripEvents, TripStep.events)
  <2>1. Mixed(out.rows, TripEvents, IdleEvents, ParkingEvents, TripStep.events, IdleStep.events, ParkStep.events)
    BY ONLY <1>8, <1>9 DEF Mixed
  <2> QED
    BY ONLY <1>6, <1>7, <2>1, ToldApart
<1>13. Lists(job'.todo, IdleEvents, IdleStep.events)
  <2>1. Mixed(out.rows, IdleEvents, TripEvents, ParkingEvents, IdleStep.events, TripStep.events, ParkStep.events)
    BY ONLY <1>8, <1>9 DEF Mixed
  <2> QED
    BY ONLY <1>6, <1>7, <2>1, ToldApart
<1>14. Lists(job'.todo, ParkingEvents, ParkStep.events)
  <2>1. Mixed(out.rows, ParkingEvents, TripEvents, IdleEvents, ParkStep.events, TripStep.events, IdleStep.events)
    BY ONLY <1>8, <1>9 DEF Mixed
  <2> QED
    BY ONLY <1>6, <1>7, <2>1, ToldApart
<1>15. Left' >= 6
  BY <1>4 DEF Left
<1>16. /\ out.keys.tripfsm = TripStep.state /\ out.keys.idlefsm = IdleStep.state
       /\ out.keys.parkfsm = ParkStep.state
  BY ONLY <1>3 DEF WrittenFrom
<1> QED
  BY ONLY <1>1, <1>11, <1>12, <1>13, <1>14, <1>15, <1>16 DEF out

-----------------------------------------------------------------------------
(* The table of trips *)

\* The table shows a trip exactly when the machine is on one.
Agrees(s) == IF s.state = "STOP" THEN Active = {} ELSE \E i \in Sources : Active = {i}

\* The table is ahead of the machine: the statement of the position at next has been
\* executed, its key not yet saved, and to execute it again changes nothing.
TripAhead ==
    /\ TripStep.events # <<>> /\ Agrees(TripStep.state)
    /\ TripStep.events = <<"trip.started">> => trips[feed[next].id] # "NONE"

\* A trip was opened by a position that moved, and has been closed by a newer one.
Opened == \A i \in Sources :
            trips[i] # "NONE" => /\ i \in 1 .. Len(feed) /\ i <= committed + 1
                                 /\ feed[i].speed >= StartSpeed
Past(t) == \/ redis.prevpos # None /\ t < redis.prevpos.at
           \/ next <= Len(feed) /\ committed = next - 1 /\ t < feed[next].at
Closed == \A i \in Sources : trips[i] \in {"COMPLETED", "DISCARDED"} => Past(feed[i].at)

TripSettled ==
    \/ Agrees(redis.tripfsm)
    \/ /\ Ready /\ TripAhead
       /\ job.pc = "poll" => feed[next].id \notin seen
       /\ job.pc = "write" => Left >= 6
TripPlanned ==
    job.pc = "write" /\ Left >= 6 =>
      /\ job.out.keys.tripfsm = TripStep.state
      /\ \A j \in 1 .. Left : job.todo[j] \in TripEvents => TripStep.events = <<job.todo[j]>>
      /\ TripStep.events # <<>> => Pending(TripEvents) \/ TripAhead
TripInv == Reliable => Opened /\ Closed /\ TripSettled /\ TripPlanned

LEMMA TripInit == Init => TripInv
  BY DEF Init, Idle, InitialTrip, TripInv, Opened, Closed, TripSettled, TripPlanned, Agrees, Active

\* What a position does to the machine of a reliable engine.
LEMMA TripStepResult ==
  ASSUME Consumer, job.pc = "write"
  PROVE  \/ TripStep.events = <<>> /\ (TripStep.state.state = "STOP" <=> redis.tripfsm.state = "STOP")
         \/ /\ TripStep.events = <<"trip.started">> /\ redis.tripfsm.state = "STOP"
            /\ feed[next].speed >= StartSpeed /\ TripStep.state.state = "MOVING"
         \/ /\ TripStep.events = <<"trip.ended">> \/ TripStep.events = <<"trip.discarded">>
            /\ redis.tripfsm.state # "STOP" /\ TripStep.state.state = "STOP"
            /\ ~(feed[next].speed >= StartSpeed)
<1> DEFINE step == DistanceStep(feed[next], redis.prevpos, "VALID")
<1>1. /\ redis.prevpos \in Fixes \cup {None} /\ redis.tripfsm \in TripStates
      /\ feed[next] \in Fixes /\ step \in {0, 1}
  BY Numbers DEF Consumer, TypeInv, TypeOK, RedisValues, DistanceStep
<1>2. TripStep = AdvanceTrip(redis.tripfsm, feed[next], redis.prevpos, step)
  BY DEF TripStep
<1> HIDE DEF step
<1>3. \/ TripStep.events = <<>> /\ (TripStep.state.state = "STOP" <=> redis.tripfsm.state = "STOP")
      \/ /\ TripStep.events = <<"trip.started">> /\ redis.tripfsm.state = "STOP"
         /\ feed[next].speed >= StartSpeed /\ TripStep.state.state = "MOVING"
      \/ /\ TripStep.events = <<"trip.ended">> \/ TripStep.events = <<"trip.discarded">>
         /\ redis.tripfsm.state # "STOP" /\ TripStep.state.state = "STOP"
         /\ \/ ~(feed[next].speed >= StartSpeed)
            \/ redis.prevpos # None /\ feed[next].at - redis.prevpos.at >= MaxGap
  BY ONLY <1>1, <1>2, TripResult
<1> QED
  BY ONLY <1>3, Consumer, job.pc = "write", NoBreak

\* The status of one row changes.
LEMMA TripsExcept ==
  ASSUME TypeInv, NEW i \in Sources, NEW s, trips' = [trips EXCEPT ![i] = s]
  PROVE  /\ trips'[i] = s /\ \A k \in Sources \ {i} : trips'[k] = trips[k]
         /\ s = "ACTIVE" => Active' = Active \cup {i}
         /\ s # "ACTIVE" => Active' = Active \ {i}
  BY DEF TypeInv, TypeOK, Active

\* Executing the statement of a trip event puts the table ahead of the machine.
LEMMA TripExecuted ==
  ASSUME Consumer, Opened, Closed, Agrees(redis.tripfsm) \/ TripAhead,
         job.pc = "write", NEW e \in TripEvents, TripStep.events = <<e>>,
         Execute(e, feed[next].id), UNCHANGED <<feed, next, committed, redis>>
  PROVE  Opened' /\ Closed' /\ TripAhead'
<1> DEFINE n == feed[next].id
<1>1. /\ next \in 1 .. Len(feed) /\ Len(feed) \in Nat /\ n \in 1 .. next /\ n \in Sources
      /\ feed[n] = feed[next] /\ n \in 1 .. Len(feed) /\ committed = next - 1
      /\ n <= committed + 1 /\ committed \in Nat
  <2>1. next \in 1 .. Len(feed) /\ Len(feed) \in Nat /\ n \in Sources
    BY Numbers DEF Consumer
  <2>2. n \in 1 .. next /\ feed[n] = feed[next] /\ committed = next - 1
    BY <2>1 DEF Consumer, FeedInv, FeedIds, ConsumerInv
  <2> QED
    BY <2>1, <2>2
<1>2. ~OutOfOrder(redis.prevpos)
  BY DEF Consumer, ConsumerInv
<1>3. feed[next].at \in Nat
  BY <1>1, Numbers DEF Consumer
<1>4. TripStep' = TripStep /\ \A t : Past(t)' <=> Past(t)
  BY DEF TripStep, Past
<1>5. TypeInv
  BY DEF Consumer
<1> HIDE DEF n
<1>6. ~Past(feed[next].at)
  BY ONLY <1>2, <1>3, <1>1 DEF Past, OutOfOrder
<1>7. CASE e = "trip.started"
  <2>1. /\ redis.tripfsm.state = "STOP" /\ feed[next].speed >= StartSpeed
        /\ TripStep.state.state = "MOVING"
    BY <1>7, TripStepResult
  <2>2. insertTripStart(n)
    BY <1>7 DEF Execute, PeriodEvents, n
  <2>3. CASE trips[n] = "NONE"
    <3>1. Active = {}
      BY <1>7, <2>1, <2>3 DEF Agrees, TripAhead, n
    <3>2. trips' = [trips EXCEPT ![n] = "ACTIVE"]
      BY <2>2, <2>3 DEF insertTripStart
    <3>3. /\ trips'[n] = "ACTIVE" /\ \A k \in Sources \ {n} : trips'[k] = trips[k]
          /\ Active' = {n}
      BY <1>1, <1>5, <3>1, <3>2, TripsExcept
    <3>4. Opened'
      BY ONLY <1>1, <2>1, <3>3, Opened, UNCHANGED <<feed, committed>> DEF Opened
    <3>5. Closed'
      BY ONLY <1>4, <3>3, Closed, UNCHANGED feed DEF Closed
    <3>6. TripAhead'
      BY ONLY <1>1, <1>4, <1>7, <2>1, <3>3, TripStep.events = <<e>>, UNCHANGED <<feed, next>>
         DEF TripAhead, Agrees, n
    <3> QED
      BY <3>4, <3>5, <3>6
  <2>4. CASE trips[n] # "NONE"
    <3>1. UNCHANGED trips
      BY <2>2, <2>4 DEF insertTripStart
    <3>2. TripAhead
      <4>1. CASE Agrees(redis.tripfsm)
        <5>1. trips[n] # "ACTIVE"
          BY <1>1, <2>1, <4>1 DEF Agrees, Active
        <5>2. trips[n] \in {"COMPLETED", "DISCARDED"}
          BY <1>1, <1>5, <2>4, <5>1 DEF TypeInv, TypeOK
        <5> QED
          BY <1>1, <1>6, <5>2 DEF Closed
      <4> QED
        BY <4>1
    <3> QED
      BY <1>4, <3>1, <3>2 DEF Opened, Closed, TripAhead, Agrees, Active
  <2> QED
    BY <2>3, <2>4
<1>8. ASSUME e \in {"trip.ended", "trip.discarded"} PROVE Opened' /\ Closed' /\ TripAhead'
  <2>1. /\ redis.tripfsm.state # "STOP" /\ TripStep.state.state = "STOP"
        /\ ~(feed[next].speed >= StartSpeed) /\ TripStep.events # <<>>
        /\ TripStep.events # <<"trip.started">>
    BY <1>8, TripStepResult
  <2>2. PICK outcome \in {"COMPLETED", "DISCARDED"} : closeTrip(outcome)
    BY <1>8 DEF Execute, PeriodEvents
  <2>3. CASE Active = {} /\ UNCHANGED trips
    BY <1>4, <2>1, <2>3 DEF Opened, Closed, TripAhead, Agrees, Active
  <2>4. ASSUME NEW i \in Active, trips' = [trips EXCEPT ![i] = outcome]
        PROVE  Opened' /\ Closed' /\ TripAhead'
    <3>1. i \in Sources /\ trips[i] = "ACTIVE" /\ Active # {}
      BY <2>4 DEF Active
    <3>2. Active = {i}
      BY <2>1, <2>4, <3>1 DEF Agrees, TripAhead
    <3>3. trips'[i] = outcome /\ (\A k \in Sources \ {i} : trips'[k] = trips[k]) /\ Active' = {}
      BY <1>5, <2>4, <3>1, <3>2, TripsExcept
    <3>4. i \in 1 .. Len(feed) /\ i <= committed + 1 /\ feed[i].speed >= StartSpeed
      BY <3>1 DEF Opened
    <3>5. i \in 1 .. next
      BY <1>1, <3>4
    <3>6. feed[i].id # feed[next].id
      <4>1. feed[feed[i].id] = feed[i] /\ feed[feed[next].id] = feed[next]
        BY <1>1, <3>4 DEF Consumer, FeedInv, FeedIds
      <4> QED
        BY <2>1, <3>4, <4>1
    <3>7. feed[i].at < feed[next].at
      BY <3>5, <3>6, Newer
    <3>8. Past(feed[i].at)
      BY <1>1, <3>7 DEF Past
    <3>9. Opened'
      BY ONLY <3>1, <3>3, <3>4, Opened, UNCHANGED <<feed, committed>> DEF Opened
    <3>10. Closed'
      BY ONLY <1>4, <3>3, <3>8, Closed, UNCHANGED feed DEF Closed
    <3>11. TripAhead'
      BY ONLY <1>4, <2>1, <3>3 DEF TripAhead, Agrees
    <3> QED
      BY <3>9, <3>10, <3>11
  <2> QED
    BY <2>2, <2>3, <2>4 DEF closeTrip, Newest
<1> QED
  BY <1>7, <1>8 DEF TripEvents

\* The parts that only read the topic, the tables and the keys.
LEMMA TripFrame ==
  ASSUME UNCHANGED <<feed, next, committed, redis, trips>>
  PROVE  /\ Opened' <=> Opened
         /\ Closed' <=> Closed
         /\ Ready' <=> Ready
         /\ TripAhead' <=> TripAhead
         /\ Agrees(redis.tripfsm)' <=> Agrees(redis.tripfsm)
         /\ TripStep' = TripStep
<1>1. TripStep' = TripStep
  BY DEF TripStep
<1>2. Active' = Active
  BY DEF Active
<1>3. \A t : Past(t)' <=> Past(t)
  BY DEF Past
<1>4. \A s : Agrees(s)' <=> Agrees(s)
  BY <1>2 DEF Agrees
<1> QED
  BY <1>1, <1>3, <1>4 DEF Opened, Closed, Ready, OutOfOrder, TripAhead, Agrees

LEMMA TripTableStep ==
  TypeInv' /\ Consumer /\ ConsumerInv' /\ TripInv /\ [Next]_vars => TripInv'
<1> SUFFICES ASSUME TypeInv', Consumer, ConsumerInv', TripInv, [Next]_vars PROVE TripInv'
  OBVIOUS
<1>0. Reliable' <=> Reliable
  BY FaultsKept DEF Reliable
<1>1. Opened /\ Closed /\ TripSettled /\ TripPlanned /\ Reliable /\ TypeInv
  BY DEF TripInv, Consumer
<1>2. /\ Len(feed) \in Nat /\ next \in Nat \ {0} /\ committed \in Nat /\ committed < next
      /\ next <= Len(feed) + 1
      /\ \A i \in 1 .. Len(feed) : feed[i].at \in Nat /\ feed[feed[i].id] = feed[i]
      /\ redis.prevpos # None => redis.prevpos.at \in Nat
      /\ job.pc # "poll" => committed = next - 1
      /\ committed \in {next - 1, next - 2}
  <2>1. redis.prevpos # None => redis.prevpos.at \in Nat
    BY RedisType DEF Consumer, TypeInv, TypeOK
  <2>2. \A i \in 1 .. Len(feed) : feed[feed[i].id] = feed[i]
    BY DEF Consumer, FeedInv, FeedIds
  <2>3. /\ job.pc # "poll" => committed = next - 1
        /\ committed \in {next - 1, next - 2}
    BY DEF Consumer, ConsumerInv
  <2> QED
    BY <1>1, <2>1, <2>2, <2>3, Numbers
<1>3. ASSUME Publish \/ PublishAgain PROVE TripInv'
  <2>1. PICK fix : Waiting /\ Arrive(fix)
    BY <1>3 DEF Publish, PublishAgain
  <2>2. /\ job.pc = "poll" /\ next = Len(feed) + 1 /\ Len(feed') = Len(feed) + 1
        /\ \A i \in 1 .. Len(feed) : feed'[i] = feed[i] /\ i \in 1 .. Len(feed')
        /\ UNCHANGED <<next, committed, seen, job, redis, trips>>
    BY <1>1, <1>2, <2>1, ArriveMove
  <2>3. Opened'
    BY ONLY <1>1, <1>2, <2>2 DEF Opened
  <2>4. Closed'
    <3>1. \A t : Past(t) => Past(t)'
      BY ONLY <1>2, <2>2 DEF Past
    <3>2. \A i \in Sources : trips[i] \in {"COMPLETED", "DISCARDED"} => i \in 1 .. Len(feed)
      BY <1>1 DEF Opened
    <3> QED
      BY ONLY <1>1, <2>2, <3>1, <3>2 DEF Closed
  <2>5. Agrees(redis.tripfsm)'
    <3>1. Agrees(redis.tripfsm)
      BY <1>1, <1>2, <2>2 DEF TripSettled, Ready
    <3> QED
      BY <2>2, <3>1 DEF Agrees, Active
  <2> QED
    BY <2>2, <2>3, <2>4, <2>5 DEF TripInv, TripSettled, TripPlanned
\* Behind the position at next: it has been handled, or was older than prevpos.
<1>4. ASSUME next \in 1 .. Len(feed), Agrees(redis.tripfsm), Behind(feed[next].at),
             job'.pc = "poll", next' = next + 1, UNCHANGED <<feed, committed, redis, trips>>
      PROVE  TripInv'
  <2>1. Agrees(redis.tripfsm)'
    BY <1>4 DEF Agrees, Active
  <2>2. Opened'
    BY ONLY <1>1, <1>4 DEF Opened
  <2>3. Closed'
    <3>1. \A i \in Sources : trips[i] \in {"COMPLETED", "DISCARDED"} =>
            i \in 1 .. Len(feed) /\ feed[i].at \in Nat
      BY <1>1, <1>2 DEF Opened
    <3>2. feed[next].at \in Nat
      BY <1>2, <1>4
    <3>3. \A t \in Nat : Past(t) => Past(t)'
      BY ONLY <1>2, <1>4, <3>2 DEF Past, Behind
    <3> QED
      BY ONLY <1>1, <1>4, <3>1, <3>3 DEF Closed
  <2> QED
    BY <1>4, <2>1, <2>2, <2>3 DEF TripInv, TripSettled, TripPlanned
\* The handler moves on without touching what the table is compared with.
<1>5. ASSUME UNCHANGED <<feed, next, committed, redis, trips>>,
             job'.pc = "poll" => feed'[next'].id \notin seen',
             job'.pc # "write"
      PROVE  TripInv'
  BY <1>1, <1>5, TripFrame DEF TripInv, TripSettled, TripPlanned
<1>6. ASSUME Receive PROVE TripInv'
  <2>1. /\ job.pc = "poll" /\ next \in 1 .. Len(feed)
        /\ UNCHANGED <<feed, committed, seen, redis, trips>>
        /\ \/ job'.pc = "poll" /\ next' = next + 1 /\ feed[next].id \in seen
           \/ next' = next /\ job'.pc = "insert"
    BY <1>1, <1>6, ReceiveMove, ReliableFaults
  <2>2. CASE job'.pc = "poll" /\ next' = next + 1 /\ feed[next].id \in seen
    <3>1. Agrees(redis.tripfsm)
      BY <1>1, <2>1, <2>2 DEF TripSettled
    <3>2. Behind(feed[next].at)
      BY <1>2, <2>1, <2>2 DEF Consumer, ConsumerInv
    <3> QED
      BY <1>4, <2>1, <2>2, <3>1, <3>2
  <2>3. CASE next' = next /\ job'.pc = "insert"
    BY <1>5, <2>1, <2>3
  <2> QED
    BY <2>1, <2>2, <2>3
<1>7. ASSUME Insert PROVE TripInv'
  BY <1>1, <1>5, <1>7, InsertMove
<1>8. ASSUME Engine PROVE TripInv'
  <2>1. job.pc = "engine" /\ next \in 1 .. Len(feed) /\ UNCHANGED <<feed, committed, seen, redis, trips>>
    BY <1>1, <1>8, EngineMove
  <2>2. CASE OutOfOrder(redis.prevpos)
    <3>1. job'.pc = "poll" /\ next' = next + 1
      BY <1>1, <1>8, <2>2, EngineMove
    <3>2. Behind(feed[next].at)
      BY <1>2, <2>1, <2>2 DEF OutOfOrder, Behind
    <3>3. Agrees(redis.tripfsm)
      BY <1>1, <2>2 DEF TripSettled, Ready
    <3> QED
      BY <1>4, <2>1, <3>1, <3>2, <3>3
  <2>3. CASE ~OutOfOrder(redis.prevpos)
    <3>1. job'.pc = "write"
      BY <1>1, <1>8, <2>3, EngineMove
    <3>2. /\ job'.out.keys.tripfsm = TripStep.state /\ Left' >= 6 /\ next' = next
          /\ TripStep' = TripStep /\ Lists(job'.todo, TripEvents, TripStep.events)
      BY <1>8, <3>1, FreshPlan
    <3>3. TripPlanned'
      BY ONLY <3>2 DEF TripPlanned, Lists, Pending, Left
    <3>4. Opened' /\ Closed' /\ TripSettled'
      BY <1>1, <2>1, <3>1, <3>2, TripFrame DEF TripSettled
    <3> QED
      BY <3>3, <3>4 DEF TripInv
  <2> QED
    BY <2>2, <2>3
<1>9. ASSUME Persist PROVE TripInv'
  <2> DEFINE e == Head(job.todo)
  <2>1. /\ Works(Events) /\ job'.todo = Tail(job.todo)
        /\ Execute(e, feed[next].id)
        /\ job.pc = "write" /\ job'.pc = "write" /\ job'.out = job.out
        /\ UNCHANGED <<feed, next, committed, seen, redis>>
    BY <1>1, <1>9, PersistMove DEF Works
  <2>2. /\ Left \in Nat /\ Left > 6 /\ Left' = Left - 1 /\ e = job.todo[1]
        /\ \A j \in 1 .. Left' : job'.todo[j] = job.todo[j + 1]
    BY <2>1, WorkHead, WorkTail DEF Consumer
  <2>3. TripStep' = TripStep
    BY <2>1 DEF TripStep
  <2>4. /\ job.out.keys.tripfsm = TripStep.state
        /\ \A j \in 1 .. Left : job.todo[j] \in TripEvents => TripStep.events = <<job.todo[j]>>
        /\ TripStep.events # <<>> => Pending(TripEvents) \/ TripAhead
        /\ Agrees(redis.tripfsm) \/ TripAhead
    BY <1>1, <2>1, <2>2 DEF TripPlanned, TripSettled
  <2>5. \A j \in 1 .. Left' : j + 1 \in 1 .. Left
    BY ONLY <2>2
  <2>6. Left' >= 6
    BY <2>2
  <2>7. CASE e \in TripEvents
    <3>1. TripStep.events = <<e>>
      BY <2>2, <2>4, <2>7
    <3>2. Opened' /\ Closed' /\ TripAhead'
      BY <1>1, <2>1, <2>4, <2>7, <3>1, TripExecuted
    <3>3. Ready'
      BY <2>1, Working DEF Ready, OutOfOrder
    <3>4. TripSettled'
      BY <2>1, <2>6, <3>2, <3>3 DEF TripSettled
    <3>5. TripPlanned'
      <4>1. \A j \in 1 .. Left' : job'.todo[j] \in TripEvents => TripStep.events = <<job'.todo[j]>>
        BY ONLY <2>2, <2>4, <2>5
      <4> QED
        BY <2>1, <2>3, <2>4, <3>2, <4>1 DEF TripPlanned
    <3> QED
      BY <3>2, <3>4, <3>5 DEF TripInv
  <2>8. CASE e \notin TripEvents
    <3>1. UNCHANGED trips
      BY <2>1, <2>8 DEF Execute, TripEvents
    <3>2. Opened' /\ Closed' /\ TripSettled'
      BY <1>1, <2>1, <2>6, <3>1, TripFrame DEF TripSettled
    <3>3. Pending(TripEvents) => Pending(TripEvents)'
      <4>1. ASSUME NEW j \in 1 .. Left, job.todo[j] \in TripEvents PROVE Pending(TripEvents)'
        <5>1. j # 1
          BY <2>2, <2>8, <4>1
        <5>2. j - 1 \in 1 .. Left' /\ j - 1 + 1 = j
          BY ONLY <2>2, <4>1, <5>1
        <5>3. job'.todo[j - 1] \in TripEvents
          BY ONLY <2>2, <4>1, <5>2
        <5> QED
          BY <5>2, <5>3 DEF Pending
      <4> QED
        BY <4>1 DEF Pending
    <3>4. \A j \in 1 .. Left' : job'.todo[j] \in TripEvents => TripStep.events = <<job'.todo[j]>>
      BY ONLY <2>2, <2>4, <2>5
    <3>5. TripAhead => TripAhead'
      BY <2>1, <3>1, TripFrame
    <3>6. TripPlanned'
      BY ONLY <2>1, <2>3, <2>4, <3>3, <3>4, <3>5 DEF TripPlanned
    <3> QED
      BY <3>2, <3>6 DEF TripInv
  <2> QED
    BY <2>7, <2>8
<1>10. ASSUME Save PROVE TripInv'
  <2> DEFINE key == Head(job.todo)
  <2>1. /\ Works(RedisKeys) /\ job'.todo = Tail(job.todo) /\ UNCHANGED <<feed, next, committed, trips>>
        /\ redis' = [redis EXCEPT ![key] = job.out.keys[key]] /\ redis \in RedisValues
        /\ job.pc = "write" /\ job'.pc = "write" /\ next \in 1 .. Len(feed)
    BY <1>1, <1>10, SaveMove DEF Works
  <2>2. Left \in 1 .. 6 /\ Left' = Left - 1 /\ key = Keys[7 - Left]
    BY <2>1, WorkHead, WorkTail DEF Consumer
  <2>3. (Left = 6 <=> key = "tripfsm") /\ (Left = 1 <=> key = "prevpos")
    BY ONLY <2>2, KeysType
  <2>4. /\ redis'.tripfsm = IF Left = 6 THEN job.out.keys.tripfsm ELSE redis.tripfsm
        /\ redis'.prevpos = IF Left = 1 THEN feed[next] ELSE redis.prevpos
    <3>1. job.out.keys.prevpos = feed[next]
      BY <2>1 DEF Consumer, ConsumerInv
    <3> QED
      BY <2>1, <2>3, <3>1 DEF RedisValues
  <2>5. Agrees(redis'.tripfsm)
    <3>1. CASE Left = 6
      <4>1. /\ job.out.keys.tripfsm = TripStep.state
            /\ TripStep.events # <<>> => Pending(TripEvents) \/ TripAhead
        BY <1>1, <2>1, <3>1 DEF TripPlanned
      <4>2. ~Pending(TripEvents)
        <5>1. \A j \in 1 .. Left : job.todo[j] = Keys[j]
          BY <2>1, <3>1 DEF Consumer, TodoInv, Planned
        <5>2. \A j \in 1 .. Left : job.todo[j] \in RedisKeys
          BY ONLY <3>1, <5>1, KeysType
        <5> QED
          BY <5>2 DEF Pending, TripEvents, RedisKeys
      <4>3. CASE TripStep.events # <<>>
        BY <2>4, <3>1, <4>1, <4>2, <4>3 DEF TripAhead
      <4>4. CASE TripStep.events = <<>>
        <5>1. TripStep.state.state = "STOP" <=> redis.tripfsm.state = "STOP"
          BY <2>1, <4>4, TripStepResult
        <5>2. Agrees(redis.tripfsm)
          BY <1>1, <4>4 DEF TripSettled, TripAhead
        <5> QED
          BY <2>4, <3>1, <4>1, <5>1, <5>2 DEF Agrees
      <4> QED
        BY <4>3, <4>4
    <3>2. CASE Left # 6
      BY <1>1, <2>1, <2>2, <2>4, <3>2 DEF TripSettled
    <3> QED
      BY <3>1, <3>2
  <2>6. Agrees(redis.tripfsm)'
    BY <2>1, <2>5 DEF Agrees, Active
  <2>7. Opened'
    BY ONLY <1>1, <2>1 DEF Opened
  <2>8. Closed'
    <3>1. ~OutOfOrder(redis.prevpos) /\ committed = next - 1 /\ feed[next].at \in Nat /\ next <= Len(feed)
      BY <1>2, <2>1 DEF Consumer, ConsumerInv
    <3>2. \A i \in Sources : trips[i] \in {"COMPLETED", "DISCARDED"} =>
            i \in 1 .. Len(feed) /\ feed[i].at \in Nat
      BY <1>1, <1>2 DEF Opened
    <3>3. \A t \in Nat : Past(t) => Past(t)'
      BY ONLY <1>2, <2>1, <2>4, <3>1 DEF Past, OutOfOrder
    <3> QED
      BY ONLY <1>1, <2>1, <3>2, <3>3 DEF Closed
  <2>9. ~(Left' >= 6)
    BY <2>2
  <2> QED
    BY <2>6, <2>7, <2>8, <2>9 DEF TripInv, TripSettled, TripPlanned
<1>11. ASSUME Show PROVE TripInv'
  <2>1. /\ job.pc = "write" /\ job.todo = <<>> /\ next \in 1 .. Len(feed)
        /\ job'.pc = "poll" /\ next' = next + 1
        /\ UNCHANGED <<feed, committed, seen, redis, trips>>
    BY <1>1, <1>11, ShowMove
  <2>2. Left = 0
    BY <1>1, <2>1, LeftType
  <2>3. Agrees(redis.tripfsm)
    BY <1>1, <2>1, <2>2 DEF TripSettled
  <2>4. Behind(feed[next].at)
    <3>1. redis.prevpos = feed[next] /\ feed[next] \in Fixes
      BY <1>1, <2>1, <2>2, Numbers DEF Consumer, ConsumerInv
    <3>2. feed[next] # None
      BY <3>1, NoneAssumption DEF Fixes, Sources
    <3> QED
      BY <1>2, <2>1, <3>1, <3>2 DEF Behind
  <2> QED
    BY <1>4, <2>1, <2>3, <2>4
<1>12. ASSUME Commit PROVE TripInv'
  <2>1. UNCHANGED <<feed, next, seen, job, redis, trips>> /\ committed < next - 1 /\ committed' = next - 1
    BY <1>12, CommitMove
  <2>2. job.pc = "poll"
    BY <1>2, <2>1
  <2>3. Agrees(redis.tripfsm)
    BY <1>1, <1>2, <2>1 DEF TripSettled, Ready
  <2>4. Agrees(redis.tripfsm)'
    BY <2>1, <2>3 DEF Agrees, Active
  <2>5. Opened'
    BY ONLY <1>1, <1>2, <2>1 DEF Opened
  <2>6. Closed'
    <3>1. \A t : Past(t) => Past(t)'
      BY ONLY <1>2, <2>1 DEF Past
    <3> QED
      BY ONLY <1>1, <2>1, <3>1 DEF Closed
  <2> QED
    BY <2>1, <2>2, <2>4, <2>5, <2>6 DEF TripInv, TripSettled, TripPlanned
<1>13. ASSUME Crash PROVE TripInv'
  <2>1. /\ job'.pc = "poll" /\ seen' = {} /\ next' = committed + 1
        /\ UNCHANGED <<feed, committed, redis, trips>>
    BY <1>13, CrashMove
  <2>2. CASE committed = next - 1
    <3>1. next' = next
      BY <1>2, <2>1, <2>2
    <3> QED
      BY <1>5, <2>1, <3>1
  <2>3. CASE committed = next - 2
    <3>1. Agrees(redis.tripfsm)
      BY <1>1, <1>2, <2>3 DEF TripSettled, Ready
    <3>2. Agrees(redis.tripfsm)'
      BY <2>1, <3>1 DEF Agrees, Active
    <3>3. \A t : Past(t) => Past(t)'
      BY ONLY <1>2, <2>1, <2>3 DEF Past
    <3>4. Opened' /\ Closed'
      BY ONLY <1>1, <2>1, <3>3 DEF Opened, Closed
    <3> QED
      BY <2>1, <3>2, <3>4 DEF TripInv, TripSettled, TripPlanned
  <2> QED
    BY <1>2, <2>2, <2>3
<1>14. CASE UNCHANGED vars
  <2>1. UNCHANGED <<feed, next, committed, seen, job, redis, trips>>
    BY <1>14, StutterMove
  <2> QED
    BY <1>1, <2>1, TripFrame DEF TripInv, TripSettled, TripPlanned, Left, Pending
<1>15. ~InsertFails /\ ~PersistFails /\ ~SaveFails /\ ~ExpirePrevPos
  BY <1>1, ReliableFaults, InsertFailsMove, PersistFailsMove, SaveFailsMove, ExpireMove
<1> QED
  BY <1>3, <1>6, <1>7, <1>8, <1>9, <1>10, <1>11, <1>12, <1>13, <1>14, <1>15 DEF Next

\* A trip is opened only while the table shows none.
LEMMA OpensAlone ==
  ASSUME Consumer, TripInv, Persist, Head(job.todo) = "trip.started",
         trips[feed[next].id] = "NONE"
  PROVE  Active = {}
<1>1. Works(Events) /\ job.pc = "write"
  BY PersistMove DEF Consumer, Works
<1>2. Left \in Nat /\ Left > 6 /\ job.todo[1] = "trip.started"
  BY <1>1, WorkHead DEF Consumer
<1>3. TripStep.events = <<"trip.started">>
  <2>1. /\ \A j \in 1 .. Left : job.todo[j] \in TripEvents => TripStep.events = <<job.todo[j]>>
        /\ 1 \in 1 .. Left /\ job.todo[1] \in TripEvents
    BY <1>1, <1>2 DEF Consumer, TripInv, TripPlanned, TripEvents
  <2> QED
    BY ONLY <1>2, <2>1
<1>4. redis.tripfsm.state = "STOP"
  BY <1>1, <1>3, TripStepResult
<1>5. Agrees(redis.tripfsm)
  BY <1>3 DEF Consumer, TripInv, TripSettled, TripAhead
<1> QED
  BY <1>4, <1>5 DEF Agrees

ReliableInv == TypeInv /\ TodoInv /\ FeedInv /\ ConsumerInv /\ TripInv

LEMMA ReliableInvHolds == Spec => []ReliableInv
<1>1. Init => ReliableInv
  BY TypeInit, TodoInit, FeedInit, ConsumerInit, TripInit DEF ReliableInv
<1>2. ReliableInv /\ [Next]_vars => ReliableInv'
  <2> SUFFICES ASSUME ReliableInv, [Next]_vars PROVE ReliableInv'
    OBVIOUS
  <2>1. TypeInv' /\ TodoInv' /\ FeedInv'
    BY TypeStep, TodoStep, FeedStep DEF ReliableInv
  <2>2. ConsumerInv'
    BY <2>1, ConsumerStep DEF ReliableInv
  <2>3. CASE Reliable
    BY <2>1, <2>2, <2>3, TripTableStep DEF ReliableInv, Consumer
  <2>4. CASE ~Reliable
    <3>1. ~Reliable'
      BY <2>4, FaultsKept DEF Reliable
    <3> QED
      BY <2>1, <2>2, <3>1 DEF ReliableInv, TripInv
  <2> QED
    BY <2>3, <2>4
<1> QED
  BY <1>1, <1>2, PTL DEF Spec

\* When a reliable engine has caught up, the table shows an open trip exactly when the
\* machine is on one, and never two: whatever was crashed, repeated or late on the way.
THEOREM OneTripIsOpen == Spec => []OpenIffOnTrip
<1>1. ReliableInv => OpenIffOnTrip
  <2> SUFFICES ASSUME ReliableInv, Reliable, Caught
               PROVE  Cardinality(Active) = (IF OnTrip THEN 1 ELSE 0)
    BY DEF OpenIffOnTrip
  <2>1. Agrees(redis.tripfsm)
    <3>1. next \in Nat /\ Len(feed) \in Nat /\ next > Len(feed)
      BY Numbers DEF ReliableInv, Caught
    <3> QED
      BY <3>1 DEF ReliableInv, TripInv, TripSettled, Ready
  <2>2. CASE OnTrip
    <3>1. PICK i \in Sources : Active = {i}
      BY <2>1, <2>2 DEF Agrees, OnTrip
    <3>2. Cardinality({i}) = 1
      BY FS_Singleton
    <3> QED
      BY <2>2, <3>1, <3>2
  <2>3. CASE ~OnTrip
    <3>1. Active = {}
      BY <2>1, <2>3 DEF Agrees, OnTrip
    <3>2. Cardinality({}) = 0
      BY FS_EmptySet
    <3> QED
      BY <2>3, <3>1, <3>2
  <2> QED
    BY <2>2, <2>3
<1> QED
  BY <1>1, ReliableInvHolds, PTL

\* The table of trips implements TripLedger: every trip is opened once and closed once,
\* with all faults the model has, and a reliable engine opens one only after the last
\* one has been closed.
THEOREM TripsImplementTheLedger == Spec => LedgerSpec
<1>1. Init => Ledger!Init
  BY DEF Init, Ledger!Init, Reliable
<1>2. ReliableInv /\ [Next]_vars => [Ledger!Next]_<<trips, Reliable>>
  <2> SUFFICES ASSUME ReliableInv, [Next]_vars PROVE [Ledger!Next]_<<trips, Reliable>>
    OBVIOUS
  <2>1. Reliable' = Reliable
    BY FaultsKept DEF Reliable
  <2>2. Persist \/ UNCHANGED trips
    BY DEF Next, vars, tables, Publish, PublishAgain, Arrive, Receive, Insert, InsertFails, Engine,
           PersistFails, Save, SaveFails, Show, Commit, Crash, ExpirePrevPos, Fail
  <2> SUFFICES ASSUME Persist, trips' # trips PROVE Ledger!Next
    BY <2>1, <2>2
  <2> DEFINE n == feed[next].id
             e == Head(job.todo)
  <2>3. Execute(e, n) /\ n \in Sources
    BY <2>2, PersistMove, Numbers DEF ReliableInv, Works
  <2>4. CASE e = "trip.started"
    <3>1. insertTripStart(n)
      BY <2>3, <2>4 DEF Execute, PeriodEvents
    <3>2. trips[n] = "NONE" /\ trips' = [trips EXCEPT ![n] = "ACTIVE"]
      BY <3>1 DEF insertTripStart
    <3>3. Reliable => Active = {}
      BY <2>2, <2>4, <3>2, OpensAlone DEF ReliableInv, Consumer
    <3>4. Ledger!Open(n)
      BY ONLY <2>1, <3>2, <3>3, Zenon DEF Ledger!Open, Ledger!ActiveTrips, Active
    <3> QED
      BY <2>3, <3>4 DEF Ledger!Next
  <2>5. ASSUME e # "trip.started" PROVE Ledger!Next
    <3>1. PICK outcome \in {"COMPLETED", "DISCARDED"} : closeTrip(outcome)
      BY <2>3, <2>5 DEF Execute, PeriodEvents
    <3>2. PICK i \in Active : trips' = [trips EXCEPT ![i] = outcome]
      BY <3>1 DEF closeTrip, Newest
    <3>3. i \in Sources /\ trips[i] = "ACTIVE"
      BY DEF Active
    <3>4. Ledger!Close(i)
      BY <2>1, <3>2, <3>3 DEF Ledger!Close
    <3> QED
      BY <3>3, <3>4 DEF Ledger!Next
  <2> QED
    BY <2>4, <2>5
<1> QED
  BY <1>1, <1>2, ReliableInvHolds, PTL DEF Spec, LedgerSpec, Ledger!Spec

-----------------------------------------------------------------------------
(* Counting the periods a table leaves open *)

Starts == {"idle.started", "parking.started"}
Ends == {"idle.ended", "parking.ended", "parking.tamper"}
Worth(event) == IF event \in Starts THEN 1 ELSE IF event \in Ends THEN -1 ELSE 0

OfKind(S, X) == {r \in S : r.event \in X}

LEMMA OpenNothing == Open({}) = 0
<1>1. /\ {r \in {} : r.event \in {"idle.started", "parking.started"}} = {}
      /\ {r \in {} : r.event \in {"idle.ended", "parking.ended", "parking.tamper"}} = {}
  OBVIOUS
<1> QED
  BY <1>1, FS_EmptySet DEF Open

LEMMA OpenOneMore ==
  ASSUME NEW S, IsFiniteSet(S), NEW r, r \notin S
  PROVE  Open(S) \in Int /\ Open(S \cup {r}) = Open(S) + Worth(r.event)
<1>1. ASSUME NEW X
      PROVE  /\ Cardinality(OfKind(S, X)) \in Nat
             /\ Cardinality(OfKind(S \cup {r}, X)) =
                  Cardinality(OfKind(S, X)) + (IF r.event \in X THEN 1 ELSE 0)
  <2>1. OfKind(S, X) \subseteq S /\ r \notin OfKind(S, X)
    BY DEF OfKind
  <2>2. IsFiniteSet(OfKind(S, X)) /\ Cardinality(OfKind(S, X)) \in Nat
    BY <2>1, FS_Subset, FS_CardinalityType
  <2>3. CASE r.event \in X
    <3>1. OfKind(S \cup {r}, X) = OfKind(S, X) \cup {r}
      BY <2>3 DEF OfKind
    <3>2. Cardinality(OfKind(S, X) \cup {r}) = Cardinality(OfKind(S, X)) + 1
      BY ONLY <2>1, <2>2, FS_AddElement
    <3> QED
      BY <2>2, <2>3, <3>1, <3>2
  <2>4. CASE r.event \notin X
    <3>1. OfKind(S \cup {r}, X) = OfKind(S, X)
      BY <2>4 DEF OfKind
    <3> QED
      BY <2>2, <2>4, <3>1
  <2> QED
    BY <2>3, <2>4
<1>2. \A T : Open(T) = Cardinality(OfKind(T, Starts)) - Cardinality(OfKind(T, Ends))
  <2> SUFFICES ASSUME NEW T PROVE Open(T) = Cardinality(OfKind(T, Starts)) - Cardinality(OfKind(T, Ends))
    OBVIOUS
  <2> QED
    BY Zenon DEF Open, OfKind, Starts, Ends
<1>3. r.event \in Starts => r.event \notin Ends
  BY DEF Starts, Ends
<1>4. /\ Open(S) = Cardinality(OfKind(S, Starts)) - Cardinality(OfKind(S, Ends))
      /\ Open(S \cup {r}) = Cardinality(OfKind(S \cup {r}, Starts)) - Cardinality(OfKind(S \cup {r}, Ends))
  BY <1>2
<1>5. /\ Cardinality(OfKind(S, Starts)) \in Nat /\ Cardinality(OfKind(S, Ends)) \in Nat
      /\ Cardinality(OfKind(S \cup {r}, Starts)) =
           Cardinality(OfKind(S, Starts)) + (IF r.event \in Starts THEN 1 ELSE 0)
      /\ Cardinality(OfKind(S \cup {r}, Ends)) =
           Cardinality(OfKind(S, Ends)) + (IF r.event \in Ends THEN 1 ELSE 0)
  BY <1>1
<1> QED
  BY ONLY <1>3, <1>4, <1>5 DEF Worth

-----------------------------------------------------------------------------
(* The tables of idling and parking *)

PeriodTables == {"idle", "parking"}
EventsOf(t) == IF t = "idle" THEN IdleEvents ELSE ParkingEvents
PeriodStep(t) == IF t = "idle" THEN IdleStep ELSE ParkStep
Within(t, keys) == IF t = "idle" THEN keys.idlefsm.state = "IDLE" ELSE keys.parkfsm.state = "PARKED"
After(t) == IF t = "idle" THEN IdleStep.state.state = "IDLE" ELSE ParkStep.state.state = "PARKED"
Standing(t, fix) == fix.speed <= IdleSpeed /\ fix.ign = (IF t = "idle" THEN "on" ELSE "off")
Want(inside) == IF inside THEN 1 ELSE 0

\* What a position does to the machine of a table.
LEMMA PeriodStepResult ==
  ASSUME TypeInv, next \in 1 .. Len(feed), NEW t \in PeriodTables
  PROVE  \/ PeriodStep(t).events = <<>> /\ (After(t) <=> Within(t, redis))
         \/ \E e \in EventsOf(t) :
              /\ PeriodStep(t).events = <<e>>
              /\ e \in Starts <=> ~Within(t, redis)
              /\ e \in Ends <=> ~After(t)
              /\ e \in Ends <=> ~Standing(t, feed[next])
              /\ ~(e \in Starts /\ e \in Ends)
<1>1. redis.idlefsm \in IdleStates /\ redis.parkfsm \in ParkingStates /\ feed[next] \in Fixes
  BY Numbers DEF TypeInv, TypeOK, RedisValues
<1>2. CASE t = "idle"
  <2>1. \/ IdleStep.events = <<>> /\ IdleStep.state.state = redis.idlefsm.state
        \/ /\ IdleStep.events = <<"idle.started">> /\ redis.idlefsm.state = "ACTIVE"
           /\ IdleStep.state.state = "IDLE" /\ Idling(feed[next])
        \/ /\ IdleStep.events = <<"idle.ended">> /\ redis.idlefsm.state = "IDLE"
           /\ IdleStep.state.state = "ACTIVE" /\ ~Idling(feed[next])
        \/ /\ IdleStep.events = <<"idle.alert">> /\ redis.idlefsm.state = "IDLE"
           /\ IdleStep.state.state = "IDLE" /\ Idling(feed[next])
    <3>1. IdleStep = AdvanceIdle(redis.idlefsm, feed[next])
      BY DEF IdleStep
    <3> QED
      BY ONLY <1>1, <3>1, IdleResult
  <2>2. Standing("idle", feed[next]) <=> Idling(feed[next])
    BY DEF Standing, Idling
  <2>3. /\ PeriodStep(t) = IdleStep /\ EventsOf(t) = {"idle.started", "idle.ended", "idle.alert"}
        /\ Within(t, redis) <=> redis.idlefsm.state = "IDLE"
        /\ After(t) <=> IdleStep.state.state = "IDLE"
    BY <1>2 DEF PeriodStep, EventsOf, IdleEvents, Within, After
  <2>4. /\ "idle.started" \in Starts /\ "idle.ended" \in Ends
        /\ "idle.started" \notin Ends /\ "idle.ended" \notin Starts
        /\ "idle.alert" \notin Starts /\ "idle.alert" \notin Ends
    BY DEF Starts, Ends
  <2> QED
    BY ONLY <1>2, <2>1, <2>2, <2>3, <2>4
<1>3. CASE t = "parking"
  <2>1. \/ ParkStep.events = <<>> /\ ParkStep.state.state = redis.parkfsm.state
        \/ /\ ParkStep.events = <<"parking.started">> /\ redis.parkfsm.state = "UNPARKED"
           /\ ParkStep.state.state = "PARKED" /\ Parked(feed[next])
        \/ /\ ParkStep.events = <<"parking.ended">> \/ ParkStep.events = <<"parking.tamper">>
           /\ redis.parkfsm.state = "PARKED"
           /\ ParkStep.state.state = "UNPARKED" /\ ~Parked(feed[next])
    <3>1. ParkStep = AdvanceParking(redis.parkfsm, feed[next])
      BY DEF ParkStep
    <3> QED
      BY ONLY <1>1, <3>1, ParkingResult
  <2>2. Standing("parking", feed[next]) <=> Parked(feed[next])
    BY DEF Standing, Parked
  <2>3. /\ PeriodStep(t) = ParkStep
        /\ EventsOf(t) = {"parking.started", "parking.ended", "parking.tamper"}
        /\ Within(t, redis) <=> redis.parkfsm.state = "PARKED"
        /\ After(t) <=> ParkStep.state.state = "PARKED"
    BY <1>3 DEF PeriodStep, EventsOf, ParkingEvents, Within, After
  <2>4. /\ "parking.started" \in Starts /\ "parking.ended" \in Ends /\ "parking.tamper" \in Ends
        /\ "parking.started" \notin Ends /\ "parking.ended" \notin Starts
        /\ "parking.tamper" \notin Starts
    BY DEF Starts, Ends
  <2> QED
    BY ONLY <1>3, <2>1, <2>2, <2>3, <2>4
<1> QED
  BY <1>2, <1>3 DEF PeriodTables

\* The rows say which position each event is from and whether the vehicle was standing
\* there, at most one of a position in a table, and in the order of their times they
\* alternate.
Sound(row) ==
    /\ row.source \in 1 .. Len(feed) /\ row.source <= committed + 1
    /\ feed[row.source].id = row.source
    /\ row.event \in EventsOf(row.table)
    /\ row.event \in Ends <=> ~Standing(row.table, feed[row.source])
    /\ Open(Before(row)) = Want(row.event \notin Starts)
RowsInv ==
    /\ IsFiniteSet(periods)
    /\ \A row \in periods : Sound(row)
    /\ \A r, s \in periods : r.table = s.table /\ r.source = s.source => r = s

\* The table of a machine is ahead of it.
PeriodAhead(t) ==
    /\ PeriodStep(t).events # <<>> /\ Open(Rows(t)) = Want(After(t))
    /\ \E row \in Rows(t) : row.source = feed[next].id

\* How much is left when the key of a machine is next.
Last(t) == IF t = "idle" THEN 5 ELSE 4

Matches(t) == Open(Rows(t)) = Want(Within(t, redis))
PeriodSettled(t) ==
    \/ Matches(t)
    \/ /\ Ready /\ PeriodAhead(t)
       /\ job.pc = "poll" => feed[next].id \notin seen
       /\ job.pc = "write" => Left >= Last(t)
PeriodPlanned(t) ==
    job.pc = "write" /\ Left >= Last(t) =>
      /\ Within(t, job.out.keys) <=> After(t)
      /\ \A j \in 1 .. Left : job.todo[j] \in EventsOf(t) => PeriodStep(t).events = <<job.todo[j]>>
      /\ PeriodStep(t).events # <<>> => Pending(EventsOf(t)) \/ PeriodAhead(t)
PeriodInv == Reliable => RowsInv /\ \A t \in PeriodTables : PeriodSettled(t) /\ PeriodPlanned(t)

LEMMA PeriodInit == Init => PeriodInv
<1> SUFFICES ASSUME Init
             PROVE  RowsInv /\ \A t \in PeriodTables : PeriodSettled(t) /\ PeriodPlanned(t)
  BY DEF PeriodInv
<1>1. periods = {} /\ job.pc = "poll" /\ \A t \in PeriodTables : ~Within(t, redis)
  BY DEF Init, Idle, InitialIdle, InitialParking, Within
<1>2. RowsInv
  BY <1>1, FS_EmptySet DEF RowsInv
<1>3. \A t : Rows(t) = {}
  BY <1>1 DEF Rows
<1> QED
  BY <1>1, <1>2, <1>3, OpenNothing DEF PeriodSettled, PeriodPlanned, Matches, Want

LEMMA RowsFrame ==
  ASSUME RowsInv, UNCHANGED periods, committed \in Nat, committed' \in Nat, committed <= committed',
         Len(feed) \in Nat,
         \A i \in 1 .. Len(feed) : feed'[i] = feed[i] /\ i \in 1 .. Len(feed')
  PROVE  RowsInv' /\ \A t : Rows(t)' = Rows(t)
<1>1. \A t : Rows(t)' = Rows(t)
  BY DEF Rows
<1>2. \A row \in periods : row.source \in 1 .. Len(feed)
  BY DEF RowsInv, Sound
<1>3. ASSUME NEW row \in periods PROVE Before(row)' = Before(row)
  <2>1. \A r \in Rows(row.table) : r \in periods
    BY DEF Rows
  <2>2. \A r \in Rows(row.table) :
          feed'[r.source].at < feed'[row.source].at <=> feed[r.source].at < feed[row.source].at
    BY ONLY <1>2, <1>3, <2>1, \A i \in 1 .. Len(feed) : feed'[i] = feed[i]
  <2> QED
    BY ONLY <1>1, <2>2 DEF Before
<1>4. ASSUME NEW row \in periods
      PROVE  /\ row.source \in 1 .. Len(feed') /\ row.source <= committed' + 1
             /\ feed'[row.source] = feed[row.source]
  <2>1. row.source \in 1 .. Len(feed) /\ row.source <= committed + 1
    BY DEF RowsInv, Sound
  <2> QED
    BY <2>1
<1>5. ASSUME NEW row \in periods PROVE Sound(row)'
  <2>1. Sound(row)
    BY DEF RowsInv
  <2> QED
    BY ONLY <1>3, <1>4, <1>5, <2>1 DEF Sound
<1> QED
  BY ONLY <1>1, <1>5, RowsInv, UNCHANGED periods DEF RowsInv

\* Executing the statement of an event puts the table of its machine ahead of it.
LEMMA PeriodExecuted ==
  ASSUME Consumer, RowsInv, NEW t \in PeriodTables,
         Matches(t) \/ PeriodAhead(t),
         job.pc = "write", NEW e \in EventsOf(t), PeriodStep(t).events = <<e>>,
         insertPeriod(t, feed[next].id, e), UNCHANGED <<feed, next, committed, redis>>
  PROVE  /\ RowsInv' /\ PeriodAhead(t)'
         /\ \A u \in PeriodTables \ {t} : Rows(u)' = Rows(u)
<1>n. PICK n : n = feed[next].id
  OBVIOUS
<1>r. PICK row : row = [table |-> t, source |-> n, event |-> e]
  OBVIOUS
<1>1. /\ next \in 1 .. Len(feed) /\ Len(feed) \in Nat /\ n \in 1 .. next
      /\ feed[n] = feed[next] /\ n \in 1 .. Len(feed) /\ committed = next - 1
      /\ n <= committed + 1 /\ committed \in Nat /\ feed[n].id = n /\ TypeInv
  <2>1. next \in 1 .. Len(feed) /\ Len(feed) \in Nat /\ TypeInv
    BY Numbers DEF Consumer
  <2>2. n \in 1 .. next /\ feed[n] = feed[next] /\ committed = next - 1
    BY <1>n, <2>1 DEF Consumer, FeedInv, FeedIds, ConsumerInv
  <2> QED
    BY <1>n, <2>1, <2>2
<1>2. PeriodStep(t)' = PeriodStep(t) /\ (After(t)' <=> After(t))
  BY DEF PeriodStep, IdleStep, ParkStep, After
<1>3. /\ e \in Starts <=> ~Within(t, redis)
      /\ e \in Ends <=> ~After(t)
      /\ e \in Ends <=> ~Standing(t, feed[next])
      /\ ~(e \in Starts /\ e \in Ends)
      /\ PeriodStep(t).events # <<>>
  <2>0. PeriodStep(t).events # <<>>
    OBVIOUS
  <2>1. PICK f \in EventsOf(t) :
              /\ PeriodStep(t).events = <<f>>
              /\ f \in Starts <=> ~Within(t, redis)
              /\ f \in Ends <=> ~After(t)
              /\ f \in Ends <=> ~Standing(t, feed[next])
              /\ ~(f \in Starts /\ f \in Ends)
    BY ONLY <1>1, <2>0, t \in PeriodTables, PeriodStepResult
  <2>2. f = e
    BY <2>1
  <2> QED
    BY ONLY <2>0, <2>1, <2>2
<1>4. /\ row.table = t /\ row.source = n /\ row.event = e
  BY <1>r
\* Every other row of the table is from an earlier time.
<1>5. \A r \in Rows(t) : r.source = n \/ feed[r.source].at < feed[n].at
  <2> SUFFICES ASSUME NEW r \in Rows(t), r.source # n PROVE feed[r.source].at < feed[n].at
    OBVIOUS
  <2>1. r \in periods
    BY DEF Rows
  <2>2. r.source \in 1 .. next /\ feed[r.source].id = r.source
    BY <1>1, <2>1 DEF RowsInv, Sound
  <2>3. feed[r.source].id # feed[next].id
    BY <1>n, <2>2
  <2> QED
    BY <1>1, <1>n, <2>2, <2>3, Newer
<1>6. IsFiniteSet(Rows(t)) /\ Rows(t) \subseteq periods /\ \A r \in Rows(t) : r.table = t
  <2>1. Rows(t) \subseteq periods /\ \A r \in Rows(t) : r.table = t
    BY DEF Rows
  <2> QED
    BY <2>1, FS_Subset DEF RowsInv
<1>7. CASE \E r \in periods : r.table = t /\ r.source = n
  <2>1. PICK r \in periods : r.table = t /\ r.source = n
    BY <1>7
  <2>2. UNCHANGED periods
    BY <1>7, <1>n DEF insertPeriod
  <2>3. PeriodAhead(t)
    <3> SUFFICES ASSUME Open(Rows(t)) = Want(Within(t, redis)) PROVE PeriodAhead(t)
      BY DEF Matches
    <3>1. r \in Rows(t)
      BY <2>1 DEF Rows
    <3>2. Before(r) = Rows(t) \ {r}
      <4>1. \A s \in Rows(t) : s # r => s.source # n
        BY <1>6, <2>1 DEF RowsInv
      <4>2. ~(feed[n].at < feed[n].at)
        BY <1>1, Numbers
      <4>3. \A s \in Rows(t) : feed[s.source].at < feed[r.source].at <=> s # r
        BY ONLY <1>5, <2>1, <4>1, <4>2
      <4> QED
        BY ONLY <2>1, <4>3 DEF Before
    <3>3. Open(Rows(t)) = Open(Before(r)) + Worth(r.event)
      <4>1. Rows(t) = Before(r) \cup {r} /\ r \notin Before(r)
        BY <3>1, <3>2
      <4>2. IsFiniteSet(Before(r))
        BY <1>6, <3>2, FS_Subset
      <4> QED
        BY <4>1, <4>2, OpenOneMore
    <3>4. /\ Open(Before(r)) = Want(r.event \notin Starts)
          /\ r.event \in Ends <=> ~Standing(t, feed[next])
      BY <1>1, <2>1 DEF RowsInv, Sound
    <3>5. r.event \in Starts => r.event \notin Ends
      BY DEF Starts, Ends
    <3>6. Within(t, redis) <=> Standing(t, feed[next])
      BY ONLY <3>3, <3>4, <3>5, Open(Rows(t)) = Want(Within(t, redis)) DEF Want, Worth
    <3>7. Open(Rows(t)) = Want(After(t))
      BY ONLY <1>3, <3>6, Open(Rows(t)) = Want(Within(t, redis)) DEF Want
    <3> QED
      BY <1>3, <1>n, <2>1, <3>1, <3>7 DEF PeriodAhead
  <2>4. RowsInv' /\ \A u : Rows(u)' = Rows(u)
    BY <1>1, <2>2, RowsFrame
  <2>5. PeriodAhead(t)'
    BY ONLY <1>2, <2>3, <2>4, UNCHANGED <<feed, next>> DEF PeriodAhead, Want
  <2> QED
    BY <2>4, <2>5
<1>8. CASE ~\E r \in periods : r.table = t /\ r.source = n
  <2>1. periods' = periods \cup {row} /\ row \notin periods
    BY <1>4, <1>8, <1>n, <1>r DEF insertPeriod
  <2>2. \A r \in Rows(t) : r.source # n
    BY <1>6, <1>8
  <2>3. Rows(t)' = Rows(t) \cup {row} /\ row \notin Rows(t)
    BY <1>4, <1>6, <2>1 DEF Rows
  <2>4. \A u : u # t => Rows(u)' = Rows(u)
    BY ONLY <1>4, <2>1 DEF Rows
  <2>5. Open(Rows(t)) = Want(Within(t, redis))
    BY <1>n, <2>2 DEF PeriodAhead, Matches
  <2>6. Open(Rows(t))' = Want(After(t))
    <3>1. Open(Rows(t)') = Open(Rows(t)) + Worth(e)
      BY <1>4, <1>6, <2>3, OpenOneMore
    <3>2. Open(Rows(t)') = Want(After(t))
      BY ONLY <1>3, <2>5, <3>1 DEF Want, Worth
    <3> QED
      BY <3>2
  <2>7. PeriodAhead(t)'
    BY ONLY <1>2, <1>3, <1>4, <1>n, <2>3, <2>6, UNCHANGED <<feed, next>> DEF PeriodAhead, Want
  <2>8. Before(row)' = Rows(t)
    <3>1. \A r \in Rows(t) : feed[r.source].at < feed[n].at
      BY <1>5, <2>2
    <3>2. ~(feed[n].at < feed[n].at)
      BY <1>1, Numbers
    <3>3. Before(row)' = {r \in Rows(t)' : feed[r.source].at < feed[n].at}
      BY ONLY <1>4, UNCHANGED feed DEF Before
    <3> QED
      BY ONLY <1>4, <2>3, <3>1, <3>2, <3>3
  <2>9. ASSUME NEW r \in periods PROVE Before(r)' = Before(r)
    <3>1. Before(r)' = {s \in Rows(r.table)' : feed[s.source].at < feed[r.source].at}
      BY ONLY UNCHANGED feed DEF Before
    <3>2. CASE r.table # t
      BY ONLY <2>4, <3>1, <3>2 DEF Before
    <3>3. CASE r.table = t
      <4>1. feed[r.source].at < feed[n].at
        BY <1>5, <2>2, <3>3 DEF Rows
      <4>2. feed[r.source].at \in Nat /\ feed[n].at \in Nat
        BY <1>1, Numbers DEF RowsInv, Sound
      <4>3. ~(feed[row.source].at < feed[r.source].at)
        BY ONLY <1>4, <4>1, <4>2
      <4> QED
        BY ONLY <2>3, <3>1, <3>3, <4>3 DEF Before
    <3> QED
      BY <3>2, <3>3
  <2>10. RowsInv'
    <3>1. IsFiniteSet(periods')
      BY <2>1, FS_AddElement DEF RowsInv
    <3>2. \A r, s \in periods' : r.table = s.table /\ r.source = s.source => r = s
      BY ONLY <1>4, <1>8, <2>1, RowsInv DEF RowsInv
    <3>3. ASSUME NEW r \in periods PROVE Sound(r)'
      <4>1. Sound(r)
        BY DEF RowsInv
      <4> QED
        BY ONLY <2>9, <3>3, <4>1, UNCHANGED <<feed, committed>> DEF Sound
    <3>4. Sound(row)'
      BY ONLY <1>1, <1>3, <1>4, <2>5, <2>8, e \in EventsOf(t), UNCHANGED <<feed, committed>>
         DEF Sound, Want
    <3> QED
      BY ONLY <2>1, <3>1, <3>2, <3>3, <3>4 DEF RowsInv
  <2> QED
    BY <2>4, <2>7, <2>10
<1> QED
  BY <1>7, <1>8

LEMMA PeriodFrame ==
  ASSUME UNCHANGED <<feed, next, committed, redis>>, NEW t, UNCHANGED Rows(t)
  PROVE  /\ Ready' <=> Ready
         /\ PeriodAhead(t)' <=> PeriodAhead(t)
         /\ Within(t, redis)' <=> Within(t, redis)
         /\ Matches(t)' <=> Matches(t)
         /\ PeriodStep(t)' = PeriodStep(t)
         /\ After(t)' <=> After(t)
<1>1. PeriodStep(t)' = PeriodStep(t) /\ (After(t)' <=> After(t))
  BY DEF PeriodStep, IdleStep, ParkStep, After
<1>2. Within(t, redis)' <=> Within(t, redis)
  BY DEF Within
<1> QED
  BY <1>1, <1>2 DEF Ready, OutOfOrder, PeriodAhead, Matches, Want

\* The statement that is executed is that of the position being handled.
LEMMA PersistedPeriod ==
  ASSUME Consumer, PeriodInv, Persist, NEW t \in PeriodTables, Head(job.todo) \in EventsOf(t)
  PROVE  /\ RowsInv' /\ PeriodAhead(t)'
         /\ \A u \in PeriodTables \ {t} : Rows(u)' = Rows(u)
<1> DEFINE e == Head(job.todo)
<1>1. /\ Works(Events) /\ job.pc = "write" /\ Execute(e, feed[next].id)
      /\ UNCHANGED <<feed, next, committed, redis>>
  BY PersistMove DEF Consumer, Works
<1>2. Left \in Nat /\ Left > 6 /\ e = job.todo[1]
  BY <1>1, WorkHead DEF Consumer
<1>3. /\ \A j \in 1 .. Left : job.todo[j] \in EventsOf(t) => PeriodStep(t).events = <<job.todo[j]>>
      /\ Matches(t) \/ PeriodAhead(t)
      /\ RowsInv
  BY <1>1, <1>2 DEF Consumer, PeriodInv, PeriodPlanned, PeriodSettled, Last
<1>4. PeriodStep(t).events = <<e>>
  BY <1>2, <1>3
<1>5. insertPeriod(t, feed[next].id, e)
  BY <1>1 DEF Execute, PeriodTable, PeriodEvents, EventsOf, IdleEvents, ParkingEvents, PeriodTables
<1> QED
  BY <1>1, <1>3, <1>4, <1>5, PeriodExecuted

LEMMA RowsStep ==
  Consumer /\ TypeInv' /\ PeriodInv /\ [Next]_vars => RowsInv' /\ (Persist \/ \A t : Rows(t)' = Rows(t))
<1> SUFFICES ASSUME Consumer, TypeInv', PeriodInv, [Next]_vars
             PROVE  RowsInv' /\ (Persist \/ \A t : Rows(t)' = Rows(t))
  OBVIOUS
<1>1. RowsInv /\ TypeInv /\ Len(feed) \in Nat /\ committed \in Nat /\ next \in Nat
  BY Numbers DEF Consumer, PeriodInv
<1>2. ASSUME UNCHANGED <<periods, feed, committed>> PROVE RowsInv' /\ \A t : Rows(t)' = Rows(t)
  BY <1>1, <1>2, RowsFrame
<1>3. ASSUME Publish \/ PublishAgain PROVE RowsInv' /\ \A t : Rows(t)' = Rows(t)
  <2>1. PICK fix : Waiting /\ Arrive(fix)
    BY <1>3 DEF Publish, PublishAgain
  <2>2. /\ Len(feed') = Len(feed) + 1 /\ \A i \in 1 .. Len(feed) : feed'[i] = feed[i]
        /\ UNCHANGED <<committed, periods>>
    BY <1>1, <2>1, ArriveMove
  <2> QED
    BY <1>1, <2>2, RowsFrame
<1>4. ASSUME Commit PROVE RowsInv' /\ \A t : Rows(t)' = Rows(t)
  BY <1>1, <1>4, CommitMove, RowsFrame
<1>5. ASSUME Persist PROVE RowsInv'
  <2>1. Execute(Head(job.todo), feed[next].id) /\ UNCHANGED <<feed, committed>>
    BY <1>1, <1>5, PersistMove DEF Works
  <2>2. CASE Head(job.todo) \in PeriodEvents
    <3>1. PICK t \in PeriodTables : Head(job.todo) \in EventsOf(t)
      BY <2>2 DEF PeriodEvents, EventsOf, IdleEvents, ParkingEvents, PeriodTables
    <3> QED
      BY <1>5, <3>1, PersistedPeriod
  <2>3. CASE Head(job.todo) \notin PeriodEvents
    BY <1>2, <2>1, <2>3 DEF Execute
  <2> QED
    BY <2>2, <2>3
<1>6. ASSUME Receive \/ Insert \/ Engine \/ Save \/ Show \/ Crash \/ UNCHANGED vars
      PROVE  UNCHANGED <<periods, feed, committed>>
  BY <1>1, <1>6, ReceiveMove, InsertMove, EngineMove, SaveMove, ShowMove, CrashMove, StutterMove
     DEF Works, Insert
<1>7. ~InsertFails /\ ~PersistFails /\ ~SaveFails /\ ~ExpirePrevPos
  BY <1>1, ReliableFaults, InsertFailsMove, PersistFailsMove, SaveFailsMove, ExpireMove DEF Consumer
<1> QED
  BY <1>2, <1>3, <1>4, <1>5, <1>6, <1>7 DEF Next

LEMMA PeriodTableStep ==
  ASSUME TypeInv', Consumer, ConsumerInv', PeriodInv, [Next]_vars, NEW t \in PeriodTables
  PROVE  PeriodSettled(t)' /\ PeriodPlanned(t)'
<1>1. PeriodSettled(t) /\ PeriodPlanned(t) /\ Reliable /\ TypeInv
      /\ (Persist \/ Rows(t)' = Rows(t))
  BY RowsStep DEF PeriodInv, Consumer
<1>2. /\ Len(feed) \in Nat /\ next \in Nat \ {0} /\ committed \in Nat /\ committed < next
      /\ next <= Len(feed) + 1
      /\ job.pc # "poll" => committed = next - 1
      /\ committed \in {next - 1, next - 2}
      /\ Last(t) \in {4, 5}
  <2>1. /\ job.pc # "poll" => committed = next - 1
        /\ committed \in {next - 1, next - 2}
    BY DEF Consumer, ConsumerInv
  <2> QED
    BY <1>1, <2>1, Numbers DEF Last
\* Behind a position, or waiting at one: the machine and its table agree.
<1>3. ASSUME Matches(t), job'.pc = "poll", UNCHANGED <<redis, Rows(t)>>
      PROVE  PeriodSettled(t)' /\ PeriodPlanned(t)'
  <2>1. Matches(t)'
    BY <1>3 DEF Matches, Within, Want
  <2> QED
    BY <1>3, <2>1 DEF PeriodSettled, PeriodPlanned
\* The handler moves on without touching what the table is compared with.
<1>4. ASSUME UNCHANGED <<feed, next, committed, redis, Rows(t)>>,
             job'.pc = "poll" => feed'[next'].id \notin seen',
             job'.pc # "write"
      PROVE  PeriodSettled(t)' /\ PeriodPlanned(t)'
  BY <1>1, <1>4, PeriodFrame DEF PeriodSettled, PeriodPlanned
<1>5. ASSUME Publish \/ PublishAgain PROVE PeriodSettled(t)' /\ PeriodPlanned(t)'
  <2>1. PICK fix : Waiting /\ Arrive(fix)
    BY <1>5 DEF Publish, PublishAgain
  <2>2. /\ job.pc = "poll" /\ next = Len(feed) + 1 /\ UNCHANGED <<job, redis>>
        /\ UNCHANGED Rows(t)
    BY <1>1, <2>1, ArriveMove DEF Rows
  <2>3. Matches(t)
    BY <1>1, <1>2, <2>2 DEF PeriodSettled, Ready
  <2> QED
    BY <1>3, <2>2, <2>3
<1>6. ASSUME Receive PROVE PeriodSettled(t)' /\ PeriodPlanned(t)'
  <2>1. /\ job.pc = "poll" /\ next \in 1 .. Len(feed)
        /\ UNCHANGED <<feed, committed, seen, redis, Rows(t)>>
        /\ \/ job'.pc = "poll" /\ next' = next + 1 /\ feed[next].id \in seen
           \/ next' = next /\ job'.pc = "insert"
    BY <1>1, <1>6, ReceiveMove, ReliableFaults DEF Rows
  <2>2. CASE job'.pc = "poll" /\ next' = next + 1 /\ feed[next].id \in seen
    <3>1. Matches(t)
      BY <1>1, <2>1, <2>2 DEF PeriodSettled
    <3> QED
      BY <1>3, <2>1, <2>2, <3>1
  <2>3. CASE next' = next /\ job'.pc = "insert"
    BY <1>4, <2>1, <2>3
  <2> QED
    BY <2>1, <2>2, <2>3
<1>7. ASSUME Insert PROVE PeriodSettled(t)' /\ PeriodPlanned(t)'
  BY <1>1, <1>4, <1>7, InsertMove DEF Rows
<1>8. ASSUME Engine PROVE PeriodSettled(t)' /\ PeriodPlanned(t)'
  <2>1. job.pc = "engine" /\ UNCHANGED <<feed, committed, seen, redis, Rows(t)>>
    BY <1>1, <1>8, EngineMove DEF Rows
  <2>2. CASE OutOfOrder(redis.prevpos)
    <3>1. job'.pc = "poll"
      BY <1>1, <1>8, <2>2, EngineMove
    <3>2. Matches(t)
      BY <1>1, <2>2 DEF PeriodSettled, Ready
    <3> QED
      BY <1>3, <2>1, <3>1, <3>2
  <2>3. CASE ~OutOfOrder(redis.prevpos)
    <3>1. job'.pc = "write"
      BY <1>1, <1>8, <2>3, EngineMove
    <3>2. /\ job'.out.keys.idlefsm = IdleStep.state /\ job'.out.keys.parkfsm = ParkStep.state
          /\ Left' >= 6 /\ next' = next
          /\ Lists(job'.todo, IdleEvents, IdleStep.events)
          /\ Lists(job'.todo, ParkingEvents, ParkStep.events)
      BY <1>8, <3>1, FreshPlan
    <3>3. Lists(job'.todo, EventsOf(t), PeriodStep(t).events)
      BY <3>2 DEF EventsOf, PeriodStep
    <3>4. Within(t, job'.out.keys) <=> After(t)
      BY <3>2 DEF Within, After
    <3>5. PeriodStep(t)' = PeriodStep(t) /\ (After(t)' <=> After(t))
      BY <2>1, <3>2, PeriodFrame
    <3>6. PeriodPlanned(t)'
      BY ONLY <3>3, <3>4, <3>5 DEF PeriodPlanned, Lists, Pending, Left, Within
    <3>7. Left' >= Last(t)
      <4>1. Left' \in Nat
        BY EmptyLength DEF TypeInv, TypeOK, Left
      <4> QED
        BY ONLY <1>2, <3>2, <4>1
    <3>8. PeriodSettled(t)'
      BY <1>1, <2>1, <3>1, <3>2, <3>7, PeriodFrame DEF PeriodSettled
    <3> QED
      BY <3>6, <3>8
  <2> QED
    BY <2>2, <2>3
<1>9. ASSUME Persist PROVE PeriodSettled(t)' /\ PeriodPlanned(t)'
  <2>1. /\ Works(Events) /\ job'.todo = Tail(job.todo)
        /\ Execute(Head(job.todo), feed[next].id)
        /\ job.pc = "write" /\ job'.pc = "write" /\ job'.out = job.out
        /\ UNCHANGED <<feed, next, committed, seen, redis>>
    BY <1>1, <1>9, PersistMove DEF Works
  <2>2. /\ Left \in Nat /\ Left > 6 /\ Left' = Left - 1 /\ Head(job.todo) = job.todo[1]
        /\ \A j \in 1 .. Left' : job'.todo[j] = job.todo[j + 1]
    BY <2>1, WorkHead, WorkTail DEF Consumer
  <2>3. PeriodStep(t)' = PeriodStep(t) /\ (After(t)' <=> After(t))
    BY <2>1 DEF PeriodStep, IdleStep, ParkStep, After
  <2>4. /\ Within(t, job.out.keys) <=> After(t)
        /\ \A j \in 1 .. Left : job.todo[j] \in EventsOf(t) => PeriodStep(t).events = <<job.todo[j]>>
        /\ PeriodStep(t).events # <<>> => Pending(EventsOf(t)) \/ PeriodAhead(t)
    BY <1>1, <1>2, <2>1, <2>2 DEF PeriodPlanned
  <2>5. Left' >= Last(t)
    BY <1>2, <2>2
  <2>6. \A j \in 1 .. Left' : job'.todo[j] \in EventsOf(t) => PeriodStep(t).events = <<job'.todo[j]>>
    <3>1. \A j \in 1 .. Left' : j + 1 \in 1 .. Left
      BY ONLY <2>2
    <3> QED
      BY ONLY <2>2, <2>4, <3>1
  <2>7. Within(t, job.out.keys)' <=> After(t)'
    BY <2>1, <2>3, <2>4 DEF Within
  <2>8. CASE Head(job.todo) \in EventsOf(t)
    <3>1. PeriodAhead(t)'
      BY <1>9, <2>8, PersistedPeriod
    <3>2. Ready'
      BY <2>1, Working DEF Ready, OutOfOrder
    <3>3. PeriodSettled(t)'
      BY <2>1, <2>5, <3>1, <3>2 DEF PeriodSettled
    <3>4. PeriodPlanned(t)'
      BY ONLY <2>3, <2>6, <2>7, <3>1 DEF PeriodPlanned
    <3> QED
      BY <3>3, <3>4
  <2>9. CASE Head(job.todo) \notin EventsOf(t)
    <3>1. UNCHANGED Rows(t)
      <4>1. CASE Head(job.todo) \in PeriodEvents
        <5>1. PICK u \in PeriodTables : Head(job.todo) \in EventsOf(u)
          BY <4>1 DEF PeriodEvents, EventsOf, IdleEvents, ParkingEvents, PeriodTables
        <5> QED
          BY <1>9, <2>9, <5>1, PersistedPeriod
      <4>2. CASE Head(job.todo) \notin PeriodEvents
        BY <2>1, <4>2 DEF Execute, Rows
      <4> QED
        BY <4>1, <4>2
    <3>2. PeriodSettled(t)'
      BY <1>1, <2>1, <2>5, <3>1, PeriodFrame DEF PeriodSettled
    <3>3. Pending(EventsOf(t)) => Pending(EventsOf(t))'
      <4>1. ASSUME NEW j \in 1 .. Left, job.todo[j] \in EventsOf(t) PROVE Pending(EventsOf(t))'
        <5>1. j # 1
          BY <2>2, <2>9, <4>1
        <5>2. j - 1 \in 1 .. Left' /\ j - 1 + 1 = j
          BY ONLY <2>2, <4>1, <5>1
        <5>3. job'.todo[j - 1] \in EventsOf(t)
          BY ONLY <2>2, <4>1, <5>2
        <5> QED
          BY <5>2, <5>3 DEF Pending, EventsOf
      <4> QED
        BY <4>1 DEF Pending
    <3>4. PeriodAhead(t) => PeriodAhead(t)'
      BY <2>1, <3>1, PeriodFrame
    <3>5. PeriodPlanned(t)'
      BY ONLY <2>3, <2>4, <2>6, <2>7, <3>3, <3>4 DEF PeriodPlanned
    <3> QED
      BY <3>2, <3>5
  <2> QED
    BY <2>8, <2>9
<1>10. ASSUME Save PROVE PeriodSettled(t)' /\ PeriodPlanned(t)'
  <2> DEFINE key == Head(job.todo)
  <2>1. /\ Works(RedisKeys) /\ job'.todo = Tail(job.todo)
        /\ redis' = [redis EXCEPT ![key] = job.out.keys[key]] /\ redis \in RedisValues
        /\ job.pc = "write" /\ job'.pc = "write" /\ job'.out = job.out /\ next \in 1 .. Len(feed)
        /\ UNCHANGED <<feed, next, committed, Rows(t)>>
    BY <1>1, <1>10, SaveMove DEF Works, Rows
  <2>2. Left \in 1 .. 6 /\ Left' = Left - 1 /\ key = Keys[7 - Left]
    BY <2>1, WorkHead, WorkTail DEF Consumer
  <2>3. (Left = 5 <=> key = "idlefsm") /\ (Left = 4 <=> key = "parkfsm") /\ (Left = 1 <=> key = "prevpos")
    BY ONLY <2>2, KeysType
  <2>4. /\ redis'.idlefsm = IF Left = 5 THEN job.out.keys.idlefsm ELSE redis.idlefsm
        /\ redis'.parkfsm = IF Left = 4 THEN job.out.keys.parkfsm ELSE redis.parkfsm
        /\ Left # 1 => redis'.prevpos = redis.prevpos
    BY <2>1, <2>3 DEF RedisValues
  <2>5. Within(t, redis)' <=> IF Left = Last(t) THEN Within(t, job.out.keys) ELSE Within(t, redis)
    BY ONLY <2>4, t \in PeriodTables DEF Within, Last, PeriodTables
  <2>6. Left >= Last(t) => /\ Within(t, job.out.keys) <=> After(t)
                           /\ PeriodStep(t).events # <<>> => Pending(EventsOf(t)) \/ PeriodAhead(t)
    BY <1>1, <2>1 DEF PeriodPlanned
  <2>7. \A j \in 1 .. Left : job.todo[j] \in RedisKeys
    <3>1. \A j \in 1 .. Left : job.todo[j] = Keys[6 - Left + j] /\ 6 - Left + j \in 1 .. 6
      <4>1. \A j \in 1 .. Left : job.todo[j] = Planned(j)
        BY <2>1 DEF Consumer, TodoInv
      <4> QED
        BY ONLY <2>2, <4>1 DEF Planned
    <3> QED
      BY ONLY <3>1, KeysType
  <2>8. EventsOf(t) \cap RedisKeys = {}
    BY DEF EventsOf, IdleEvents, ParkingEvents, RedisKeys
  <2>9. ~Pending(EventsOf(t))
    BY ONLY <2>7, <2>8 DEF Pending
  <2>10. Matches(t)' <=> Open(Rows(t)) = Want(Within(t, redis)')
    BY ONLY <2>1 DEF Matches, Want
  <2>11. Matches(t) <=> Open(Rows(t)) = Want(Within(t, redis))
    BY DEF Matches
  <2>12. CASE Left > Last(t)
    <3>0. Left >= Last(t) /\ Left # Last(t)
      BY ONLY <1>2, <2>2, <2>12
    <3>1. PeriodStep(t)' = PeriodStep(t) /\ (After(t)' <=> After(t))
      <4>1. t = "idle" => redis'.idlefsm = redis.idlefsm
        BY ONLY <2>4, <2>12 DEF Last
      <4>2. t # "idle" => redis'.parkfsm = redis.parkfsm
        BY ONLY <2>4, <2>12 DEF Last
      <4> QED
        BY <2>1, <4>1, <4>2 DEF PeriodStep, IdleStep, ParkStep, After
    <3>2. PeriodAhead(t)' <=> PeriodAhead(t)
      BY ONLY <2>1, <3>1 DEF PeriodAhead, Want
    <3>3. Ready' <=> Ready
      BY ONLY <1>2, <2>1, <2>4, <2>12 DEF Ready, OutOfOrder
    <3>4. Matches(t)' <=> Matches(t)
      BY ONLY <2>5, <2>10, <2>11, <3>0 DEF Want
    <3>5. Left' >= Last(t)
      BY <1>2, <2>2, <2>12
    <3>6. PeriodSettled(t)'
      BY ONLY <1>1, <2>1, <3>2, <3>3, <3>4, <3>5 DEF PeriodSettled
    <3>7. \A j \in 1 .. Left' : job'.todo[j] \notin EventsOf(t)
      <4>1. \A j \in 1 .. Left' : job'.todo[j] = job.todo[j + 1]
        BY <2>1, WorkTail DEF Consumer
      <4>2. \A j \in 1 .. Left' : j + 1 \in 1 .. Left
        BY ONLY <2>2
      <4> QED
        BY ONLY <2>7, <2>8, <4>1, <4>2
    <3>8. Within(t, job.out.keys)' <=> Within(t, job.out.keys)
      BY <2>1 DEF Within
    <3>9. PeriodPlanned(t)'
      BY ONLY <2>6, <2>9, <3>0, <3>1, <3>2, <3>7, <3>8 DEF PeriodPlanned
    <3> QED
      BY <3>6, <3>9
  <2>13. CASE Left <= Last(t)
    <3>1. Matches(t)'
      <4>1. CASE Left = Last(t)
        <5>0. /\ Within(t, redis)' <=> After(t)
              /\ PeriodStep(t).events # <<>> => PeriodAhead(t)
          <6>1. Left >= Last(t)
            BY ONLY <1>2, <4>1
          <6> QED
            BY ONLY <2>5, <2>6, <2>9, <4>1, <6>1
        <5>1. CASE PeriodStep(t).events # <<>>
          <6>1. Open(Rows(t)) = Want(After(t))
            BY ONLY <5>0, <5>1 DEF PeriodAhead
          <6> QED
            BY ONLY <2>10, <5>0, <6>1 DEF Want
        <5>2. CASE PeriodStep(t).events = <<>>
          <6>1. After(t) <=> Within(t, redis)
            BY <1>1, <2>1, <5>2, PeriodStepResult
          <6>2. Matches(t)
            BY <1>1, <5>2 DEF PeriodSettled, PeriodAhead
          <6> QED
            BY ONLY <2>10, <2>11, <5>0, <6>1, <6>2 DEF Want
        <5> QED
          BY <5>1, <5>2
      <4>2. CASE Left < Last(t)
        <5>1. Matches(t)
          BY <1>1, <1>2, <2>1, <2>2, <4>2 DEF PeriodSettled
        <5> QED
          BY ONLY <1>2, <2>2, <2>5, <2>10, <2>11, <4>2, <5>1 DEF Want
      <4> QED
        BY <1>2, <2>2, <2>13, <4>1, <4>2
    <3>2. ~(Left' >= Last(t))
      BY <1>2, <2>2, <2>13
    <3> QED
      BY <3>1, <3>2 DEF PeriodSettled, PeriodPlanned, Last
  <2> QED
    BY <1>2, <2>2, <2>12, <2>13
<1>11. ASSUME Show PROVE PeriodSettled(t)' /\ PeriodPlanned(t)'
  <2>1. job.pc = "write" /\ job.todo = <<>> /\ job'.pc = "poll" /\ UNCHANGED <<redis, Rows(t)>>
    BY <1>1, <1>11, ShowMove DEF Rows
  <2>2. Left = 0
    BY <1>1, <2>1, LeftType
  <2>3. Matches(t)
    BY <1>1, <1>2, <2>1, <2>2 DEF PeriodSettled
  <2> QED
    BY <1>3, <2>1, <2>3
<1>12. ASSUME Commit PROVE PeriodSettled(t)' /\ PeriodPlanned(t)'
  <2>1. /\ UNCHANGED <<job, redis, Rows(t)>> /\ committed < next - 1
    BY <1>12, CommitMove DEF Rows
  <2>2. job.pc = "poll"
    BY <1>2, <2>1
  <2>3. Matches(t)
    BY <1>1, <1>2, <2>1 DEF PeriodSettled, Ready
  <2> QED
    BY <1>3, <2>1, <2>2, <2>3
<1>13. ASSUME Crash PROVE PeriodSettled(t)' /\ PeriodPlanned(t)'
  <2>1. /\ job'.pc = "poll" /\ seen' = {} /\ next' = committed + 1
        /\ UNCHANGED <<feed, committed, redis, Rows(t)>>
    BY <1>13, CrashMove DEF Rows
  <2>2. CASE committed = next - 1
    <3>1. next' = next
      BY <1>2, <2>1, <2>2
    <3> QED
      BY <1>4, <2>1, <3>1
  <2>3. CASE committed = next - 2
    <3>1. Matches(t)
      BY <1>1, <1>2, <2>3 DEF PeriodSettled, Ready
    <3> QED
      BY <1>3, <2>1, <3>1
  <2> QED
    BY <1>2, <2>2, <2>3
<1>14. CASE UNCHANGED vars
  <2>1. UNCHANGED <<feed, next, committed, seen, job, redis, Rows(t)>>
    BY <1>14, StutterMove DEF Rows
  <2>2. Left' = Left /\ (Pending(EventsOf(t))' <=> Pending(EventsOf(t)))
        /\ (Within(t, job.out.keys)' <=> Within(t, job.out.keys))
    BY <2>1 DEF Left, Pending, Within, EventsOf
  <2> QED
    BY <1>1, <2>1, <2>2, PeriodFrame DEF PeriodSettled, PeriodPlanned
<1>15. ~InsertFails /\ ~PersistFails /\ ~SaveFails /\ ~ExpirePrevPos
  BY <1>1, ReliableFaults, InsertFailsMove, PersistFailsMove, SaveFailsMove, ExpireMove
<1> QED
  BY <1>5, <1>6, <1>7, <1>8, <1>9, <1>10, <1>11, <1>12, <1>13, <1>14, <1>15 DEF Next

\* The rows of idling and of parking tell a story: a period starts before it ends, and
\* ends before the next one starts, whatever was crashed, repeated or late on the way.
THEOREM PeriodsTellAStory == Spec => []PeriodsAlternate
<1>1. PeriodInv => PeriodsAlternate
  <2> SUFFICES ASSUME PeriodInv, Reliable, NEW row \in periods
               PROVE  Open(Before(row)) = IF row.event \in {"idle.started", "parking.started"}
                                          THEN 0 ELSE 1
    BY DEF PeriodsAlternate
  <2>1. Open(Before(row)) = Want(row.event \notin Starts)
    BY DEF PeriodInv, RowsInv, Sound
  <2> QED
    BY ONLY <2>1 DEF Want, Starts
<1>2. ReliableInv /\ ReliableInv' /\ PeriodInv /\ [Next]_vars => PeriodInv'
  <2> SUFFICES ASSUME ReliableInv, ReliableInv', PeriodInv, [Next]_vars, Reliable' PROVE PeriodInv'
    BY DEF PeriodInv
  <2>1. Consumer /\ TypeInv' /\ ConsumerInv'
    BY FaultsKept DEF ReliableInv, Consumer, Reliable
  <2>2. RowsInv'
    BY <2>1, RowsStep
  <2>3. ASSUME NEW t \in PeriodTables PROVE PeriodSettled(t)' /\ PeriodPlanned(t)'
    BY <2>1, PeriodTableStep
  <2> QED
    BY ONLY <2>2, <2>3 DEF PeriodInv, PeriodTables
<1> QED
  BY <1>1, <1>2, PeriodInit, ReliableInvHolds, PTL DEF Spec
===============================================================================
