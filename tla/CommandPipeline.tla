--------------------------- MODULE CommandPipeline ---------------------------
(***************************************************************************)
(* The way of a command to one device and of its outcome back:             *)
(*                                                                         *)
(*   DeviceCommandService.create       row QUEUED, request published       *)
(*   CommandRequestConsumer            every gateway pod gets the request  *)
(*   CommandDispatcher                 write, hold, reject or stay silent  *)
(*   device                            answers with the command's code     *)
(*   CommandAckConsumer, TTL sweeper   project the outcome onto the row    *)
(*                                                                         *)
(* The device's sessions are SessionManager's: here only what the          *)
(* dispatcher sees of them, the local index of each pod and whether Redis  *)
(* has an entry.  Messages of the ack topic have several producers, whose  *)
(* sends overtake each other: they are consumed in any order.              *)
(***************************************************************************)
EXTENDS Naturals, FiniteSets, Sequences

CONSTANTS
    Pods,       \* gateway instances
    Commands,   \* command ids, numbered in the order of issued_at
    Profile,    \* Profile[c]: code, key, camera, intent and hold of command c
    ListCodes,  \* codes that answer OK first and their payload later
    Bodies,     \* kinds of answers the devices give
    None,       \* no pod, no answer being projected
    Faults      \* kinds of trouble the environment may cause

\* redis: Redis calls fail; kafka: a publish fails; db: an UPDATE fails;
\* crash: pods crash; socket: write() reports failure, the frame sent or not;
\* ghost: a closed session stays in the index; redeliver: an event or a request
\* is consumed twice.
FaultKinds == {"redis", "kafka", "db", "crash", "socket", "ghost", "redeliver"}

\* key: the hold key (code and payload); camera: mediaChannel; hold: the code
\* is one of HOLD_WHEN_OFFLINE.
Intents == {"start", "stop", "other"}

ASSUME CommandsAssumption == Commands \subseteq Nat /\ None \notin Pods
ASSUME ProfileAssumption ==
    \A c \in Commands : Profile[c].intent \in Intents /\ Profile[c].hold \in BOOLEAN
ASSUME FaultsAssumption == Faults \subseteq FaultKinds

VARIABLES
    status,    \* status[c]: the row's status
    error,     \* error[c]: the row's error
    due,       \* commands whose expires_at has passed
    outbox,    \* commands inserted and not yet published
    requests,  \* the request topic: commands in the order of their publication
    offset,    \* offset[p]: requests that pod p has consumed
    session,   \* session[p]: what byDeviceId finds: "none", "live", "dead"
    entry,     \* pod named by the device's Redis entry
    at,        \* at[p][c]: where pod p is with command c
    held,      \* held[p]: the held commands of the device, in the order of the Map
    heldAt,    \* heldAt[p][c]: the millisecond in which p held command c
    topic,     \* events under way to the ack consumer
    match,     \* the row an answer was matched with, between SELECT and UPDATE
    written,   \* written[c]: times the frame was handed to a socket (history)
    replies    \* replies[c]: answers the device gave (history)

rows    == <<status, error, due, outbox, requests>>
queue   == <<held, heldAt>>
gateway == <<at, queue, offset>>
device  == <<written, replies>>
vars == <<status, error, due, outbox, requests, offset, session, entry, at,
          queue, topic, match, written, replies>>

Pending == {"QUEUED", "SENT"}
\* away: not consumed yet; asking, looking: Redis is asked for a request, or for
\* a command being flushed; next, flushing: taken from the held commands;
\* settled: written, held, rejected or dropped; routed: left to another pod.
Stages  == {"away", "asking", "looking", "next", "flushing", "settled", "routed"}

Event == [kind: {"SENT", "REJECTED"}, cmd: Commands] \cup
         [kind: {"ACK"}, cmd: Commands, body: Bodies]

Newest(S) == CHOOSE c \in S : \A d \in S : d <= c

-----------------------------------------------------------------------------
(* DeviceCommandService and DeviceCommandRepository *)

\* create: the row is committed before the request is published.
Create(c) ==
    /\ \A d \in Commands : d >= c => status[d] = "NEW"
    /\ status' = [status EXCEPT ![c] = "QUEUED"]
    /\ outbox' = outbox \cup {c}
    /\ UNCHANGED <<error, due, requests, session, entry, gateway, topic, match, device>>

\* A faulty variant: the status is overwritten whatever it is.
mark_Unguarded(c, to, err) ==
    /\ status' = [status EXCEPT ![c] = to]
    /\ error' = [error EXCEPT ![c] = err]

\* markSent, markAcked, markFailed: guarded UPDATEs.
mark(c, to, err) ==
    IF status[c] \in Pending
    THEN /\ status' = [status EXCEPT ![c] = to]
         /\ error' = [error EXCEPT ![c] = err]
    ELSE UNCHANGED <<status, error>>

Publish(c) ==
    /\ c \in outbox
    /\ outbox' = outbox \ {c}
    /\ requests' = Append(requests, c)
    /\ UNCHANGED <<status, error, due, session, entry, gateway, topic, match, device>>

\* The send fails, and may have reached the broker all the same.
PublishFails(c) ==
    /\ "kafka" \in Faults
    /\ c \in outbox
    /\ outbox' = outbox \ {c}
    /\ mark(c, "FAILED", "PUBLISH_FAILED")
    /\ requests' \in {requests, Append(requests, c)}
    /\ UNCHANGED <<due, session, entry, gateway, topic, match, device>>

PassTtl(c) ==
    /\ status[c] # "NEW"
    /\ c \notin due
    /\ due' = due \cup {c}
    /\ UNCHANGED <<status, error, outbox, requests, session, entry, gateway, topic,
                   match, device>>

\* A faulty variant: only the queue is swept.
stale_QueuedOnly == {c \in due : status[c] = "QUEUED"}

stale == {c \in due : status[c] \in Pending}

\* The TTL sweeper: one UPDATE.
expireStale ==
    /\ stale # {}
    /\ status' = [c \in Commands |-> IF c \in stale THEN "EXPIRED" ELSE status[c]]
    /\ error' = [c \in Commands |-> IF c \in stale THEN "TTL_EXPIRED" ELSE error[c]]
    /\ UNCHANGED <<due, outbox, requests, session, entry, gateway, topic, match, device>>

-----------------------------------------------------------------------------
(* Sessions of the device, as the dispatcher sees them *)

\* The synchronous run of pod p's event loop is over.
Yielded(p) == \A c \in Commands : at[p][c] # "next"

\* authenticate, then byDevice.set; a session on another pod is not closed yet.
Authenticate(p) ==
    /\ Yielded(p) /\ session[p] # "live"
    /\ session' = [session EXCEPT ![p] = "live"]
    /\ UNCHANGED <<rows, entry, gateway, topic, match, device>>

\* upsertSnapshot, at login and with later frames.
Upsert(p) ==
    /\ session[p] = "live" /\ entry # p
    /\ entry' = p
    /\ UNCHANGED <<rows, session, gateway, topic, match, device>>

\* The session ends; its index entry goes, or comes back behind it.
End(p) ==
    /\ Yielded(p) /\ session[p] = "live"
    /\ \E left \in {"none"} \cup (IF "ghost" \in Faults THEN {"dead"} ELSE {}) :
          session' = [session EXCEPT ![p] = left]
    /\ UNCHANGED <<rows, entry, gateway, topic, match, device>>

\* removeIfSession, or the TTL of the entry.
Release ==
    /\ entry # None
    /\ session[entry] # "live" \/ "redis" \in Faults
    /\ entry' = None
    /\ UNCHANGED <<rows, session, gateway, topic, match, device>>

-----------------------------------------------------------------------------
(* CommandDispatcher *)

\* publishCommandEvent for every command of S; a failed publish is logged.
publishFeedback(S, kind) ==
    \E sent \in {S} \cup (IF "kafka" \in Faults THEN SUBSET S ELSE {}) :
        topic' = topic \cup {[kind |-> kind, cmd |-> c] : c \in sent}

Holds(p, c) == \E i \in DOMAIN held[p] : held[p][i] = c

Settle(p, c) == at' = [at EXCEPT ![p][c] = "settled"]

reject(p, c) ==
    /\ Settle(p, c)
    /\ publishFeedback({c}, "REJECTED")
    /\ UNCHANGED <<queue, written>>

\* The place of c's hold key among the held commands, {} if it has none.
place(h, c) == {i \in DOMAIN h : Profile[h[i]].key = Profile[c].key}

\* A faulty variant: nothing is replaced.
put_All(h, c) == Append(h, c)

\* Map.set: a hold key has one entry, and a new one for it takes the old one's place.
put(h, c) ==
    IF place(h, c) = {} THEN Append(h, c)
    ELSE [i \in DOMAIN h |-> IF i \in place(h, c) THEN c ELSE h[i]]

\* Date.now(): the millisecond of the last hold or a later one.  How much later
\* does not matter, only which of two is the later.
moments(p) ==
    {t \in UNION {{heldAt[p][d], heldAt[p][d] + 1} : d \in Commands} :
        \A d \in Commands : t >= heldAt[p][d]}

hold(p, c) ==
    /\ held' = [held EXCEPT ![p] = put(held[p], c)]
    /\ \E now \in moments(p) : heldAt' = [heldAt EXCEPT ![p][c] = now]
    /\ Settle(p, c)
    /\ UNCHANGED <<topic, written>>

holdOrReject(p, c) == IF Profile[c].hold THEN hold(p, c) ELSE reject(p, c)

\* A faulty variant: SENT is published before the result of write() is known.
write_Optimistic(p, c) ==
    /\ Settle(p, c)
    /\ UNCHANGED queue
    /\ publishFeedback({c}, "SENT")
    /\ \/ written' = [written EXCEPT ![c] = @ + 1]
       \/ "socket" \in Faults /\ UNCHANGED written

\* socket.write returns true, or false because the socket is gone, or false
\* because its buffer is full: then the frame goes out nevertheless.
write(p, c) ==
    /\ Settle(p, c)
    /\ UNCHANGED queue
    /\ \/ /\ written' = [written EXCEPT ![c] = @ + 1]
          /\ publishFeedback({c}, "SENT")
       \/ /\ "socket" \in Faults
          /\ written' = written \/ written' = [written EXCEPT ![c] = @ + 1]
          /\ publishFeedback({c}, "REJECTED")

\* dispatch, up to its first await: without a session, Redis is asked.
dispatch(p, c, await) ==
    /\ \/ session[p] = "none" /\ at' = [at EXCEPT ![p][c] = await]
                              /\ UNCHANGED <<queue, topic, written>>
       \/ session[p] = "dead" /\ holdOrReject(p, c)
       \/ session[p] = "live" /\ write(p, c)
    /\ UNCHANGED <<rows, session, entry, match, replies>>

\* Every pod consumes every request, in order and one at a time.
Consume(p) ==
    /\ Yielded(p)
    /\ offset[p] < Len(requests)
    /\ \A c \in Commands : at[p][c] # "asking"
    /\ offset' = [offset EXCEPT ![p] = @ + 1]
    /\ dispatch(p, requests[offset[p] + 1], "asking")

\* The group rebalances before its offsets are committed: the last request comes
\* once more.  Bound: to a pod that is done with it.  Here it may be one from
\* before a restart too, where the code's new group would not see it.
Rejoin(p) ==
    /\ "redeliver" \in Faults
    /\ offset[p] > 0
    /\ \E c \in Commands :
          /\ c = requests[offset[p]]
          /\ at[p][c] \in {"settled", "routed"} /\ ~Holds(p, c)
          /\ at' = [at EXCEPT ![p][c] = "away"]
    /\ offset' = [offset EXCEPT ![p] = @ - 1]
    /\ UNCHANGED <<rows, session, entry, queue, topic, match, device>>

\* handleNoLocalSession, after Redis answered (null when it failed).
Lookup(p, c) ==
    /\ Yielded(p)
    /\ at[p][c] \in {"asking", "looking"}
    /\ \/ entry # None /\ at' = [at EXCEPT ![p][c] = "routed"]
                       /\ UNCHANGED <<queue, topic, written>>
       \/ (entry = None \/ "redis" \in Faults) /\ holdOrReject(p, c)
    /\ UNCHANGED <<rows, session, entry, offset, match, replies>>

\* Place j of h is of a control that was held after that at place i: in a later
\* millisecond or, within one, at a later place.
after(when, h, i, j) ==
    when[h[j]] > when[h[i]] \/ (when[h[j]] = when[h[i]] /\ j > i)

\* The live controls of h's places live for the camera of place i.
group(h, live, i) ==
    {j \in live : /\ Profile[h[j]].intent # "other"
                  /\ Profile[h[j]].camera = Profile[h[i]].camera}

\* A faulty variant: the oldest of a camera's controls goes out.
partitionHeld_Oldest(when, h, live) ==
    {h[i] : i \in {j \in live :
        Profile[h[j]].intent # "other" => \A k \in group(h, live, j) : ~after(when, h, k, j)}}

\* partitionHeld: the commands to send, of those held at the places live.  The
\* latest control held for a camera is itself the newest of its kind: it decides
\* between start and stop, and is sent.
partitionHeld(when, h, live) ==
    {h[i] : i \in {j \in live :
        Profile[h[j]].intent # "other" => \A k \in group(h, live, j) : ~after(when, h, j, k)}}

\* Faulty variant: a quiet device is never swept.
flushable_OnFrame(p) == session[p] = "live" /\ offset[p] < Len(requests)

flushable(p) == session[p] = "live"

\* flushHeld takes everything held, drops without a word what is older than
\* HOLD_TTL_MS (no TTL of a command is longer), rejects what is superseded, and
\* dispatches the rest one by one.  The first follows without an await unless
\* something was rejected.
flushHeld(p) ==
    /\ Yielded(p)
    /\ flushable(p)
    /\ held[p] # <<>>
    /\ held' = [held EXCEPT ![p] = <<>>]
    /\ heldAt' = [heldAt EXCEPT ![p] = [c \in Commands |-> 0]]
    /\ \E old \in SUBSET due :
          LET all  == {held[p][i] : i \in DOMAIN held[p]}
              live == {i \in DOMAIN held[p] : held[p][i] \notin old}
              send == partitionHeld(heldAt[p], held[p], live)
              drop == all \ (send \cup old)
          IN  /\ old \subseteq all
              /\ publishFeedback(drop, "REJECTED")
              /\ \/ /\ drop = {}
                    /\ \E first \in send :
                          at' = [at EXCEPT ![p] = [c \in Commands |->
                                    IF c = first THEN "next"
                                    ELSE IF c \in send THEN "flushing" ELSE @[c]]]
                 \/ /\ drop # {} \/ send = {}
                    /\ at' = [at EXCEPT ![p] = [c \in Commands |->
                                  IF c \in send THEN "flushing" ELSE @[c]]]
    /\ UNCHANGED <<rows, session, entry, offset, match, device>>

\* A faulty variant: what is flushed stays held until its answer comes.
FlushNext_Keeps(p, c) ==
    /\ at[p][c] = "next" \/ (at[p][c] = "flushing" /\ Yielded(p))
    /\ session[p] = "live"
    /\ held' = [held EXCEPT ![p] = put(@, c)]
    /\ Settle(p, c)
    /\ written' = [written EXCEPT ![c] = @ + 1]
    /\ UNCHANGED <<rows, heldAt, offset, session, entry, topic, match, replies>>

FlushNext(p, c) ==
    /\ at[p][c] = "next" \/ (at[p][c] = "flushing" /\ Yielded(p))
    /\ dispatch(p, c, "looking")
    /\ UNCHANGED offset

\* The process dies: what it held and awaited is gone, and so are the requests it
\* had not consumed, since it comes back with a group of its own, from the latest.
Crash(p) ==
    /\ "crash" \in Faults
    /\ session' = [session EXCEPT ![p] = "none"]
    /\ held' = [held EXCEPT ![p] = <<>>]
    /\ heldAt' = [heldAt EXCEPT ![p] = [c \in Commands |-> 0]]
    /\ at' = [at EXCEPT ![p] = [c \in Commands |->
                 IF @[c] = "away" THEN "away" ELSE "settled"]]
    /\ offset' = [offset EXCEPT ![p] = Len(requests)]
    /\ UNCHANGED <<rows, entry, topic, match, device>>

-----------------------------------------------------------------------------
(* The device *)

\* The device answers a command it was sent, with its code and no command id.
Reply(c, body) ==
    /\ replies[c] < written[c]
    /\ replies' = [replies EXCEPT ![c] = @ + 1]
    /\ [kind |-> "ACK", cmd |-> c, body |-> body] \notin topic
    /\ topic' = topic \cup {[kind |-> "ACK", cmd |-> c, body |-> body]}
    /\ UNCHANGED <<rows, session, entry, gateway, match, written>>

-----------------------------------------------------------------------------
(* CommandAckConsumer, one event at a time *)

\* A faulty variant: offsets are not committed.
consumed_Never(m) == UNCHANGED topic

\* The event is consumed; it comes again if its offset was not committed.
consumed(m) == topic' = topic \ {m} \/ ("redeliver" \in Faults /\ UNCHANGED topic)

handleSent(m) ==
    /\ match = None /\ m.kind = "SENT"
    /\ consumed(m)
    /\ mark(m.cmd, "SENT", "none") \/ ("db" \in Faults /\ UNCHANGED <<status, error>>)
    /\ UNCHANGED <<due, outbox, requests, session, entry, gateway, match, device>>

handleRejected(m) ==
    /\ match = None /\ m.kind = "REJECTED"
    /\ consumed(m)
    /\ mark(m.cmd, "FAILED", "REJECTED") \/ ("db" \in Faults /\ UNCHANGED <<status, error>>)
    /\ UNCHANGED <<due, outbox, requests, session, entry, gateway, match, device>>

\* latestPendingByCode's candidates.
pendingRows(code) == {c \in Commands : status[c] \in Pending /\ Profile[c].code = code}

\* An OK that only announces the payload of a list.
keepPending(m) == Profile[m.cmd].code \in ListCodes /\ m.body = "OK"

\* handleDeviceAck up to its SELECT: an answer is matched with the newest
\* pending row of its code.
handleDeviceAck(m) ==
    /\ match = None /\ m.kind = "ACK"
    /\ consumed(m)
    /\ LET S == pendingRows(Profile[m.cmd].code) IN
       match' = IF S = {} \/ keepPending(m) THEN None
                ELSE [row |-> Newest(S), body |-> m.body]
    /\ UNCHANGED <<rows, session, entry, gateway, device>>

\* ... and its UPDATE.
ApplyAck ==
    /\ match # None
    /\ match' = None
    /\ \/ IF match.body = "ERROR" THEN mark(match.row, "FAILED", "DEVICE_ERROR")
                                  ELSE mark(match.row, "ACKED", "none")
       \/ "db" \in Faults /\ UNCHANGED <<status, error>>
    /\ UNCHANGED <<due, outbox, requests, session, entry, gateway, topic, device>>

-----------------------------------------------------------------------------
(* Specification *)

Init ==
    /\ status  = [c \in Commands |-> "NEW"]
    /\ error   = [c \in Commands |-> "none"]
    /\ due     = {}
    /\ outbox  = {}
    /\ requests = <<>>
    /\ offset  = [p \in Pods |-> 0]
    /\ session = [p \in Pods |-> "none"]
    /\ entry   = None
    /\ at      = [p \in Pods |-> [c \in Commands |-> "away"]]
    /\ held    = [p \in Pods |-> <<>>]
    /\ heldAt  = [p \in Pods |-> [c \in Commands |-> 0]]
    /\ topic   = {}
    /\ match   = None
    /\ written = [c \in Commands |-> 0]
    /\ replies = [c \in Commands |-> 0]

Service == \/ \E c \in Commands : Create(c) \/ Publish(c) \/ PublishFails(c) \/ PassTtl(c)
           \/ expireStale
Sessions == Release \/ \E p \in Pods : Authenticate(p) \/ Upsert(p) \/ End(p)
Gateway == \E p \in Pods :
              \/ Consume(p) \/ Rejoin(p) \/ flushHeld(p) \/ Crash(p)
              \/ \E c \in Commands : Lookup(p, c) \/ FlushNext(p, c)
Device == \E c \in Commands, body \in Bodies : Reply(c, body)
Consumer == \/ \E m \in topic : handleSent(m) \/ handleRejected(m) \/ handleDeviceAck(m)
            \/ ApplyAck

Next == Service \/ Sessions \/ Gateway \/ Device \/ Consumer

Spec == Init /\ [][Next]_vars

\* Time passes and the timers fire: the TTL sweeper, the 5 s sweep of held
\* commands, and the awaits of a flush return.  Nothing is assumed of the
\* device, of Kafka or of the ack consumer.
Fairness ==
    /\ \A c \in Commands : WF_vars(PassTtl(c))
    /\ WF_vars(expireStale)
    /\ \A p \in Pods :
          /\ WF_vars(flushHeld(p))
          /\ \A c \in Commands : WF_vars(FlushNext(p, c))

FairSpec == Spec /\ Fairness

-----------------------------------------------------------------------------
(* Properties *)

TypeOK ==
    /\ status \in [Commands -> {"NEW", "QUEUED", "SENT", "ACKED", "FAILED", "EXPIRED"}]
    /\ error \in [Commands -> {"none", "PUBLISH_FAILED", "REJECTED", "DEVICE_ERROR",
                               "TTL_EXPIRED"}]
    /\ \A c \in Commands : error[c] # "none" <=> status[c] \in {"FAILED", "EXPIRED"}
    /\ due \subseteq Commands /\ outbox \subseteq Commands
    /\ requests \in Seq(Commands) /\ offset \in [Pods -> Nat]
    /\ session \in [Pods -> {"none", "live", "dead"}]
    /\ entry \in Pods \cup {None}
    /\ at \in [Pods -> [Commands -> Stages]]
    /\ held \in [Pods -> Seq(Commands)] /\ heldAt \in [Pods -> [Commands -> Nat]]
    /\ topic \subseteq Event
    /\ match \in {None} \cup [row: Commands, body: Bodies]
    /\ written \in [Commands -> Nat] /\ replies \in [Commands -> Nat]

\* Whatever the order, loss or failure of the events, the row lives the life
\* the guarded UPDATEs promise: an outcome is never overwritten by a late SENT,
\* a late answer, a sweep or a rejection.
Lifecycle == INSTANCE CommandLifecycle WITH Commands <- Commands, status <- status
LifecycleSpec == Lifecycle!Spec

\* The operator sees SENT only for a frame that was handed to a socket.
SentWasWritten == \A c \in Commands : status[c] = "SENT" => written[c] > 0

\* A request is broadcast and may be written by several pods, but by each of them
\* once, unless Kafka redelivers it: neither a flush, nor a supersession, nor a
\* restart repeats it, and what a pod holds it has not written.
DoneWith(c) == {p \in Pods : at[p][c] = "settled" /\ ~Holds(p, c)}
WrittenOncePerPod == \A c \in Commands : written[c] <= Cardinality(DoneWith(c))

\* Answers carry no command id, but no answer is counted twice: among the
\* commands of a code, no more are settled by the device than it gave answers.
Answered(code) ==
    {c \in Commands : Profile[c].code = code /\
        (status[c] = "ACKED" \/ (status[c] = "FAILED" /\ error[c] = "DEVICE_ERROR"))}
AnswersOf(code) ==
    UNION {{c} \X (1 .. replies[c]) : c \in {d \in Commands : Profile[d].code = code}}
AnswersCountOnce ==
    \A c \in Commands :
        Cardinality(Answered(Profile[c].code)) <= Cardinality(AnswersOf(Profile[c].code))

\* A pod holds at most one command per hold key, and none that it is about to
\* send: no button pressed twice while offline is sent twice by one flush.
HeldOncePerKey ==
    \A p \in Pods : \A i, j \in DOMAIN held[p] :
        /\ Profile[held[p][i]].key = Profile[held[p][j]].key => i = j
        /\ at[p][held[p][i]] = "settled"

\* A flush sends no live control of a camera that was held before another one, unless
\* that one is past its TTL, and drops none but for another that was held no earlier
\* (or past its own TTL); whatever else was held goes out.
FlushSendsLatestIntent ==
    [][\A p \in Pods : flushHeld(p) =>
          \A i \in DOMAIN held[p] :
              LET c == held[p][i]
                  others == group(held[p], DOMAIN held[p], i) \ {i}
                  when(j) == heldAt[p][held[p][j]]
              IN  /\ at'[p][c] # "settled" /\ Profile[c].intent # "other" =>
                         \A j \in others : when(j) > when(i) => held[p][j] \in due
                  /\ at'[p][c] = "settled" /\ c \notin due =>
                         /\ Profile[c].intent # "other"
                         /\ \E j \in others : when(j) >= when(i)]_vars

\* Every command that was issued is settled in the end, even if Kafka, the
\* device or the gateway lose it: the operator never waits for ever.
CommandSettles ==
    \A c \in Commands : status[c] \in Pending ~> status[c] \notin Pending

\* A held command does not wait for a frame: it leaves the queue as long as the
\* device stays connected.
HeldIsFlushed ==
    \A p \in Pods, c \in Commands :
        (Holds(p, c) /\ session[p] = "live") ~> (~Holds(p, c) \/ session[p] # "live")

-----------------------------------------------------------------------------
(* What the comments and tests promise and the code does not keep *)

\* "Only the instance holding the device's local session performs the write;
\* the others see ROUTED_ELSEWHERE or DEVICE_OFFLINE".
WrittenOnce == \A c \in Commands : written[c] <= 1

\* REJECTED is for commands that were not written: "DEVICE_OFFLINE from a
\* single designated instance (the dispatcher stays silent for instances that
\* neither hold the session nor find a global snapshot)".
RejectedWasNotWritten ==
    \A c \in Commands : error[c] = "REJECTED" => written[c] = 0

\* "Another gateway instance holds the live session - it dispatches": a request
\* is not left to the others by every pod.
SomebodyDispatches ==
    \A c \in Commands : \E p \in Pods : at[p][c] # "routed"

\* "SENT -> ACKED", "ACKED - the device replied OK": a command that never left
\* the gateway is not acknowledged.
AckedWasWritten == \A c \in Commands : status[c] = "ACKED" => written[c] > 0

\* "does not flush a held AB3 that would cancel a later AB2": a camera's stop is
\* not written after a start that was requested later.
NoLateStop ==
    [][\A i, j \in DOMAIN requests :
          LET c == requests[i]  d == requests[j] IN
          /\ Profile[c].intent = "stop" /\ Profile[d].intent = "start"
          /\ Profile[c].camera = Profile[d].camera /\ i < j
          /\ written[d] > 0
          => written'[c] = written[c]]_vars

=============================================================================
