--------------------------- MODULE SessionManager ---------------------------
(***************************************************************************)
(* TCP device sessions of the device gateway                               *)
(* (apps/device-gateway-service): every pod keeps its own sessions and a   *)
(* local index device -> session, and all pods share one Redis entry per   *)
(* device that names the session believed to hold it.                      *)
(*                                                                         *)
(* An action is the code between two awaits.  Three kinds of activity      *)
(* interleave: the frame handler of each connection (one frame at a time,  *)
(* the drains of a connection are chained), the calls of                   *)
(* SessionManager.close that are in flight, and the periodic sweep.        *)
(***************************************************************************)
EXTENDS Naturals, FiniteSets

CONSTANTS
    Pods,        \* gateway instances
    Devices,     \* device ids a login can resolve to
    Sessions,    \* session ids, numbered in the order of the connections
    None,        \* null: no session, no device, no close reason
    Frames,      \* kinds of frames the devices send
    Faults       \* kinds of trouble the environment may cause

FrameKinds == {"LOGIN", "DATA", "STATUS"}
\* Redis calls fail; Redis entries expire; pods crash; pods shut down; frames
\* received before the end of a connection are dispatched after it.
FaultKinds == {"redis", "expiry", "crash", "shutdown", "backlog"}

ASSUME NoneAssumption   == Sessions \subseteq Nat /\ None \notin Sessions \cup Devices \cup Pods
ASSUME FramesAssumption == Frames \subseteq FrameKinds
ASSUME FaultsAssumption == Faults \subseteq FaultKinds

VARIABLES
    mode,        \* mode[p]: "up", "draining" (shutdown waits), "stopped"
    state,       \* state[s]: the DeviceSession aggregate's state
    pod,         \* pod[s]: the instance that accepted the connection
    device,      \* device[s]: the device bound by authenticate()
    socket,      \* socket[s]: "none", "open", "destroyed", "gone"
    tracked,     \* sessions in bySession, with their writer and terminator
    byDevice,    \* byDevice[p][d]: local index of pod p
    slot,        \* slot[d]: session named by the Redis entry of device d
    handler,     \* handler[s]: where the frame handler of s awaits
    closing,     \* the close() calls in flight
    superseder,  \* superseder[s]: the other session a sweep GET returned, or s
    offlines,    \* offlines[s]: DISCONNECTED events emitted for s
    newest       \* newest[d]: the last session authenticated as d (history)

aggregates == <<state, pod, device>>
indexes    == <<tracked, byDevice>>
history    == <<offlines, newest>>
vars == <<mode, state, pod, device, socket, tracked, byDevice, slot, handler,
          closing, superseder, offlines, newest>>

-----------------------------------------------------------------------------
(* Types and helper state formulae *)

States  == {"UNOPENED", "NEW", "AUTHENTICATED", "ACTIVE", "CLOSED", "LOST"}
Closers == {"handler", "evict", "grace", "superseded", "socket", "shutdown"}

\* The frame is remembered only as long as the login it caused is under way.
Idle == [pc |-> "idle", frame |-> "LOGIN", dev |-> None, prior |-> None]

HandlerType ==
    [pc: {"idle", "resolve", "evict", "store", "stored", "close"},
     frame: FrameKinds, dev: Devices \cup {None}, prior: Sessions \cup {None}]

CloseCall == [sess: Sessions, by: Closers, live: BOOLEAN,
              pc: {"get", "del"}]

\* CLOSED is the only teardown state another turn of the event loop can see:
\* close() passes DISCONNECTED or CLOSING within one synchronous block.
isLive(s)             == state[s] \in {"NEW", "AUTHENTICATED", "ACTIVE"}
canPublish(s)         == state[s] \in {"AUTHENTICATED", "ACTIVE"}
canDispatchCommand(s) == state[s] \in {"AUTHENTICATED", "ACTIVE"}

InFlight(s, by) == \E c \in closing : c.sess = s /\ c.by = by

Destroy(S) == [s \in Sessions |->
                  IF s \in S /\ socket[s] = "open" THEN "destroyed" ELSE socket[s]]

-----------------------------------------------------------------------------
(* SessionManager.close: the synchronous prefix, then GET and DEL *)

Closed(S) == [s \in Sessions |-> IF s \in S THEN "CLOSED" ELSE state[s]]

\* A faulty variant: the index entry of the device goes, whoever it names.
Unindexed_Always(S) ==
    [p \in Pods |-> [d \in Devices |->
        IF \E s \in S : pod[s] = p /\ device[s] = d THEN None ELSE byDevice[p][d]]]

\* The local indexes after S closed: an entry goes only if it names one of S.
Unindexed(S) ==
    [p \in Pods |-> [d \in Devices |->
        IF byDevice[p][d] \in S THEN None ELSE byDevice[p][d]]]

\* Faulty variants: liveness is not captured, or captured too late.
Calls_AlwaysLive(S, by) ==
    {[sess |-> s, by |-> by, live |-> TRUE, pc |-> "get"] :
        s \in {t \in S : device[t] # None}}
Calls_NeverLive(S, by) ==
    {[sess |-> s, by |-> by, live |-> FALSE, pc |-> "get"] :
        s \in {t \in S : device[t] # None}}

\* What is left of close() after its first await; only sessions of a known
\* device have a Redis entry to remove and an event to emit.
Calls(S, by) ==
    {[sess |-> s, by |-> by, live |-> isLive(s), pc |-> "get"] :
        s \in {t \in S : device[t] # None}}

\* Up to the first await, for every session of S (the callers set state' with
\* Closed): every index forgets it.
BeginClose(S, by) ==
    /\ tracked' = tracked \ S
    /\ byDevice' = Unindexed(S)
    /\ closing' = closing \cup Calls(S, by)

\* A faulty variant: the terminator is not called.
Finish_KeepsSocket(c) ==
    /\ closing' = closing \ {c}
    /\ offlines' = [offlines EXCEPT ![c.sess] = IF c.live THEN @ + 1 ELSE @]
    /\ UNCHANGED socket

\* After the last Redis reply: destroy the socket and announce DISCONNECTED, if
\* this call is the one that found the session live.
Finish(c) ==
    /\ closing' = closing \ {c}
    /\ IF c.live
       THEN /\ socket' = Destroy({c.sess})
            /\ offlines' = [offlines EXCEPT ![c.sess] = @ + 1]
       ELSE UNCHANGED <<socket, offlines>>

\* removeIfSession, first half: GET and compare.  An absent entry passes the
\* comparison; an entry of another session, or a Redis error, ends it.
CloseGet(c) ==
    /\ c.pc = "get"
    /\ \/ /\ slot[device[c.sess]] \in {c.sess, None}
          /\ closing' = (closing \ {c}) \cup {[c EXCEPT !.pc = "del"]}
          /\ UNCHANGED <<socket, offlines>>
       \/ /\ slot[device[c.sess]] \notin {c.sess, None} \/ "redis" \in Faults
          /\ Finish(c)
    /\ UNCHANGED <<mode, aggregates, indexes, slot, handler, superseder, newest>>

\* removeIfSession, second half: DEL removes whatever the entry holds by now.
CloseDel(c) ==
    /\ c.pc = "del"
    /\ \/ slot' = [slot EXCEPT ![device[c.sess]] = None]
       \/ "redis" \in Faults /\ UNCHANGED slot
    /\ Finish(c)
    /\ UNCHANGED <<mode, aggregates, indexes, handler, superseder, newest>>

-----------------------------------------------------------------------------
(* Connections *)

\* A socket is accepted: open, track, register terminator and writer.
Connect(s, p) ==
    /\ mode[p] = "up"
    /\ state[s] = "UNOPENED"
    /\ \A t \in Sessions : t < s => state[t] # "UNOPENED"
    /\ state' = [state EXCEPT ![s] = "NEW"]
    /\ pod' = [pod EXCEPT ![s] = p]
    /\ socket' = [socket EXCEPT ![s] = "open"]
    /\ tracked' = tracked \cup {s}
    /\ UNCHANGED <<mode, device, byDevice, slot, handler, closing, superseder, history>>

\* The socket's cleanup (close, error or idle timeout), once per connection.
SocketClosed(s) ==
    /\ socket[s] \in {"open", "destroyed"}
    /\ socket' = [socket EXCEPT ![s] = "gone"]
    /\ state' = Closed({s})
    /\ BeginClose({s}, "socket")
    /\ UNCHANGED <<mode, pod, device, slot, handler, superseder, history>>

-----------------------------------------------------------------------------
(* The frame handler: PacketDispatcher.dispatch, one frame at a time.      *)
(* Nothing here asks whether the session or its socket is still open: the  *)
(* frame may have waited in the reader, or in an await, while it closed.   *)

Await(s, h) == handler' = [handler EXCEPT ![s] = h]

\* activate + markActive, touch, or nothing, for a frame that is not a LOGIN.
Proceed(s, frame) ==
    /\ IF frame = "DATA" /\ state[s] = "AUTHENTICATED"
       THEN state' = [state EXCEPT ![s] = "ACTIVE"]
       ELSE UNCHANGED state
    /\ IF canPublish(s)
       THEN Await(s, [Idle EXCEPT !.pc = "store"])
       ELSE Await(s, Idle)

Dispatch(s, frame, d) ==
    /\ handler[s].pc = "idle"
    /\ socket[s] = "open" \/ ("backlog" \in Faults /\ state[s] = "CLOSED")
    /\ IF frame = "LOGIN" \/ ~canPublish(s)
       THEN /\ Await(s, [Idle EXCEPT !.pc = "resolve", !.frame = frame, !.dev = d])
            /\ UNCHANGED state
       ELSE Proceed(s, frame)
    /\ UNCHANGED <<mode, pod, device, socket, indexes, slot, closing, superseder, history>>

\* Faulty variants: authenticate() from any state, and re-binding.
mayAuthenticate_Always(s)  == TRUE
mayAuthenticate_Rebinds(s) == state[s] \in {"NEW", "AUTHENTICATED"}

\* authenticate() is reached from IDENTIFY only (identify() just before it, from
\* NEW); a session that closed during the resolve is refused.
mayAuthenticate(s) == state[s] = "NEW"

\* The resolver refuses the device: the gateway closes with AUTH_FAILED.
LoginRefused(s) ==
    /\ handler[s].pc = "resolve"
    /\ state' = Closed({s})
    /\ BeginClose({s}, "handler")
    /\ socket' = IF device[s] = None THEN Destroy({s}) ELSE socket
    /\ Await(s, [Idle EXCEPT !.pc = "close"])
    /\ UNCHANGED <<mode, pod, device, slot, superseder, history>>

\* The resolver accepts: the device is bound, and evictLocalDuplicate starts to
\* close a live prior session of this pod.
LoginAccepted(s) ==
    LET h       == handler[s]
        victims == {byDevice[pod[s]][h.dev]} \cap {t \in Sessions \ {s} : isLive(t)}
    IN  /\ h.pc = "resolve"
        /\ mayAuthenticate(s)
        /\ state' = [Closed(victims) EXCEPT ![s] = "AUTHENTICATED"]
        /\ device' = [device EXCEPT ![s] = h.dev]
        /\ newest' = [newest EXCEPT ![h.dev] = s]
        /\ BeginClose(victims, "evict")
        /\ Await(s, [Idle EXCEPT !.pc = "evict", !.frame = h.frame,
                     !.prior = IF victims = {} THEN None ELSE byDevice[pod[s]][h.dev]])
        /\ UNCHANGED <<mode, pod, socket, slot, superseder, offlines>>

\* The resolver accepts a session that is no longer NEW: a repeated LOGIN is
\* not registered again; an implicit login of a closed session throws.
LoginIgnored(s) ==
    /\ handler[s].pc = "resolve"
    /\ ~mayAuthenticate(s)
    /\ Await(s, Idle)
    /\ UNCHANGED <<mode, aggregates, socket, indexes, slot, closing, superseder,
                   history>>

evictionReturned(s) == ~InFlight(handler[s].prior, "evict")

\* evictLocalDuplicate returned: byDevice.set, whatever happened meanwhile.
IndexLocally(s) ==
    /\ handler[s].pc = "evict"
    /\ evictionReturned(s)
    /\ byDevice' = [byDevice EXCEPT ![pod[s]][device[s]] = s]
    /\ Await(s, [Idle EXCEPT !.pc = "store", !.frame = handler[s].frame])
    /\ UNCHANGED <<mode, aggregates, socket, tracked, slot, closing, superseder,
                   history>>

\* upsertSnapshot / refreshGlobal: an unconditional SET, or a swallowed error.
\* The call returns some time after the SET took effect; what follows it is
\* the payload of an implicit login, if the frame carried one.
Store(s) ==
    /\ handler[s].pc = "store"
    /\ \/ slot' = [slot EXCEPT ![device[s]] = s]
       \/ "redis" \in Faults /\ UNCHANGED slot
    /\ Await(s, IF handler[s].frame = "LOGIN" THEN Idle
                ELSE [Idle EXCEPT !.pc = "stored", !.frame = handler[s].frame])
    /\ UNCHANGED <<mode, aggregates, socket, indexes, closing, superseder, history>>

Payload(s) ==
    /\ handler[s].pc = "stored"
    /\ Proceed(s, handler[s].frame)
    /\ UNCHANGED <<mode, pod, device, socket, indexes, slot, closing,
                   superseder, history>>

\* onPacket returns false once its own close() has returned.
HandlerClosed(s) ==
    /\ handler[s].pc = "close"
    /\ ~InFlight(s, "handler")
    /\ Await(s, Idle)
    /\ UNCHANGED <<mode, aggregates, socket, indexes, slot, closing, superseder,
                   history>>

-----------------------------------------------------------------------------
(* The sweep *)

\* An unauthenticated session past the auth grace.
SweepGrace(s) ==
    /\ s \in tracked
    /\ mode[pod[s]] = "up"
    /\ state[s] = "NEW"
    /\ state' = Closed({s})
    /\ BeginClose({s}, "grace")
    /\ socket' = Destroy({s})
    /\ UNCHANGED <<mode, pod, device, slot, handler, superseder, history>>

\* Faulty variants: an absent entry counts as another session; only sessions of
\* the same pod are compared.
namesOther_OrNone(s) == slot[device[s]] # s
namesOther_SamePod(s) ==
    /\ slot[device[s]] \notin {s, None}
    /\ pod[slot[device[s]]] = pod[s]

namesOther(s) == slot[device[s]] \notin {s, None}

\* detectSuperseded: the Redis GET returned an entry that names another session.
SweepRead(s) ==
    /\ s \in tracked
    /\ mode[pod[s]] = "up"
    /\ isLive(s)
    /\ device[s] # None
    /\ superseder[s] = s
    /\ namesOther(s)
    /\ superseder' = [superseder EXCEPT ![s] = slot[device[s]]]
    /\ UNCHANGED <<mode, aggregates, socket, indexes, slot, handler, closing,
                   history>>

\* ... and after the await the session is closed, on what was read before it.
SweepClose(s) ==
    /\ superseder[s] # s
    /\ superseder' = [superseder EXCEPT ![s] = s]
    /\ state' = Closed({s})
    /\ BeginClose({s}, "superseded")
    /\ UNCHANGED <<mode, pod, device, socket, slot, handler, history>>

-----------------------------------------------------------------------------
(* Pods and Redis *)

\* onApplicationShutdown: timers are cleared, listeners stop accepting.
BeginShutdown(p) ==
    /\ "shutdown" \in Faults
    /\ mode[p] = "up"
    /\ mode' = [mode EXCEPT ![p] = "draining"]
    /\ UNCHANGED <<aggregates, socket, indexes, slot, handler, closing, superseder,
                   history>>

\* server.close() calls back once every connection of the listener has ended;
\* only then does the shutdown reach closeAll.
CloseAll(p) ==
    /\ mode[p] = "draining"
    /\ \A s \in Sessions : pod[s] = p => socket[s] = "gone"
    /\ mode' = [mode EXCEPT ![p] = "stopped"]
    /\ LET S == {s \in tracked : pod[s] = p}
       IN  state' = Closed(S) /\ BeginClose(S, "shutdown")
    /\ UNCHANGED <<pod, device, socket, slot, handler, superseder, history>>

\* The process dies and is replaced: all of its memory is lost, Redis is not.
Crash(p) ==
    LET lost == {s \in Sessions : pod[s] = p} IN
    /\ "crash" \in Faults
    /\ mode' = [mode EXCEPT ![p] = "up"]
    /\ state' = [s \in Sessions |-> IF s \in lost THEN "LOST" ELSE state[s]]
    /\ socket' = [s \in Sessions |-> IF s \in lost THEN "gone" ELSE socket[s]]
    /\ tracked' = tracked \ lost
    /\ byDevice' = [byDevice EXCEPT ![p] = [d \in Devices |-> None]]
    /\ handler' = [s \in Sessions |-> IF s \in lost THEN Idle ELSE handler[s]]
    /\ closing' = {c \in closing : c.sess \notin lost}
    /\ superseder' = [s \in Sessions |-> IF s \in lost THEN s ELSE superseder[s]]
    /\ UNCHANGED <<pod, device, slot, history>>

\* The TTL of a Redis entry runs out.
Expire(d) ==
    /\ "expiry" \in Faults
    /\ slot[d] # None
    /\ slot' = [slot EXCEPT ![d] = None]
    /\ UNCHANGED <<mode, aggregates, socket, indexes, handler, closing, superseder,
                   history>>

-----------------------------------------------------------------------------
(* Specification *)

Init ==
    /\ mode       = [p \in Pods |-> "up"]
    /\ state      = [s \in Sessions |-> "UNOPENED"]
    /\ pod        = [s \in Sessions |-> None]
    /\ device     = [s \in Sessions |-> None]
    /\ socket     = [s \in Sessions |-> "none"]
    /\ tracked    = {}
    /\ byDevice   = [p \in Pods |-> [d \in Devices |-> None]]
    /\ slot       = [d \in Devices |-> None]
    /\ handler    = [s \in Sessions |-> Idle]
    /\ closing    = {}
    /\ superseder = [s \in Sessions |-> s]
    /\ offlines   = [s \in Sessions |-> 0]
    /\ newest     = [d \in Devices |-> None]

CloseStep(c)   == CloseGet(c) \/ CloseDel(c)
HandlerStep(s) == \/ LoginRefused(s) \/ LoginAccepted(s) \/ LoginIgnored(s)
                  \/ IndexLocally(s) \/ Store(s) \/ Payload(s) \/ HandlerClosed(s)

\* Nothing awaits: the system may rest.  A call that could wait for ever shows
\* up as a deadlock.
Quiescent == /\ closing = {}
             /\ \A s \in Sessions : handler[s].pc = "idle" /\ superseder[s] = s
Rest == Quiescent /\ UNCHANGED vars

Next ==
    \/ \E s \in Sessions, p \in Pods : Connect(s, p)
    \/ \E s \in Sessions, f \in Frames, d \in Devices : Dispatch(s, f, d)
    \/ \E s \in Sessions :
          \/ HandlerStep(s) \/ SocketClosed(s)
          \/ SweepGrace(s) \/ SweepRead(s) \/ SweepClose(s)
    \/ \E c \in closing : CloseStep(c)
    \/ \E p \in Pods : BeginShutdown(p) \/ CloseAll(p) \/ Crash(p)
    \/ \E d \in Devices : Expire(d)
    \/ Rest

Spec == Init /\ [][Next]_vars

\* What the code's scheduling guarantees: an await returns (Redis calls and the
\* resolver answer or fail), a destroyed socket raises its close event, the
\* sweep timer keeps firing, Redis expires its keys, and a connection on which
\* no frame arrives any more is ended by the idle timeout.  Otherwise nothing is
\* assumed of the devices: they may connect, send and disconnect or not.
Fairness ==
    /\ \A s \in Sessions :
          /\ WF_vars(HandlerStep(s))
          /\ \A by \in Closers :
                WF_vars(\E c \in closing : c.sess = s /\ c.by = by /\ CloseStep(c))
          /\ WF_vars(socket[s] = "open" /\
                        \/ SocketClosed(s)
                        \/ \E f \in Frames, d \in Devices : Dispatch(s, f, d))
          /\ WF_vars(socket[s] = "destroyed" /\ SocketClosed(s))
          /\ WF_vars(SweepGrace(s))
          /\ WF_vars(SweepRead(s))
          /\ WF_vars(SweepClose(s))
    /\ \A d \in Devices : WF_vars(Expire(d))
    /\ \A p \in Pods : WF_vars(CloseAll(p))

FairSpec == Spec /\ Fairness

-----------------------------------------------------------------------------
(* Properties *)

TypeOK ==
    /\ mode \in [Pods -> {"up", "draining", "stopped"}]
    /\ state \in [Sessions -> States]
    /\ pod \in [Sessions -> Pods \cup {None}]
    /\ device \in [Sessions -> Devices \cup {None}]
    /\ socket \in [Sessions -> {"none", "open", "destroyed", "gone"}]
    /\ tracked \subseteq Sessions
    /\ byDevice \in [Pods -> [Devices -> Sessions \cup {None}]]
    /\ slot \in [Devices -> Sessions \cup {None}]
    /\ handler \in [Sessions -> HandlerType]
    /\ closing \subseteq CloseCall
    /\ superseder \in [Sessions -> Sessions]
    /\ offlines \in [Sessions -> Nat]
    /\ newest \in [Devices -> Sessions \cup {None}]

\* A command is never sent to the wrong socket nor to a dead one: the session
\* the local index yields for a device, if it may take commands, is a session
\* of this pod bound to that device that still has its writer.
DispatchableIsWritable ==
    \A p \in Pods, d \in Devices :
        LET s == byDevice[p][d] IN
        s # None /\ canDispatchCommand(s) =>
            s \in tracked /\ pod[s] = p /\ device[s] = d

\* However many close() calls race on one session (socket cleanup, eviction,
\* sweep, refused login), it announces DISCONNECTED at most once, and only
\* after it ended.
DisconnectedOnce ==
    \A s \in Sessions :
        /\ offlines[s] <= 1
        /\ offlines[s] = 1 => state[s] \in {"CLOSED", "LOST"} /\ device[s] # None

\* No session is closed as a duplicate without a rival.  A close that evicts is
\* awaited by a session of the same device and pod that is registering, and
\* never ends the session that logged in last; one that was superseded has
\* another session of its device.
ClosedForARival ==
    \A c \in closing :
        /\ c.by = "evict" =>
              /\ newest[device[c.sess]] # c.sess
              /\ \E t \in Sessions \ {c.sess} :
                    /\ handler[t].pc = "evict" /\ handler[t].prior = c.sess
                    /\ device[t] = device[c.sess] /\ pod[t] = pod[c.sess]
        /\ c.by = "superseded" =>
              \E t \in Sessions \ {c.sess} : device[t] = device[c.sess]

\* Closing one session never removes another, live session from the local
\* index: a device that reconnected stays reachable while the old one closes.
IndexKeepsLiveOwner ==
    [][\A p \in Pods, d \in Devices :
          byDevice[p][d] # None /\ byDevice'[p][d] = None =>
              state'[byDevice[p][d]] \in {"CLOSED", "LOST"}]_vars

\* A session that ended never comes back, whatever await it was in.
EndedIsFinal ==
    [][\A s \in Sessions : state[s] \in {"CLOSED", "LOST"} =>
          state'[s] \in {"CLOSED", "LOST"} /\ device'[s] = device[s]]_vars

\* An end is never forgotten: whoever closed a session, and in whatever order the
\* calls that race on it return, it is announced and its socket is ended, or the
\* call that found it live is still to do both.
CloseIsCarriedOut ==
    \A s \in Sessions : state[s] = "CLOSED" =>
        \/ socket[s] \in {"destroyed", "gone"} /\ (device[s] # None => offlines[s] = 1)
        \/ \E c \in closing : c.sess = s /\ c.live

\* Every session of a known device that is closed is announced, unless its pod
\* dies first.
CloseIsAnnounced ==
    \A s \in Sessions : (state[s] = "CLOSED" /\ device[s] # None)
                             ~> (offlines[s] = 1 \/ state[s] = "LOST")

\* A closed session gives its socket back: no connection is left half-open.
CloseFreesSocket ==
    \A s \in Sessions : state[s] = "CLOSED" ~> socket[s] = "gone"

\* A session that another one superseded in Redis is closed by the sweep of its
\* own pod, unless the entry changes back or the pod shuts down.
SupersededIsClosed ==
    \A s \in Sessions, d \in Devices :
        (isLive(s) /\ device[s] = d /\ slot[d] \notin {s, None})
            ~> (~isLive(s) \/ slot[d] \in {s, None} \/ mode[pod[s]] # "up")

-----------------------------------------------------------------------------
(* What the comments of the code promise and the code does not keep *)

\* "deterministic newest wins": the session that authenticated last for a
\* device is never closed as a duplicate.
NewestWins ==
    \A c \in closing : c.by \in {"evict", "superseded"} /\ c.live =>
        newest[device[c.sess]] # c.sess

\* close() removes "global + local indexes": once nothing is in flight for a
\* closed session, no local index names it.
ClosedIsUnindexed ==
    \A p \in Pods, d \in Devices :
        LET s == byDevice[p][d] IN
        s # None /\ state[s] = "CLOSED" => handler[s].pc # "idle"

\* "the closing session must not delete the new session's entry".
CloseKeepsForeignEntry ==
    [][\A c \in closing : CloseDel(c) =>
          \A d \in Devices : slot[d] \notin {c.sess, None} => slot'[d] = slot[d]]_vars

\* Shutdown: "close all sessions (SHUTDOWN)": a pod that begins to shut down
\* ends its sessions.
ShutdownEndsSessions ==
    \A s \in Sessions, p \in Pods :
        (mode[p] = "draining" /\ pod[s] = p) ~> ~isLive(s)

=============================================================================
