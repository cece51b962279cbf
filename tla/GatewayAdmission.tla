--------------------------- MODULE GatewayAdmission ---------------------------
(***************************************************************************)
(* Admission to one pod of the device gateway: the bounded ConnectionPool, *)
(* TCP connections and UDP pseudo-sessions that share it, and the liveness *)
(* sweep.                                                                  *)
(*                                                                         *)
(* A UDP session is found again by its source endpoint (byUdpSource); the  *)
(* frames of a datagram are dispatched concurrently, those of a TCP        *)
(* connection one at a time.  A dispatch awaits the device registry        *)
(* (resolve), close() awaits Redis before it destroys the socket of a      *)
(* session whose device is known, and the sweep first collects, then       *)
(* closes one session after the other.  Which of two sessions of a device  *)
(* wins, and what Redis holds, is the subject of SessionManager.           *)
(***************************************************************************)
EXTENDS Naturals, FiniteSets

CONSTANTS
    Sessions,        \* session ids, in the order they are opened
    Sources,         \* remote endpoints (protocol, address, port)
    MaxConnections,  \* GATEWAY_MAX_CONNECTIONS
    MaxFrames,       \* bound: frames of one UDP session in flight
    HabitSets,       \* the sets of habits to consider
    None             \* null

\* late: the registry may reject a UDP frame after its session has been closed;
\* shared: TCP and UDP may come from the same endpoint.
HabitKinds == {"late", "shared"}

ASSUME SessionsAssumption == Sessions \subseteq Nat /\ IsFiniteSet(Sessions) /\ None \notin Sessions
ASSUME BoundsAssumption == MaxConnections \in Nat /\ MaxFrames \in Nat \ {0}
ASSUME HabitsAssumption == HabitSets \subseteq SUBSET HabitKinds

VARIABLES
    state,        \* state[s]: UNOPENED, NEW, LIVE (its device is known), CLOSED
    transport,    \* transport[s]: "tcp", "udp"
    source,       \* source[s]: its endpoint
    pool,         \* the sessions of the ConnectionPool
    bySession,    \* the sessions the SessionManager tracks
    byUdpSource,  \* byUdpSource[x]: the pseudo-session of an endpoint
    frames,       \* frames[s]: dispatches that wait for the registry
    socket,       \* socket[s]: "none", "open", "destroyed", "gone"
    ending,       \* sessions whose close() waits for Redis, socket not destroyed
    overdue,      \* NEW sessions past the auth grace
    silent,       \* live UDP sessions not heard of for the UDP TTL
    swept,        \* sessions a sweep has collected and not yet closed
    orphaned,     \* endpoints whose entry another session's close removed (history)
    habits        \* what the devices and the network do in this behaviour

aggregates == <<transport, source>>
indexes == <<bySession, byUdpSource, orphaned>>
clock == <<overdue, silent>>
vars == <<state, aggregates, pool, indexes, frames, socket, ending, clock, swept, habits>>

States == {"UNOPENED", "NEW", "LIVE", "CLOSED"}

TypeOK ==
    /\ state \in [Sessions -> States]
    /\ transport \in [Sessions -> {"tcp", "udp", None}]
    /\ source \in [Sessions -> Sources \cup {None}]
    /\ pool \subseteq Sessions /\ bySession \subseteq Sessions
    /\ byUdpSource \in [Sources -> Sessions \cup {None}]
    /\ frames \in [Sessions -> Nat]
    /\ socket \in [Sessions -> {"none", "open", "destroyed", "gone"}]
    /\ ending \subseteq Sessions
    /\ overdue \subseteq Sessions /\ silent \subseteq Sessions /\ swept \subseteq Sessions
    /\ orphaned \subseteq Sources
    /\ habits \in HabitSets

isLive(s) == state[s] \in {"NEW", "LIVE"}
Live == {s \in Sessions : isLive(s)}

-----------------------------------------------------------------------------
(* SessionManager.close *)

\* The entry of an endpoint goes with every session of that endpoint, whichever
\* session it names.
Forgotten(S) ==
    [x \in Sources |-> IF \E s \in S : source[s] = x THEN None ELSE byUdpSource[x]]

Orphaned(S) ==
    {x \in Sources : byUdpSource[x] \notin S \cup {None} /\ \E s \in S : source[s] = x}

Forget(S) ==
    /\ bySession' = bySession \ S
    /\ byUdpSource' = Forgotten(S)
    /\ orphaned' = orphaned \cup Orphaned(S)

\* close() of the sessions S.  It destroys the socket at once, unless it has a
\* Redis entry to remove first; a terminator is called once.
Close(S) ==
    LET held == {s \in S : socket[s] = "open" /\ s \in bySession}
    IN  /\ state' = [s \in Sessions |-> IF s \in S THEN "CLOSED" ELSE state[s]]
        /\ Forget(S)
        /\ overdue' = overdue \ S /\ silent' = silent \ S
        /\ ending' = ending \cup {s \in held : state[s] = "LIVE"}
        /\ socket' = [s \in Sessions |->
                         IF s \in held /\ state[s] = "NEW" THEN "destroyed" ELSE socket[s]]

\* Redis has answered: the terminator destroys the socket.
Terminate(s) ==
    /\ s \in ending
    /\ ending' = ending \ {s}
    /\ socket' = [socket EXCEPT ![s] = IF @ = "open" THEN "destroyed" ELSE @]
    /\ UNCHANGED <<state, aggregates, pool, indexes, frames, clock, swept, habits>>

-----------------------------------------------------------------------------
(* openSession *)

\* ConnectionPool.admit; without a free slot the connection is refused and the
\* datagram dropped.
admit(s) == Cardinality(pool) < MaxConnections /\ pool' = pool \cup {s}

\* DeviceSession.open and SessionManager.track.
Open(s, x, t, n) ==
    /\ state[s] = "UNOPENED" /\ \A r \in Sessions : r < s => state[r] # "UNOPENED"
    /\ "shared" \in habits \/ \A r \in Sessions : source[r] = x => transport[r] = t
    /\ admit(s)
    /\ state' = [state EXCEPT ![s] = "NEW"]
    /\ transport' = [transport EXCEPT ![s] = t]
    /\ source' = [source EXCEPT ![s] = x]
    /\ bySession' = bySession \cup {s}
    /\ frames' = [frames EXCEPT ![s] = n]
    /\ UNCHANGED <<ending, clock, swept, orphaned, habits>>

\* The frames a datagram may add to those in flight.
Framed(n) == 1 .. (MaxFrames - n)

\* A faulty variant: the session of an endpoint is not looked up.
udpSessionFor_Never(x) == None

udpSessionFor(x) ==
    IF byUdpSource[x] # None /\ isLive(byUdpSource[x]) THEN byUdpSource[x] ELSE None

OpenUdp(s, x) ==
    /\ udpSessionFor(x) = None
    /\ \E n \in Framed(0) : Open(s, x, "udp", n)
    /\ byUdpSource' = [byUdpSource EXCEPT ![x] = s]
    /\ UNCHANGED socket

\* A datagram of a known endpoint touches its session.
Reuse(x) ==
    LET s == udpSessionFor(x) IN
    /\ s # None
    /\ \E n \in Framed(frames[s]) : frames' = [frames EXCEPT ![s] = @ + n]
    /\ silent' = silent \ {s}
    /\ UNCHANGED <<state, aggregates, pool, indexes, socket, ending, overdue, swept, habits>>

ConnectTcp(s, x) ==
    /\ Open(s, x, "tcp", 0)
    /\ socket' = [socket EXCEPT ![s] = "open"]
    /\ UNCHANGED byUdpSource

ReceiveTcp(s) ==
    /\ socket[s] = "open" /\ frames[s] = 0
    /\ frames' = [frames EXCEPT ![s] = 1]
    /\ UNCHANGED <<state, aggregates, pool, indexes, socket, ending, clock, swept, habits>>

\* A faulty variant: the pool keeps the slot.
SocketClosed_KeepsSlot(s) ==
    /\ socket[s] \in {"open", "destroyed"}
    /\ state' = [state EXCEPT ![s] = "CLOSED"]
    /\ Forget({s})
    /\ overdue' = overdue \ {s} /\ silent' = silent \ {s}
    /\ socket' = [socket EXCEPT ![s] = "gone"]
    /\ UNCHANGED <<aggregates, pool, frames, ending, swept, habits>>

\* The socket is gone: onClose gives the slot back, then closes the session.
SocketClosed(s) ==
    /\ socket[s] \in {"open", "destroyed"}
    /\ pool' = pool \ {s}
    /\ state' = [state EXCEPT ![s] = "CLOSED"]
    /\ Forget({s})
    /\ overdue' = overdue \ {s} /\ silent' = silent \ {s}
    /\ socket' = [socket EXCEPT ![s] = "gone"]
    /\ UNCHANGED <<aggregates, frames, ending, swept, habits>>

-----------------------------------------------------------------------------
(* PacketDispatcher.dispatch after the registry has answered *)

Answered(s) == frames[s] > 0 /\ frames' = [frames EXCEPT ![s] = @ - 1]

\* An unknown device: onPacket closes the session, live or not.
Rejected(s) ==
    /\ Answered(s)
    /\ isLive(s) \/ transport[s] = "tcp" \/ "late" \in habits
    /\ Close({s})
    /\ UNCHANGED <<aggregates, pool, swept, habits>>

\* The device is bound; a session byDevice names for it is closed first.
Authenticated(s) ==
    /\ Answered(s)
    /\ state[s] = "NEW"
    /\ \E T \in {{}} \cup {{t} : t \in {r \in Sessions : state[r] = "LIVE"}} :
         /\ state' = [t \in Sessions |-> IF t \in T THEN "CLOSED"
                                         ELSE IF t = s THEN "LIVE" ELSE state[t]]
         /\ Forget(T)
         /\ ending' = ending \cup {t \in T : socket[t] = "open"}
         /\ overdue' = overdue \ {s} /\ silent' = silent \ T
    /\ UNCHANGED <<aggregates, pool, socket, swept, habits>>

\* The session is bound already, or has been closed meanwhile; or the frame says
\* nothing of its device.
Passed(s) ==
    /\ Answered(s)
    /\ UNCHANGED <<state, aggregates, pool, indexes, socket, ending, clock, swept, habits>>

-----------------------------------------------------------------------------
(* Time and the sweep *)

GraceEnds(s) ==
    /\ state[s] = "NEW" /\ s \notin overdue
    /\ overdue' = overdue \cup {s}
    /\ UNCHANGED <<state, aggregates, pool, indexes, frames, socket, ending, silent, swept, habits>>

FallSilent(s) ==
    /\ isLive(s) /\ transport[s] = "udp" /\ s \notin silent
    /\ silent' = silent \cup {s}
    /\ UNCHANGED <<state, aggregates, pool, indexes, frames, socket, ending, overdue, swept, habits>>

Expired == overdue \cup silent

\* A faulty variant: pseudo-sessions of a known device are left alone.
SweepCollects_NewOnly ==
    /\ swept = {} /\ overdue # {}
    /\ swept' = overdue
    /\ UNCHANGED <<state, aggregates, pool, indexes, frames, socket, ending, clock, habits>>

SweepCollects ==
    /\ swept = {} /\ Expired # {}
    /\ swept' = Expired
    /\ UNCHANGED <<state, aggregates, pool, indexes, frames, socket, ending, clock, habits>>

\* A collected session is closed whatever happened to it since.
SweepCloses(s) ==
    /\ s \in swept
    /\ swept' = swept \ {s}
    /\ Close({s})
    /\ UNCHANGED <<aggregates, pool, frames, habits>>

-----------------------------------------------------------------------------
Init ==
    /\ state = [s \in Sessions |-> "UNOPENED"]
    /\ transport = [s \in Sessions |-> None]
    /\ source = [s \in Sessions |-> None]
    /\ pool = {} /\ bySession = {}
    /\ byUdpSource = [x \in Sources |-> None]
    /\ frames = [s \in Sessions |-> 0]
    /\ socket = [s \in Sessions |-> "none"]
    /\ ending = {} /\ overdue = {} /\ silent = {} /\ swept = {} /\ orphaned = {}
    /\ habits \in HabitSets

Answer(s) == Rejected(s) \/ Authenticated(s) \/ Passed(s)

Next ==
    \/ \E s \in Sessions, x \in Sources : OpenUdp(s, x) \/ ConnectTcp(s, x)
    \/ \E x \in Sources : Reuse(x)
    \/ \E s \in Sessions : \/ ReceiveTcp(s) \/ Answer(s) \/ SocketClosed(s) \/ Terminate(s)
                           \/ GraceEnds(s) \/ FallSilent(s) \/ SweepCloses(s)
    \/ SweepCollects

Spec == Init /\ [][Next]_vars

\* The sweep timer fires, Redis answers or times out, a destroyed socket closes.
FairSpec ==
    /\ Spec
    /\ WF_vars(SweepCollects)
    /\ \A s \in Sessions :
         /\ WF_vars(SweepCloses(s)) /\ WF_vars(Terminate(s))
         /\ WF_vars(socket[s] = "destroyed" /\ SocketClosed(s))

-----------------------------------------------------------------------------
(* Properties *)

\* Never more live sessions than the pod has slots for.
WithinCapacity == Cardinality(Live) <= MaxConnections

\* The index of an endpoint names a live session of that endpoint, or none.
IndexIsLive ==
    \A x \in Sources : byUdpSource[x] # None =>
        isLive(byUdpSource[x]) /\ source[byUdpSource[x]] = x

\* An endpoint has one live pseudo-session, unless the close of another session
\* of that endpoint has removed its entry: one that ended before, or over TCP.
OneLivePerSource ==
    \A s, t \in Live :
        /\ transport[s] = "udp" /\ transport[t] = "udp"
        /\ source[s] = source[t] /\ source[s] \notin orphaned
        => s = t

\* A session that did not log in within the grace, or a pseudo-session that fell
\* silent, is closed, unless it logs in or is heard of after all.
ExpiredIsClosed == \A s \in Sessions : s \in Expired ~> s \notin Expired

\* The slot of a TCP connection returns to the pool.
TcpSlotReturns ==
    \A s \in Sessions : transport[s] = "tcp" /\ state[s] = "CLOSED" ~> s \notin pool

\* No slot of a TCP connection is stuck: it has a socket that serves a live
\* session, that a close() waiting for Redis will destroy, or that is destroyed.
TcpSlotsAreAccounted ==
    \A s \in pool : transport[s] = "tcp" =>
        \/ socket[s] = "destroyed"
        \/ socket[s] = "open" /\ (isLive(s) \/ s \in ending)

\* A pod without a live session or an open socket has all its slots.
IdlePodAccepts ==
    Live = {} /\ (\A s \in Sessions : socket[s] \notin {"open", "destroyed"}) => pool = {}
===============================================================================
