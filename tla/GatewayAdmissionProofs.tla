------------------------ MODULE GatewayAdmissionProofs ------------------------
(***************************************************************************)
(* Proofs about GatewayAdmission, for every number of sessions, endpoints  *)
(* and slots.  Four invariants: types; the slots of the pool cover the     *)
(* live sessions; the index of the endpoints is right for every live       *)
(* pseudo-session whose endpoint no other session's close has touched; a   *)
(* slot of a connection is held by a socket that has still to close.       *)
(***************************************************************************)
EXTENDS GatewayAdmission, FiniteSetTheorems, TLAPS

-----------------------------------------------------------------------------
(* Types *)

LEMMA TypeInit == Init => TypeOK
  BY DEF Init, TypeOK, States

\* The pieces of close() keep the types.
LEMMA ForgetType ==
  ASSUME TypeOK, NEW S, Forget(S)
  PROVE  /\ bySession' \subseteq Sessions /\ orphaned' \subseteq Sources
         /\ byUdpSource' \in [Sources -> Sessions \cup {None}]
  BY DEF TypeOK, Forget, Forgotten, Orphaned

LEMMA CloseType ==
  ASSUME TypeOK, NEW S \in SUBSET Sessions, Close(S), UNCHANGED <<aggregates, pool, habits>>,
         frames' \in [Sessions -> Nat], swept' \subseteq Sessions
  PROVE  TypeOK'
<1>1. /\ state' \in [Sessions -> States]
      /\ socket' \in [Sessions -> {"none", "open", "destroyed", "gone"}]
      /\ ending' \subseteq Sessions /\ overdue' \subseteq Sessions /\ silent' \subseteq Sessions
  BY DEF TypeOK, Close, States
<1>2. Forget(S)
  BY DEF Close
<1> QED
  BY <1>1, <1>2, ForgetType DEF TypeOK, aggregates

LEMMA AnsweredType ==
  ASSUME TypeOK, NEW s \in Sessions, Answered(s)
  PROVE  frames' \in [Sessions -> Nat]
  BY DEF TypeOK, Answered

LEMMA OpenType ==
  ASSUME TypeOK, NEW s \in Sessions, NEW x \in Sources, NEW t \in {"tcp", "udp"},
         NEW n \in Nat, Open(s, x, t, n)
  PROVE  /\ state' \in [Sessions -> States]
         /\ transport' \in [Sessions -> {"tcp", "udp", None}]
         /\ source' \in [Sessions -> Sources \cup {None}]
         /\ pool' \subseteq Sessions /\ bySession' \subseteq Sessions
         /\ frames' \in [Sessions -> Nat]
         /\ ending' \subseteq Sessions /\ overdue' \subseteq Sessions
         /\ silent' \subseteq Sessions /\ swept' \subseteq Sessions
         /\ orphaned' \subseteq Sources /\ habits' \in HabitSets
  BY DEF TypeOK, Open, admit, States, clock

LEMMA TypeStep == TypeOK /\ [Next]_vars => TypeOK'
<1> SUFFICES ASSUME TypeOK, [Next]_vars PROVE TypeOK'
  OBVIOUS
<1> USE DEF aggregates, indexes, clock
<1>1. ASSUME NEW s \in Sessions, NEW x \in Sources, OpenUdp(s, x) PROVE TypeOK'
  <2>1. PICK n \in Framed(0) : Open(s, x, "udp", n)
    BY <1>1 DEF OpenUdp
  <2>2. n \in Nat
    BY BoundsAssumption DEF Framed
  <2>3. byUdpSource' \in [Sources -> Sessions \cup {None}] /\ UNCHANGED socket
    BY <1>1 DEF OpenUdp, TypeOK
  <2> QED
    BY <2>1, <2>2, <2>3, OpenType DEF TypeOK
<1>2. ASSUME NEW s \in Sessions, NEW x \in Sources, ConnectTcp(s, x) PROVE TypeOK'
  <2>1. /\ socket' \in [Sessions -> {"none", "open", "destroyed", "gone"}]
        /\ UNCHANGED byUdpSource /\ Open(s, x, "tcp", 0)
    BY <1>2 DEF ConnectTcp, TypeOK
  <2> QED
    BY <2>1, OpenType DEF TypeOK
<1>3. ASSUME NEW x \in Sources, Reuse(x) PROVE TypeOK'
  <2>1. PICK s \in Sessions : \E n \in Framed(frames[s]) :
            frames' = [frames EXCEPT ![s] = @ + n]
    BY <1>3 DEF Reuse, udpSessionFor, TypeOK
  <2>2. frames' \in [Sessions -> Nat]
    BY <2>1, BoundsAssumption DEF Framed, TypeOK
  <2> QED
    BY <1>3, <2>2 DEF Reuse, TypeOK
<1>4. ASSUME NEW s \in Sessions, ReceiveTcp(s) PROVE TypeOK'
  BY <1>4 DEF ReceiveTcp, TypeOK
<1>5. ASSUME NEW s \in Sessions, Rejected(s) PROVE TypeOK'
  BY <1>5, CloseType, AnsweredType DEF Rejected, TypeOK
<1>6. ASSUME NEW s \in Sessions, Authenticated(s) PROVE TypeOK'
  <2>1. PICK T \in SUBSET Sessions :
          /\ Forget(T)
          /\ state' = [t \in Sessions |-> IF t \in T THEN "CLOSED"
                                          ELSE IF t = s THEN "LIVE" ELSE state[t]]
          /\ ending' = ending \cup {t \in T : socket[t] = "open"}
          /\ overdue' = overdue \ {s} /\ silent' = silent \ T
    BY <1>6 DEF Authenticated
  <2>2. /\ frames' \in [Sessions -> Nat]
        /\ UNCHANGED <<transport, source, pool, socket, swept, habits>>
    BY <1>6, AnsweredType DEF Authenticated
  <2> QED
    BY <2>1, <2>2, ForgetType DEF TypeOK, States
<1>7. ASSUME NEW s \in Sessions, Passed(s) PROVE TypeOK'
  BY <1>7, AnsweredType DEF Passed, TypeOK
<1>8. ASSUME NEW s \in Sessions, SocketClosed(s) PROVE TypeOK'
  <2>1. Forget({s})
    BY <1>8 DEF SocketClosed
  <2>2. /\ state' \in [Sessions -> States]
        /\ socket' \in [Sessions -> {"none", "open", "destroyed", "gone"}]
        /\ pool' \subseteq Sessions
        /\ overdue' \subseteq Sessions /\ silent' \subseteq Sessions
    BY <1>8 DEF SocketClosed, TypeOK, States
  <2>3. UNCHANGED <<transport, source, frames, ending, swept, habits>>
    BY <1>8 DEF SocketClosed
  <2> QED
    BY <2>1, <2>2, <2>3, ForgetType DEF TypeOK
<1>9. ASSUME NEW s \in Sessions, Terminate(s) PROVE TypeOK'
  BY <1>9 DEF Terminate, TypeOK
<1>10. ASSUME NEW s \in Sessions, GraceEnds(s) \/ FallSilent(s) PROVE TypeOK'
  BY <1>10 DEF GraceEnds, FallSilent, TypeOK
<1>11. ASSUME NEW s \in Sessions, SweepCloses(s) PROVE TypeOK'
  BY <1>11, CloseType DEF SweepCloses, TypeOK
<1>12. ASSUME SweepCollects PROVE TypeOK'
  BY <1>12 DEF SweepCollects, Expired, TypeOK
<1>13. CASE UNCHANGED vars
  BY <1>13 DEF vars, TypeOK
<1> QED
  BY <1>1, <1>2, <1>3, <1>4, <1>5, <1>6, <1>7, <1>8, <1>9, <1>10, <1>11, <1>12, <1>13
     DEF Next, Answer

\* The variables of an admission have their types.
THEOREM TypeCorrect == Spec => []TypeOK
<1> QED
  BY TypeInit, TypeStep, PTL DEF Spec

-----------------------------------------------------------------------------
(* What a step does to the sessions, the slots and the endpoints *)

Opens(s, x, t) ==
    /\ state[s] = "UNOPENED" /\ admit(s)
    /\ state' = [state EXCEPT ![s] = "NEW"]
    /\ source' = [source EXCEPT ![s] = x]
    /\ transport' = [transport EXCEPT ![s] = t]
    /\ UNCHANGED orphaned
    /\ \/ /\ t = "udp" /\ udpSessionFor(x) = None
          /\ byUdpSource' = [byUdpSource EXCEPT ![x] = s]
       \/ t = "tcp" /\ UNCHANGED byUdpSource

Ends(S) ==
    /\ Forget(S) /\ UNCHANGED <<source, transport>>
    /\ pool' \subseteq pool /\ pool \ S \subseteq pool'
    /\ \A s \in Sessions : isLive(s)' <=> isLive(s) /\ s \notin S

Rests == /\ UNCHANGED <<pool, source, transport, byUdpSource, orphaned>>
         /\ \A s \in Sessions : isLive(s)' <=> isLive(s)

StepKind ==
    \/ \E s \in Sessions, x \in Sources, t \in {"tcp", "udp"} : Opens(s, x, t)
    \/ \E S \in SUBSET Sessions : Ends(S)
    \/ Rests

LEMMA CloseEnds ==
  ASSUME TypeOK, NEW S \in SUBSET Sessions, Close(S), UNCHANGED <<source, transport, pool>>
  PROVE  Ends(S)
  BY DEF TypeOK, Close, Ends, isLive

LEMMA StepKinds == TypeOK /\ [Next]_vars => StepKind
<1> SUFFICES ASSUME TypeOK, [Next]_vars PROVE StepKind
  OBVIOUS
<1> USE DEF aggregates, indexes, clock
<1>1. ASSUME NEW s \in Sessions, NEW x \in Sources, OpenUdp(s, x) PROVE StepKind
  <2>1. Opens(s, x, "udp")
    BY <1>1 DEF OpenUdp, Open, Opens
  <2> QED
    BY <2>1 DEF StepKind
<1>2. ASSUME NEW s \in Sessions, NEW x \in Sources, ConnectTcp(s, x) PROVE StepKind
  <2>1. Opens(s, x, "tcp")
    BY <1>2 DEF ConnectTcp, Open, Opens
  <2> QED
    BY <2>1 DEF StepKind
<1>3. ASSUME NEW s \in Sessions, Rejected(s) PROVE StepKind
  BY <1>3, CloseEnds DEF Rejected, StepKind
<1>4. ASSUME NEW s \in Sessions, Authenticated(s) PROVE StepKind
  <2>1. PICK T \in SUBSET {r \in Sessions : state[r] = "LIVE"} :
          /\ Forget(T)
          /\ state' = [t \in Sessions |-> IF t \in T THEN "CLOSED"
                                          ELSE IF t = s THEN "LIVE" ELSE state[t]]
    BY <1>4 DEF Authenticated
  <2>2. state[s] = "NEW" /\ UNCHANGED <<source, transport, pool>>
    BY <1>4 DEF Authenticated
  <2>3. Ends(T)
    BY <2>1, <2>2 DEF Ends, isLive
  <2> QED
    BY <2>3 DEF StepKind
<1>5. ASSUME NEW s \in Sessions, SocketClosed(s) PROVE StepKind
  <2>1. Ends({s})
    BY <1>5 DEF SocketClosed, Ends, isLive, TypeOK
  <2> QED
    BY <2>1 DEF StepKind
<1>6. ASSUME NEW s \in Sessions, SweepCloses(s) PROVE StepKind
  BY <1>6, CloseEnds DEF SweepCloses, StepKind
<1>7. ASSUME NEW s \in Sessions,
             \/ ReceiveTcp(s) \/ Passed(s) \/ Terminate(s) \/ GraceEnds(s) \/ FallSilent(s)
      PROVE  StepKind
  BY <1>7 DEF ReceiveTcp, Passed, Terminate, GraceEnds, FallSilent, Rests, isLive, StepKind
<1>8. ASSUME NEW x \in Sources, Reuse(x) PROVE StepKind
  BY <1>8 DEF Reuse, Rests, isLive, StepKind
<1>9. ASSUME SweepCollects PROVE StepKind
  BY <1>9 DEF SweepCollects, Rests, isLive, StepKind
<1>10. CASE UNCHANGED vars
  BY <1>10 DEF vars, Rests, isLive, StepKind
<1> QED
  BY <1>1, <1>2, <1>3, <1>4, <1>5, <1>6, <1>7, <1>8, <1>9, <1>10 DEF Next, Answer

-----------------------------------------------------------------------------
(* The slots *)

\* Every live session has a slot, and no more slots are taken than there are.
PoolInv == Live \subseteq pool /\ Cardinality(pool) <= MaxConnections

LEMMA PoolFinite == TypeOK => IsFiniteSet(pool)
  BY SessionsAssumption, FS_Subset DEF TypeOK

LEMMA PoolInit == Init => PoolInv
  BY FS_EmptySet, BoundsAssumption DEF Init, PoolInv, Live, isLive

LEMMA PoolStep == TypeOK /\ PoolInv /\ StepKind => PoolInv'
<1> SUFFICES ASSUME TypeOK, PoolInv, StepKind PROVE PoolInv'
  OBVIOUS
<1>0. IsFiniteSet(pool) /\ Cardinality(pool) \in Nat
  BY PoolFinite, FS_CardinalityType
<1>1. ASSUME NEW s \in Sessions, NEW x \in Sources, NEW t \in {"tcp", "udp"}, Opens(s, x, t)
      PROVE  PoolInv'
  <2>1. Cardinality(pool) < MaxConnections /\ pool' = pool \cup {s}
    BY <1>1 DEF Opens, admit
  <2>2. Cardinality(pool') <= Cardinality(pool) + 1
    <3>1. Cardinality(pool \cup {s}) = IF s \in pool THEN Cardinality(pool)
                                        ELSE Cardinality(pool) + 1
      BY <1>0, FS_AddElement
    <3> QED
      BY <1>0, <2>1, <3>1
  <2>3. Cardinality(pool') \in Nat
    BY <1>0, <2>1, FS_AddElement, FS_CardinalityType
  <2>4. Live' \subseteq pool'
    BY <1>1, <2>1 DEF Opens, PoolInv, Live, isLive, TypeOK
  <2>5. Cardinality(pool') <= MaxConnections
    BY <1>0, <2>1, <2>2, <2>3, BoundsAssumption
  <2> QED
    BY <2>4, <2>5 DEF PoolInv
<1>2. ASSUME NEW S \in SUBSET Sessions, Ends(S) PROVE PoolInv'
  <2>1. pool' \subseteq pool /\ Live' \subseteq pool'
    BY <1>2 DEF Ends, PoolInv, Live
  <2>2. Cardinality(pool') <= Cardinality(pool) /\ Cardinality(pool') \in Nat
    BY <1>0, <2>1, FS_Subset, FS_CardinalityType
  <2> QED
    BY <1>0, <2>1, <2>2, BoundsAssumption DEF PoolInv
<1>3. CASE Rests
  BY <1>3 DEF Rests, PoolInv, Live
<1> QED
  BY <1>1, <1>2, <1>3 DEF StepKind

\* A pod never serves more sessions than it has slots, over TCP and UDP together.
THEOREM CapacityIsKept == Spec => []WithinCapacity
<1>1. Init => TypeOK /\ PoolInv
  BY TypeInit, PoolInit
<1>2. TypeOK /\ PoolInv /\ [Next]_vars => (TypeOK /\ PoolInv)'
  BY TypeStep, StepKinds, PoolStep
<1>3. TypeOK /\ PoolInv => WithinCapacity
  <2> SUFFICES ASSUME TypeOK, PoolInv PROVE WithinCapacity
    OBVIOUS
  <2>1. Cardinality(Live) <= Cardinality(pool)
    BY PoolFinite, FS_Subset DEF PoolInv
  <2>2. Cardinality(Live) \in Nat /\ Cardinality(pool) \in Nat
    BY PoolFinite, FS_Subset, FS_CardinalityType DEF PoolInv
  <2> QED
    BY <2>1, <2>2, BoundsAssumption DEF PoolInv, WithinCapacity
<1> QED
  BY <1>1, <1>2, <1>3, PTL DEF Spec

-----------------------------------------------------------------------------
(* The endpoints *)

\* A live pseudo-session is the one its endpoint names, unless its entry has been
\* removed with another session: so a second one is never opened.
EndpointInv ==
    /\ \A s \in Sessions : isLive(s) => source[s] \in Sources
    /\ IndexIsLive
    /\ \A s \in Sessions :
          isLive(s) /\ transport[s] = "udp" /\ source[s] \notin orphaned
            => byUdpSource[source[s]] = s

LEMMA EndpointInit == Init => EndpointInv
  BY DEF Init, EndpointInv, IndexIsLive, isLive

LEMMA EndpointStep == TypeOK /\ EndpointInv /\ StepKind => EndpointInv'
<1> SUFFICES ASSUME TypeOK, EndpointInv, StepKind PROVE EndpointInv'
  OBVIOUS
<1> USE SessionsAssumption DEF TypeOK, isLive
<1>1. ASSUME NEW s \in Sessions, NEW x \in Sources, NEW t \in {"tcp", "udp"}, Opens(s, x, t)
      PROVE  EndpointInv'
  <2>1. /\ ~isLive(s) /\ isLive(s)' /\ source'[s] = x /\ transport'[s] = t
        /\ \A r \in Sessions \ {s} :
              (isLive(r)' <=> isLive(r)) /\ source'[r] = source[r] /\ transport'[r] = transport[r]
        /\ UNCHANGED orphaned
    BY <1>1 DEF Opens, isLive
  <2>2. CASE t = "tcp" /\ UNCHANGED byUdpSource
    <3>1. ASSUME NEW y \in Sources, byUdpSource[y] # None
          PROVE  /\ byUdpSource[y] \in Sessions \ {s}
                 /\ isLive(byUdpSource[y]) /\ source[byUdpSource[y]] = y
      BY <2>1, <3>1 DEF EndpointInv, IndexIsLive
    <3>2. IndexIsLive'
      BY <2>1, <2>2, <3>1 DEF IndexIsLive
    <3> QED
      BY <2>1, <2>2, <3>2 DEF EndpointInv
  <2>3. CASE /\ t = "udp" /\ udpSessionFor(x) = None
             /\ byUdpSource' = [byUdpSource EXCEPT ![x] = s]
    <3>1. byUdpSource[x] = None
      BY <2>3 DEF udpSessionFor, EndpointInv, IndexIsLive
    <3>2. ASSUME NEW r \in Sessions \ {s}, isLive(r), transport[r] = "udp",
                 source[r] \notin orphaned
          PROVE  source[r] # x
      BY <3>1, <3>2 DEF EndpointInv
    <3>3. IndexIsLive'
      BY <2>1, <2>3 DEF EndpointInv, IndexIsLive
    <3> QED
      BY <2>1, <2>3, <3>2, <3>3 DEF EndpointInv
  <2> QED
    BY <1>1, <2>2, <2>3 DEF Opens
<1>2. ASSUME NEW S \in SUBSET Sessions, Ends(S) PROVE EndpointInv'
  <2>1. /\ byUdpSource' = Forgotten(S) /\ orphaned' = orphaned \cup Orphaned(S)
        /\ UNCHANGED <<source, transport>>
        /\ \A s \in Sessions : isLive(s)' <=> isLive(s) /\ s \notin S
    BY <1>2 DEF Ends, Forget
  <2>2. ASSUME NEW x \in Sources, byUdpSource'[x] # None
        PROVE  isLive(byUdpSource[x])' /\ source'[byUdpSource'[x]] = x
    <3>1. byUdpSource'[x] = byUdpSource[x] /\ \A s \in S : source[s] # x
      BY <2>1, <2>2 DEF Forgotten
    <3>2. /\ byUdpSource[x] \in Sessions /\ isLive(byUdpSource[x])
          /\ source[byUdpSource[x]] = x
      BY <2>2, <3>1 DEF EndpointInv, IndexIsLive
    <3> QED
      BY <2>1, <3>1, <3>2
  <2>3. ASSUME NEW s \in Sessions, isLive(s)', transport'[s] = "udp", source'[s] \notin orphaned'
        PROVE  byUdpSource'[source'[s]] = s
    <3>1. /\ s \notin S /\ source[s] \in Sources /\ byUdpSource[source[s]] = s
          /\ source[s] \notin Orphaned(S)
      BY <2>1, <2>3 DEF EndpointInv
    <3>2. \A r \in S : source[r] # source[s]
      BY <3>1 DEF Orphaned
    <3> QED
      BY <2>1, <3>1, <3>2 DEF Forgotten
  <2> QED
    BY <2>1, <2>2, <2>3 DEF EndpointInv, IndexIsLive
<1>3. CASE Rests
  <2>1. ASSUME NEW y \in Sources, byUdpSource[y] # None
        PROVE  /\ byUdpSource[y] \in Sessions
               /\ isLive(byUdpSource[y]) /\ source[byUdpSource[y]] = y
    BY <2>1 DEF EndpointInv, IndexIsLive
  <2>2. IndexIsLive'
    BY <1>3, <2>1 DEF Rests, IndexIsLive
  <2> QED
    BY <1>3, <2>2 DEF Rests, EndpointInv
<1> QED
  BY <1>1, <1>2, <1>3 DEF StepKind

LEMMA EndpointHolds == Spec => [](TypeOK /\ EndpointInv)
<1>1. Init => TypeOK /\ EndpointInv
  BY TypeInit, EndpointInit
<1>2. TypeOK /\ EndpointInv /\ [Next]_vars => (TypeOK /\ EndpointInv)'
  BY TypeStep, StepKinds, EndpointStep
<1> QED
  BY <1>1, <1>2, PTL DEF Spec

\* A datagram is never given to a session that has ended or to one of another
\* endpoint.
THEOREM IndexIsTrue == Spec => []IndexIsLive
<1>1. TypeOK /\ EndpointInv => IndexIsLive
  BY DEF EndpointInv
<1> QED
  BY <1>1, EndpointHolds, PTL

\* An endpoint has one live pseudo-session, unless another session's close removed
\* its entry.
THEOREM OneSessionPerSource == Spec => []OneLivePerSource
<1>1. TypeOK /\ EndpointInv => OneLivePerSource
  BY DEF EndpointInv, OneLivePerSource, Live
<1> QED
  BY <1>1, EndpointHolds, PTL

-----------------------------------------------------------------------------
(* The slots of TCP connections *)

\* What close() needs to find the socket of a live session: the session is tracked.
SlotInv == Live \subseteq bySession /\ TcpSlotsAreAccounted

\* A step that closes the sessions S ends their sockets or leaves that to Redis.
LEMMA ClosedAccounted ==
  ASSUME TypeOK, SlotInv, NEW S \in SUBSET Sessions, Forget(S), pool' \subseteq pool,
         UNCHANGED transport,
         \A s \in Sessions : isLive(s)' <=> isLive(s) /\ s \notin S,
         ending \subseteq ending',
         \A s \in pool' : \/ socket'[s] = socket[s]
                          \/ socket'[s] = "destroyed",
         \A s \in S \cap pool' : isLive(s) /\ socket[s] = "open" =>
                                 s \in ending' \/ socket'[s] = "destroyed"
  PROVE  SlotInv'
<1>1. Live' \subseteq bySession'
  BY DEF SlotInv, Live, Forget
<1>2. ASSUME NEW s \in pool', transport'[s] = "tcp"
      PROVE  socket'[s] = "destroyed" \/ (socket'[s] = "open" /\ (isLive(s)' \/ s \in ending'))
  <2>1. /\ s \in pool /\ s \in Sessions
        /\ socket[s] = "destroyed" \/ (socket[s] = "open" /\ (isLive(s) \/ s \in ending))
    BY <1>2 DEF SlotInv, TcpSlotsAreAccounted, TypeOK
  <2> QED
    BY <1>2, <2>1
<1> QED
  BY <1>1, <1>2 DEF SlotInv, TcpSlotsAreAccounted

LEMMA CloseAccounted ==
  ASSUME TypeOK, SlotInv, NEW S \in SUBSET Sessions, Close(S),
         UNCHANGED <<aggregates, pool, habits>>
  PROVE  SlotInv'
<1>1. /\ Forget(S) /\ UNCHANGED <<transport, pool>> /\ ending \subseteq ending'
      /\ \A s \in Sessions : isLive(s)' <=> isLive(s) /\ s \notin S
  BY CloseEnds DEF Close, aggregates, Ends
<1>2. \A s \in Sessions : socket'[s] = socket[s] \/ socket'[s] = "destroyed"
  BY DEF Close, TypeOK
<1>3. ASSUME NEW s \in S, isLive(s), socket[s] = "open"
      PROVE  s \in ending' \/ socket'[s] = "destroyed"
  BY <1>3 DEF Close, SlotInv, Live, isLive
<1> QED
  BY <1>1, <1>2, <1>3, ClosedAccounted DEF TypeOK

LEMMA SlotStep == TypeOK /\ SlotInv /\ [Next]_vars => SlotInv'
<1> SUFFICES ASSUME TypeOK, SlotInv, [Next]_vars PROVE SlotInv'
  OBVIOUS
<1> USE DEF aggregates, indexes, clock
<1>1. ASSUME NEW s \in Sessions, NEW x \in Sources, NEW t \in {"tcp", "udp"}, NEW n,
             Open(s, x, t, n), socket' = IF t = "tcp" THEN [socket EXCEPT ![s] = "open"] ELSE socket
      PROVE  SlotInv'
  <2>1. /\ pool' = pool \cup {s} /\ bySession' = bySession \cup {s} /\ UNCHANGED ending
        /\ isLive(s)' /\ transport'[s] = t /\ (t = "tcp" => socket'[s] = "open")
    BY <1>1 DEF Open, admit, isLive, TypeOK
  <2>2. \A r \in Sessions \ {s} : /\ isLive(r)' <=> isLive(r)
                                  /\ transport'[r] = transport[r] /\ socket'[r] = socket[r]
    BY <1>1 DEF Open, isLive, TypeOK
  <2>3. Live' \subseteq bySession'
    BY <2>1, <2>2 DEF SlotInv, Live
  <2>4. TcpSlotsAreAccounted'
    BY <2>1, <2>2 DEF SlotInv, TcpSlotsAreAccounted, TypeOK
  <2> QED
    BY <2>3, <2>4 DEF SlotInv
<1>2. ASSUME NEW s \in Sessions, NEW x \in Sources, OpenUdp(s, x) \/ ConnectTcp(s, x)
      PROVE  SlotInv'
  BY <1>1, <1>2 DEF OpenUdp, ConnectTcp
<1>3. ASSUME NEW s \in Sessions, Rejected(s) \/ SweepCloses(s) PROVE SlotInv'
  BY <1>3, CloseAccounted DEF Rejected, SweepCloses
<1>4. ASSUME NEW s \in Sessions, Authenticated(s) PROVE SlotInv'
  <2>1. PICK T \in SUBSET {r \in Sessions : state[r] = "LIVE"} :
          /\ Forget(T)
          /\ state' = [t \in Sessions |-> IF t \in T THEN "CLOSED"
                                          ELSE IF t = s THEN "LIVE" ELSE state[t]]
          /\ ending' = ending \cup {t \in T : socket[t] = "open"}
    BY <1>4 DEF Authenticated
  <2>2. state[s] = "NEW" /\ UNCHANGED <<transport, pool, socket>>
    BY <1>4 DEF Authenticated
  <2>3. \A r \in Sessions : isLive(r)' <=> isLive(r) /\ r \notin T
    BY <2>1, <2>2 DEF isLive
  <2>4. \A r \in T \cap pool' : isLive(r) /\ socket[r] = "open" => r \in ending'
    BY <2>1
  <2> QED
    BY <2>1, <2>2, <2>3, <2>4, ClosedAccounted
\* The slot goes with the socket.
<1>5. ASSUME NEW s \in Sessions, SocketClosed(s) PROVE SlotInv'
  <2>1. /\ Forget({s}) /\ pool' = pool \ {s} /\ UNCHANGED <<transport, ending>>
        /\ \A r \in Sessions : isLive(r)' <=> isLive(r) /\ r \notin {s}
        /\ \A r \in pool' : socket'[r] = socket[r]
    BY <1>5 DEF SocketClosed, isLive, TypeOK
  <2> QED
    BY <2>1, ClosedAccounted
<1>6. ASSUME NEW s \in Sessions, Terminate(s) PROVE SlotInv'
  <2>1. /\ UNCHANGED <<state, transport, pool, bySession>> /\ ending' = ending \ {s}
        /\ socket' = [socket EXCEPT ![s] = IF @ = "open" THEN "destroyed" ELSE @]
    BY <1>6 DEF Terminate
  <2> QED
    BY <2>1 DEF SlotInv, TcpSlotsAreAccounted, Live, isLive, TypeOK
<1>7. ASSUME UNCHANGED <<state, transport, pool, bySession, socket, ending>> PROVE SlotInv'
  BY <1>7 DEF SlotInv, TcpSlotsAreAccounted, Live, isLive
<1>8. ASSUME NEW s \in Sessions, ReceiveTcp(s) \/ Passed(s) \/ GraceEnds(s) \/ FallSilent(s)
      PROVE  SlotInv'
  BY <1>7, <1>8 DEF ReceiveTcp, Passed, GraceEnds, FallSilent
<1>9. ASSUME SweepCollects \/ (\E x \in Sources : Reuse(x)) PROVE SlotInv'
  BY <1>7, <1>9 DEF SweepCollects, Reuse
<1>10. CASE UNCHANGED vars
  BY <1>7, <1>10 DEF vars
<1> QED
  BY <1>2, <1>3, <1>4, <1>5, <1>6, <1>8, <1>9, <1>10 DEF Next, Answer

\* A TCP connection never keeps a slot behind a socket that nothing will close: whichever of
\* rejection, displacement, sweep and the peer ends its session first, close() has destroyed
\* the socket or is waiting for Redis to do so.
THEOREM TcpSlotsAreHeldByEndingSockets == Spec => []TcpSlotsAreAccounted
<1>1. Init => TypeOK /\ SlotInv
  <2>1. Init => SlotInv
    BY DEF Init, SlotInv, TcpSlotsAreAccounted, Live, isLive
  <2> QED
    BY <2>1, TypeInit
<1>2. TypeOK /\ SlotInv /\ [Next]_vars => (TypeOK /\ SlotInv)'
  BY TypeStep, SlotStep
<1>3. SlotInv => TcpSlotsAreAccounted
  BY DEF SlotInv
<1> QED
  BY <1>1, <1>2, <1>3, PTL DEF Spec
===============================================================================
