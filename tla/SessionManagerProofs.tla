------------------------ MODULE SessionManagerProofs ------------------------
(***************************************************************************)
(* Proofs about SessionManager, for every number of pods, devices and      *)
(* sessions.  The argument is in five layers, each an invariant relative   *)
(* to the ones before it: types and what a session of a given state has    *)
(* bound; the local indexes; the close() calls in flight; who a session is *)
(* closed for; what becomes of a session that ended.  What a step may not  *)
(* do follows from the first two.                                          *)
(***************************************************************************)
EXTENDS SessionManager, TLAPS

-----------------------------------------------------------------------------
(* Layer 1: types, and what each state of a session implies *)

\* A session is bound to a pod once opened and to a device once authenticated,
\* and a handler only awaits what its session has.
Bound(s) ==
    /\ state[s] # "UNOPENED" => pod[s] \in Pods
    /\ state[s] \in {"UNOPENED", "NEW"} => device[s] = None
    /\ state[s] \in {"AUTHENTICATED", "ACTIVE"} => device[s] # None
    /\ handler[s].pc # "idle" => state[s] # "UNOPENED"
    /\ socket[s] # "none" \/ superseder[s] # s => state[s] # "UNOPENED"
    /\ handler[s].pc = "resolve" => handler[s].dev \in Devices
    /\ handler[s].pc \in {"evict", "store", "stored"} => device[s] # None

TypeInv == TypeOK /\ \A s \in Sessions : Bound(s)

LEMMA TypeInvInit == Init => TypeInv
<1> SUFFICES ASSUME Init PROVE TypeInv
  OBVIOUS
<1> USE NoneAssumption DEF Init
<1>1. TypeOK
  BY DEF TypeOK, HandlerType, Idle, FrameKinds, States
<1>2. \A s \in Sessions : Bound(s)
  BY DEF Bound, Idle
<1> QED
  BY <1>1, <1>2 DEF TypeInv

\* The pieces the actions are made of keep the types.
LEMMA ClosedType == ASSUME TypeOK, NEW S PROVE Closed(S) \in [Sessions -> States]
  BY DEF TypeOK, Closed, States

LEMMA DestroyType ==
  ASSUME TypeOK, NEW S
  PROVE  /\ Destroy(S) \in [Sessions -> {"none", "open", "destroyed", "gone"}]
         /\ \A t \in Sessions : Destroy(S)[t] = "none" <=> socket[t] = "none"
  BY DEF TypeOK, Destroy

LEMMA BeginCloseType ==
  ASSUME TypeOK, NEW S \in SUBSET Sessions, NEW by \in Closers, BeginClose(S, by)
  PROVE  /\ tracked' \subseteq Sessions
         /\ byDevice' \in [Pods -> [Devices -> Sessions \cup {None}]]
         /\ closing' \subseteq CloseCall
<1>1. Calls(S, by) \subseteq CloseCall
  <2>1. \A s \in S : isLive(s) \in BOOLEAN
    BY DEF isLive
  <2> QED
    BY <2>1 DEF Calls, CloseCall
<1>2. Unindexed(S) \in [Pods -> [Devices -> Sessions \cup {None}]]
  BY DEF Unindexed, TypeOK
<1> QED
  BY <1>1, <1>2 DEF BeginClose, TypeOK

LEMMA IdleTypes ==
  ASSUME NEW f \in FrameKinds, NEW d \in Devices,
         NEW pc \in {"idle", "resolve", "evict", "store", "stored", "close"}
  PROVE  /\ Idle \in HandlerType
         /\ [Idle EXCEPT !.pc = pc] \in HandlerType
         /\ [Idle EXCEPT !.pc = pc, !.frame = f, !.dev = d] \in HandlerType
  BY DEF Idle, HandlerType, FrameKinds

LEMMA CallTypes ==
  ASSUME NEW c \in CloseCall
  PROVE  /\ [c EXCEPT !.pc = "del"] \in CloseCall
         /\ [c EXCEPT !.pc = "del"].sess = c.sess
         /\ [c EXCEPT !.pc = "del"].by = c.by
         /\ [c EXCEPT !.pc = "del"].live = c.live
  BY DEF CloseCall

LEMMA ProceedType ==
  ASSUME TypeInv, NEW s \in Sessions, NEW f, Proceed(s, f), UNCHANGED <<pod, device, socket, superseder>>,
         state[s] # "UNOPENED"
  PROVE  /\ state' \in [Sessions -> States]
         /\ handler' \in [Sessions -> HandlerType]
         /\ \A t \in Sessions : Bound(t)'
<1> USE NoneAssumption DEF TypeInv, TypeOK
<1> DEFINE h == [Idle EXCEPT !.pc = "store"]
<1>1. /\ Idle \in HandlerType /\ Idle.pc = "idle"
      /\ h \in HandlerType /\ h.pc = "store"
  BY DEF Idle, HandlerType, FrameKinds
<1>2. PICK g \in {Idle, h} : /\ handler' = [handler EXCEPT ![s] = g]
                             /\ g = h => canPublish(s)
  BY <1>1 DEF Proceed, Await
<1>3. handler' \in [Sessions -> HandlerType]
  BY <1>1, <1>2
<1>4. /\ state' \in [Sessions -> States]
      /\ \A t \in Sessions \ {s} : state'[t] = state[t]
      /\ state'[s] = state[s] \/ (state[s] = "AUTHENTICATED" /\ state'[s] = "ACTIVE")
  BY DEF Proceed, States
<1>5. ASSUME NEW t \in Sessions PROVE Bound(t)'
  <2>1. CASE t = s
    BY <1>1, <1>2, <1>4, <2>1 DEF Bound, canPublish
  <2>2. CASE t # s
    BY <1>2, <1>4, <2>2 DEF Bound
  <2> QED
    BY <2>1, <2>2
<1> QED
  BY <1>3, <1>4, <1>5

SocketStates == {"none", "open", "destroyed", "gone"}

\* Whoever closes the sessions S, the types and what is bound survive it.
LEMMA ClosesType ==
  ASSUME TypeInv, NEW S \in SUBSET Sessions, NEW by \in Closers,
         state' = Closed(S), BeginClose(S, by), \A s \in S : pod[s] \in Pods,
         socket' \in [Sessions -> SocketStates],
         \A s \in Sessions : socket'[s] = "none" <=> socket[s] = "none",
         superseder' \in [Sessions -> Sessions],
         \A s \in Sessions : superseder'[s] \in {superseder[s], s},
         mode' \in [Pods -> {"up", "draining", "stopped"}],
         UNCHANGED <<pod, device, slot, handler, history>>
  PROVE  TypeInv'
<1>1. /\ state' \in [Sessions -> States]
      /\ tracked' \subseteq Sessions
      /\ byDevice' \in [Pods -> [Devices -> Sessions \cup {None}]]
      /\ closing' \subseteq CloseCall
  BY ClosedType, BeginCloseType DEF TypeInv
<1>2. TypeOK'
  <2> HIDE DEF BeginClose
  <2> QED
    BY <1>1, Zenon DEF TypeInv, TypeOK, history, SocketStates
<1>3. ASSUME NEW t \in Sessions PROVE Bound(t)'
  <2>1. state'[t] \in {state[t], "CLOSED"} /\ (state'[t] # state[t] => t \in S)
    BY DEF Closed
  <2>2. /\ Bound(t) /\ superseder'[t] \in {superseder[t], t}
        /\ socket'[t] = "none" <=> socket[t] = "none"
        /\ t \in S => pod[t] \in Pods
        /\ UNCHANGED <<pod, device, handler>>
    BY DEF TypeInv
  <2> QED
    BY ONLY <2>1, <2>2 DEF Bound
<1> QED
  BY <1>2, <1>3 DEF TypeInv

LEMMA TypeInvStep == TypeInv /\ [Next]_vars => TypeInv'
<1> SUFFICES ASSUME TypeInv, [Next]_vars PROVE TypeInv'
  OBVIOUS
<1> USE NoneAssumption, FramesAssumption DEF TypeInv, TypeOK, Bound, HandlerType,
        Idle, FrameKinds, Closers, States, aggregates, indexes, history
<1>1. ASSUME NEW s \in Sessions, NEW p \in Pods, Connect(s, p) PROVE TypeInv'
  BY <1>1 DEF Connect
<1>2. ASSUME NEW s \in Sessions, NEW f \in Frames, NEW d \in Devices,
             Dispatch(s, f, d)
      PROVE  TypeInv'
  <2>1. f \in FrameKinds /\ state[s] # "UNOPENED"
    BY <1>2 DEF Dispatch, isLive
  <2>2. CASE f = "LOGIN" \/ ~canPublish(s)
    <3> DEFINE h == [Idle EXCEPT !.pc = "resolve", !.frame = f, !.dev = d]
    <3>1. /\ h \in HandlerType /\ h.pc = "resolve" /\ h.dev = d
          /\ handler' = [handler EXCEPT ![s] = h]
      BY <1>2, <2>1, <2>2 DEF Dispatch, Await
    <3>2. \A t \in Sessions : Bound(t)'
      BY <1>2, <2>1, <2>2, <3>1 DEF Dispatch
    <3> HIDE DEF h
    <3> QED
      BY <1>2, <2>2, <3>1, <3>2 DEF Dispatch
  <2>3. CASE ~(f = "LOGIN" \/ ~canPublish(s))
    BY <1>2, <2>1, <2>3, ProceedType DEF Dispatch
  <2> QED
    BY <2>2, <2>3
<1>3. ASSUME NEW s \in Sessions, LoginRefused(s) PROVE TypeInv'
  <2>1. Closed({s}) \in [Sessions -> States]
    BY ClosedType
  <2>2. /\ tracked' \subseteq Sessions
        /\ byDevice' \in [Pods -> [Devices -> Sessions \cup {None}]]
        /\ closing' \subseteq CloseCall
    BY <1>3, BeginCloseType DEF LoginRefused
  <2>3. Destroy({s}) \in [Sessions -> {"none", "open", "destroyed", "gone"}]
    BY DestroyType
  <2>4. /\ [Idle EXCEPT !.pc = "close"] \in HandlerType
        /\ [Idle EXCEPT !.pc = "close"].pc = "close"
    OBVIOUS
  <2>5. TypeOK'
    BY <1>3, <2>1, <2>2, <2>3, <2>4 DEF LoginRefused, Await
  <2>6. \A t \in Sessions : Bound(t)'
    BY <1>3, <2>4, DestroyType DEF LoginRefused, Await, Closed
  <2> QED
    BY <2>5, <2>6
<1>4. ASSUME NEW s \in Sessions, LoginAccepted(s) PROVE TypeInv'
  <2> DEFINE d == handler[s].dev
             prior == byDevice[pod[s]][d]
             victims == {prior} \cap {t \in Sessions \ {s} : isLive(t)}
             h == [Idle EXCEPT !.pc = "evict", !.frame = handler[s].frame,
                      !.prior = IF victims = {} THEN None ELSE prior]
  <2>1. d \in Devices /\ pod[s] \in Pods /\ state[s] = "NEW"
    BY <1>4 DEF LoginAccepted, mayAuthenticate
  <2>2. prior \in Sessions \cup {None} /\ victims \subseteq Sessions
    BY <2>1
  <2>3. h \in HandlerType /\ h.pc = "evict"
    <3>1. (IF victims = {} THEN None ELSE prior) \in Sessions \cup {None}
      BY ONLY <2>2
    <3>2. handler[s].frame \in FrameKinds
      OBVIOUS
    <3> QED
      BY <3>1, <3>2
  <2>4. /\ state' = [Closed(victims) EXCEPT ![s] = "AUTHENTICATED"]
        /\ device' = [device EXCEPT ![s] = d]
        /\ newest' = [newest EXCEPT ![d] = s]
        /\ BeginClose(victims, "evict")
        /\ handler' = [handler EXCEPT ![s] = h]
        /\ UNCHANGED <<mode, pod, socket, slot, superseder, offlines>>
    BY <1>4 DEF LoginAccepted, Await
  <2>5. Closed(victims) \in [Sessions -> States]
    BY ClosedType
  <2>6. /\ tracked' \subseteq Sessions
        /\ byDevice' \in [Pods -> [Devices -> Sessions \cup {None}]]
        /\ closing' \subseteq CloseCall
    BY <2>2, <2>4, BeginCloseType
  <2>7. \A t \in Sessions : Bound(t)'
    <3> TAKE t \in Sessions
    <3>1. CASE t = s
      <4>1. state'[s] = "AUTHENTICATED"
        BY <2>4, <2>5
      <4>2. device'[s] = d /\ d # None
        BY <2>1, <2>4
      <4>3. handler'[s] = h
        BY <2>4
      <4>4. pod'[s] \in Pods
        BY <2>1, <2>4
      <4> HIDE DEF d, h
      <4> QED
        <5>1. handler'[s].pc = "evict"
          BY ONLY <2>3, <4>3
        <5>2. Bound(s)'
          BY ONLY s \in Sessions, <4>1, <4>2, <4>4, <5>1 DEF Bound
        <5> QED
          BY ONLY <3>1, <5>2
    <3>2. CASE t # s
      <4>1. state'[t] \in {state[t], "CLOSED"} /\ (state'[t] # state[t] => t \in victims)
        BY <2>4, <2>5, <3>2 DEF Closed
      <4>2. t \in victims => state[t] # "UNOPENED"
        BY DEF isLive
      <4>3. /\ handler'[t] = handler[t] /\ device'[t] = device[t]
            /\ UNCHANGED <<pod, socket, superseder>>
        BY <2>4, <3>2
      <4> HIDE DEF victims
      <4> QED
        BY <4>1, <4>2, <4>3
    <3> QED
      BY <3>1, <3>2
  <2> HIDE DEF d, victims, h
  <2> QED
    BY <2>1, <2>3, <2>4, <2>5, <2>6, <2>7 DEF States
<1>5. ASSUME NEW s \in Sessions, LoginIgnored(s) PROVE TypeInv'
  BY <1>5 DEF LoginIgnored, Await
<1>6. ASSUME NEW s \in Sessions, IndexLocally(s) PROVE TypeInv'
  <2> DEFINE h == [Idle EXCEPT !.pc = "store", !.frame = handler[s].frame]
  <2>1. h \in HandlerType /\ h.pc = "store" /\ handler' = [handler EXCEPT ![s] = h]
    BY <1>6 DEF IndexLocally, Await
  <2>2. pod[s] \in Pods /\ device[s] \in Devices
    BY <1>6 DEF IndexLocally
  <2>3. byDevice' \in [Pods -> [Devices -> Sessions \cup {None}]]
    BY <1>6, <2>2 DEF IndexLocally
  <2>4. \A t \in Sessions : Bound(t)'
    BY <1>6, <2>1, <2>2 DEF IndexLocally
  <2> HIDE DEF h
  <2> QED
    BY <1>6, <2>1, <2>3, <2>4 DEF IndexLocally
<1>7. ASSUME NEW s \in Sessions, Store(s) PROVE TypeInv'
  <2>1. PICK h \in {Idle, [Idle EXCEPT !.pc = "stored", !.frame = handler[s].frame]} :
            handler' = [handler EXCEPT ![s] = h]
    BY <1>7 DEF Store, Await
  <2>2. h \in HandlerType /\ h.pc \in {"idle", "stored"}
    <3>1. handler[s].frame \in FrameKinds
      OBVIOUS
    <3>2. /\ [Idle EXCEPT !.pc = "stored", !.frame = handler[s].frame] \in HandlerType
          /\ [Idle EXCEPT !.pc = "stored", !.frame = handler[s].frame].pc = "stored"
      BY <3>1
    <3>3. Idle \in HandlerType /\ Idle.pc = "idle"
      OBVIOUS
    <3> QED
      BY <2>1, <3>2, <3>3
  <2>3. device[s] # None /\ state[s] # "UNOPENED"
    BY <1>7 DEF Store
  <2>4. slot' \in [Devices -> Sessions \cup {None}]
    BY <1>7 DEF Store
  <2>5. \A t \in Sessions : Bound(t)'
    BY <1>7, <2>1, <2>2, <2>3 DEF Store
  <2> QED
    BY <1>7, <2>1, <2>2, <2>4, <2>5 DEF Store
<1>8. ASSUME NEW s \in Sessions, Payload(s) PROVE TypeInv'
  <2>1. state[s] # "UNOPENED"
    BY <1>8 DEF Payload
  <2> QED
    BY <1>8, <2>1, ProceedType DEF Payload
<1>9. ASSUME NEW s \in Sessions, HandlerClosed(s) PROVE TypeInv'
  BY <1>9 DEF HandlerClosed, Await
<1>10. ASSUME NEW s \in Sessions, SocketClosed(s) PROVE TypeInv'
  <2>1. /\ state' = Closed({s}) /\ BeginClose({s}, "socket")
        /\ UNCHANGED <<mode, superseder, pod, device, slot, handler, history>>
        /\ socket' = [socket EXCEPT ![s] = "gone"] /\ socket[s] # "none"
    BY <1>10 DEF SocketClosed
  <2>2. pod[s] \in Pods
    BY <2>1
  <2>3. /\ socket' \in [Sessions -> SocketStates]
        /\ \A t \in Sessions : socket'[t] = "none" <=> socket[t] = "none"
    BY <2>1 DEF SocketStates
  <2>4. /\ superseder' \in [Sessions -> Sessions]
        /\ \A t \in Sessions : superseder'[t] \in {superseder[t], t}
        /\ mode' \in [Pods -> {"up", "draining", "stopped"}]
    BY <2>1
  <2> HIDE DEF TypeInv
  <2> QED
    BY ONLY TypeInv, <2>1, <2>2, <2>3, <2>4, ClosesType DEF Closers, history
<1>11. ASSUME NEW s \in Sessions, SweepGrace(s) PROVE TypeInv'
  <2>1. /\ state' = Closed({s}) /\ BeginClose({s}, "grace")
        /\ UNCHANGED <<mode, superseder, pod, device, slot, handler, history>>
    BY <1>11 DEF SweepGrace
  <2>2. pod[s] \in Pods
    BY <1>11 DEF SweepGrace
  <2>3. /\ socket' \in [Sessions -> SocketStates]
        /\ \A t \in Sessions : socket'[t] = "none" <=> socket[t] = "none"
    BY ONLY TypeInv, <1>11, DestroyType DEF SocketStates, TypeInv, SweepGrace
  <2>4. /\ superseder' \in [Sessions -> Sessions]
        /\ \A t \in Sessions : superseder'[t] \in {superseder[t], t}
        /\ mode' \in [Pods -> {"up", "draining", "stopped"}]
    BY <2>1
  <2> HIDE DEF TypeInv
  <2> QED
    BY ONLY TypeInv, <2>1, <2>2, <2>3, <2>4, ClosesType DEF Closers, history
<1>12. ASSUME NEW s \in Sessions, SweepRead(s) PROVE TypeInv'
  BY <1>12 DEF SweepRead, namesOther
<1>13. ASSUME NEW s \in Sessions, SweepClose(s) PROVE TypeInv'
  <2>1. /\ state' = Closed({s}) /\ BeginClose({s}, "superseded")
        /\ superseder' = [superseder EXCEPT ![s] = s] /\ superseder[s] # s
        /\ UNCHANGED <<mode, socket, pod, device, slot, handler, history>>
    BY <1>13 DEF SweepClose
  <2>2. pod[s] \in Pods
    BY <2>1
  <2>3. /\ socket' \in [Sessions -> SocketStates]
        /\ \A t \in Sessions : socket'[t] = "none" <=> socket[t] = "none"
    BY <2>1 DEF SocketStates
  <2>4. /\ superseder' \in [Sessions -> Sessions]
        /\ \A t \in Sessions : superseder'[t] \in {superseder[t], t}
        /\ mode' \in [Pods -> {"up", "draining", "stopped"}]
    BY <2>1
  <2> HIDE DEF TypeInv
  <2> QED
    BY ONLY TypeInv, <2>1, <2>2, <2>3, <2>4, ClosesType DEF Closers, history
<1>14. ASSUME NEW c \in closing, CloseGet(c) PROVE TypeInv'
  <2>1. closing' \subseteq CloseCall
    BY <1>14, CallTypes DEF CloseGet, Finish
  <2>2. socket' \in [Sessions -> {"none", "open", "destroyed", "gone"}]
    BY <1>14, DestroyType DEF CloseGet, Finish
  <2>3. offlines' \in [Sessions -> Nat]
    BY <1>14 DEF CloseGet, Finish
  <2>4. \A t \in Sessions : socket'[t] = "none" <=> socket[t] = "none"
    BY <1>14, DestroyType DEF CloseGet, Finish
  <2> QED
    BY <1>14, <2>1, <2>2, <2>3, <2>4 DEF CloseGet
<1>15. ASSUME NEW c \in closing, CloseDel(c) PROVE TypeInv'
  <2>1. socket' \in [Sessions -> {"none", "open", "destroyed", "gone"}]
    BY <1>15, DestroyType DEF CloseDel, Finish
  <2>2. offlines' \in [Sessions -> Nat]
    BY <1>15 DEF CloseDel, Finish
  <2>3. \A t \in Sessions : socket'[t] = "none" <=> socket[t] = "none"
    BY <1>15, DestroyType DEF CloseDel, Finish
  <2>4. closing' \subseteq CloseCall /\ slot' \in [Devices -> Sessions \cup {None}]
    BY <1>15 DEF CloseDel, Finish
  <2> QED
    BY <1>15, <2>1, <2>2, <2>3, <2>4 DEF CloseDel
<1>16. ASSUME NEW p \in Pods, BeginShutdown(p) PROVE TypeInv'
  BY <1>16 DEF BeginShutdown
<1>17. ASSUME NEW p \in Pods, CloseAll(p) PROVE TypeInv'
  <2> DEFINE S == {s \in tracked : pod[s] = p}
  <2>1. /\ state' = Closed(S) /\ BeginClose(S, "shutdown")
        /\ mode' = [mode EXCEPT ![p] = "stopped"]
        /\ UNCHANGED <<socket, superseder, pod, device, slot, handler, history>>
    BY <1>17 DEF CloseAll
  <2>2. S \subseteq Sessions /\ \A s \in S : pod[s] \in Pods
    OBVIOUS
  <2>3. /\ socket' \in [Sessions -> SocketStates]
        /\ \A t \in Sessions : socket'[t] = "none" <=> socket[t] = "none"
    BY <2>1 DEF SocketStates
  <2>4. /\ superseder' \in [Sessions -> Sessions]
        /\ \A t \in Sessions : superseder'[t] \in {superseder[t], t}
        /\ mode' \in [Pods -> {"up", "draining", "stopped"}]
    BY <2>1
  <2> HIDE DEF TypeInv
  <2> QED
    BY ONLY TypeInv, <2>1, <2>2, <2>3, <2>4, ClosesType DEF Closers, history
<1>18. ASSUME NEW p \in Pods, Crash(p) PROVE TypeInv'
  <2> DEFINE lost == {s \in Sessions : pod[s] = p}
  <2>1. /\ mode' = [mode EXCEPT ![p] = "up"]
        /\ state' = [s \in Sessions |-> IF s \in lost THEN "LOST" ELSE state[s]]
        /\ socket' = [s \in Sessions |-> IF s \in lost THEN "gone" ELSE socket[s]]
        /\ tracked' \subseteq tracked
        /\ byDevice' = [byDevice EXCEPT ![p] = [d \in Devices |-> None]]
        /\ handler' = [s \in Sessions |-> IF s \in lost THEN Idle ELSE handler[s]]
        /\ closing' \subseteq closing
        /\ superseder' = [s \in Sessions |-> IF s \in lost THEN s ELSE superseder[s]]
        /\ UNCHANGED <<pod, device, slot, offlines, newest>>
    BY <1>18, Zenon DEF Crash
  <2>2. /\ state' \in [Sessions -> States] /\ socket' \in [Sessions -> SocketStates]
        /\ superseder' \in [Sessions -> Sessions]
    BY <2>1 DEF SocketStates
  <2>3. handler' \in [Sessions -> HandlerType]
    BY <2>1
  <2>4. /\ byDevice' \in [Pods -> [Devices -> Sessions \cup {None}]]
        /\ mode' \in [Pods -> {"up", "draining", "stopped"}]
        /\ tracked' \subseteq Sessions /\ closing' \subseteq CloseCall
    BY <2>1
  <2>5. TypeOK'
    BY <2>1, <2>2, <2>3, <2>4, Zenon DEF SocketStates
  <2>6. ASSUME NEW t \in Sessions PROVE Bound(t)'
    <3>1. CASE t \in lost
      BY <2>1, <3>1
    <3>2. CASE t \notin lost
      BY <2>1, <3>2
    <3> QED
      BY <3>1, <3>2
  <2> QED
    BY <2>5, <2>6
<1>19. ASSUME NEW d \in Devices, Expire(d) PROVE TypeInv'
  BY <1>19 DEF Expire
<1>20. CASE UNCHANGED vars
  BY <1>20 DEF vars
<1> QED
  BY <1>1, <1>2, <1>3, <1>4, <1>5, <1>6, <1>7, <1>8, <1>9, <1>10, <1>11, <1>12,
     <1>13, <1>14, <1>15, <1>16, <1>17, <1>18, <1>19, <1>20
     DEF Next, HandlerStep, CloseStep, Rest

\* Type correctness, with what each state of a session implies.
THEOREM TypeCorrect == Spec => []TypeInv
<1>1. Init => TypeInv
  BY TypeInvInit
<1>2. TypeInv /\ [Next]_vars => TypeInv'
  BY TypeInvStep
<1> QED
  BY <1>1, <1>2, PTL DEF Spec

-----------------------------------------------------------------------------
(* Layer 2: the local indexes *)

\* An index entry names a session of that pod and that device, and a live
\* session has its writer.
IndexInv ==
    /\ \A p \in Pods, d \in Devices :
          LET s == byDevice[p][d] IN s # None => pod[s] = p /\ device[s] = d
    /\ \A s \in Sessions : isLive(s) => s \in tracked

LEMMA IndexInvInit == Init => IndexInv
  BY DEF Init, IndexInv, isLive

LEMMA BeginCloseIndex ==
  ASSUME TypeInv, IndexInv, NEW S \in SUBSET Sessions, NEW by,
         BeginClose(S, by), state' = Closed(S), UNCHANGED <<pod, device>>
  PROVE  IndexInv'
  BY DEF TypeInv, TypeOK, IndexInv, BeginClose, Unindexed, Closed, isLive

LEMMA IndexInvStep == TypeInv /\ IndexInv /\ [Next]_vars => IndexInv'
<1> SUFFICES ASSUME TypeInv, IndexInv, [Next]_vars PROVE IndexInv'
  OBVIOUS
<1> USE NoneAssumption DEF TypeInv, TypeOK, Bound, aggregates, indexes, history
<1>1. ASSUME NEW s \in Sessions, NEW p \in Pods, Connect(s, p) PROVE IndexInv'
  BY <1>1 DEF Connect, IndexInv, isLive
<1>2. ASSUME NEW s \in Sessions, NEW f, Proceed(s, f),
             UNCHANGED <<pod, device, tracked, byDevice>>
      PROVE  IndexInv'
  BY <1>2 DEF Proceed, IndexInv, isLive
<1>3. ASSUME NEW s \in Sessions, NEW f \in Frames, NEW d \in Devices,
             Dispatch(s, f, d)
      PROVE  IndexInv'
  BY <1>2, <1>3 DEF Dispatch, IndexInv, isLive
<1>4. ASSUME NEW s \in Sessions, LoginRefused(s) PROVE IndexInv'
  BY <1>4, BeginCloseIndex DEF LoginRefused
<1>5. ASSUME NEW s \in Sessions, LoginAccepted(s) PROVE IndexInv'
  <2>1. PICK V \in SUBSET (Sessions \ {s}) :
            /\ \A t \in V : isLive(t)
            /\ state' = [Closed(V) EXCEPT ![s] = "AUTHENTICATED"]
            /\ BeginClose(V, "evict")
    BY <1>5 DEF LoginAccepted
  <2>2. /\ device[s] = None /\ s \in tracked
        /\ \A t \in Sessions \ {s} : device'[t] = device[t]
        /\ UNCHANGED pod
    BY <1>5 DEF LoginAccepted, mayAuthenticate, IndexInv, isLive
  <2>3. ASSUME NEW p \in Pods, NEW d \in Devices, byDevice'[p][d] # None
        PROVE  pod'[byDevice'[p][d]] = p /\ device'[byDevice'[p][d]] = d
    <3>1. byDevice'[p][d] = byDevice[p][d]
      BY <2>1, <2>3 DEF BeginClose, Unindexed
    <3>2. byDevice[p][d] \in Sessions \ {s}
      BY <2>2, <2>3, <3>1 DEF IndexInv
    <3>3. pod[byDevice[p][d]] = p /\ device[byDevice[p][d]] = d
      BY <2>3, <3>1 DEF IndexInv
    <3> QED
      BY <2>2, <3>1, <3>2, <3>3
  <2>4. ASSUME NEW t \in Sessions, isLive(t)' PROVE t \in tracked'
    BY <2>1, <2>2, <2>4 DEF BeginClose, Closed, IndexInv, isLive
  <2> QED
    BY <2>3, <2>4 DEF IndexInv
<1>6. ASSUME NEW s \in Sessions, LoginIgnored(s) PROVE IndexInv'
  BY <1>6 DEF LoginIgnored, IndexInv, isLive
<1>7. ASSUME NEW s \in Sessions, IndexLocally(s) PROVE IndexInv'
  BY <1>7 DEF IndexLocally, IndexInv, isLive
<1>8. ASSUME NEW s \in Sessions, Store(s) PROVE IndexInv'
  BY <1>8 DEF Store, IndexInv, isLive
<1>9. ASSUME NEW s \in Sessions, Payload(s) PROVE IndexInv'
  BY <1>2, <1>9 DEF Payload
<1>10. ASSUME NEW s \in Sessions, HandlerClosed(s) PROVE IndexInv'
  BY <1>10 DEF HandlerClosed, IndexInv, isLive
<1>11. ASSUME NEW s \in Sessions, SocketClosed(s) PROVE IndexInv'
  BY <1>11, BeginCloseIndex DEF SocketClosed
<1>12. ASSUME NEW s \in Sessions, SweepGrace(s) PROVE IndexInv'
  BY <1>12, BeginCloseIndex DEF SweepGrace
<1>13. ASSUME NEW s \in Sessions, SweepRead(s) PROVE IndexInv'
  BY <1>13 DEF SweepRead, IndexInv, isLive
<1>14. ASSUME NEW s \in Sessions, SweepClose(s) PROVE IndexInv'
  BY <1>14, BeginCloseIndex DEF SweepClose
<1>15. ASSUME NEW c \in closing, CloseStep(c) PROVE IndexInv'
  BY <1>15 DEF CloseStep, CloseGet, CloseDel, IndexInv, isLive
<1>16. ASSUME NEW p \in Pods, BeginShutdown(p) PROVE IndexInv'
  BY <1>16 DEF BeginShutdown, IndexInv, isLive
<1>17. ASSUME NEW p \in Pods, CloseAll(p) PROVE IndexInv'
  <2>1. {s \in tracked : pod[s] = p} \in SUBSET Sessions
    OBVIOUS
  <2> QED
    BY <1>17, <2>1, BeginCloseIndex DEF CloseAll
<1>18. ASSUME NEW p \in Pods, Crash(p) PROVE IndexInv'
  BY <1>18 DEF Crash, IndexInv, isLive
<1>19. ASSUME NEW d \in Devices, Expire(d) PROVE IndexInv'
  BY <1>19 DEF Expire, IndexInv, isLive
<1>20. CASE UNCHANGED vars
  BY <1>20 DEF vars, IndexInv, isLive
<1> QED
  BY <1>1, <1>3, <1>4, <1>5, <1>6, <1>7, <1>8, <1>9, <1>10, <1>11, <1>12, <1>13,
     <1>14, <1>15, <1>16, <1>17, <1>18, <1>19, <1>20
     DEF Next, HandlerStep, Rest

\* A command never goes to the wrong socket nor to a dead one.
THEOREM DispatchIsSafe == Spec => []DispatchableIsWritable
<1>1. Init => TypeInv /\ IndexInv
  BY TypeInvInit, IndexInvInit
<1>2. TypeInv /\ IndexInv /\ [Next]_vars => (TypeInv /\ IndexInv)'
  BY TypeInvStep, IndexInvStep
<1>3. TypeInv /\ IndexInv => DispatchableIsWritable
  <2> SUFFICES ASSUME TypeInv, IndexInv, NEW p \in Pods, NEW d \in Devices,
                      byDevice[p][d] # None, canDispatchCommand(byDevice[p][d])
               PROVE  /\ byDevice[p][d] \in tracked
                      /\ pod[byDevice[p][d]] = p /\ device[byDevice[p][d]] = d
    BY DEF DispatchableIsWritable
  <2>1. byDevice[p][d] \in Sessions
    BY DEF TypeInv, TypeOK
  <2> QED
    BY <2>1 DEF IndexInv, isLive, canDispatchCommand
<1> QED
  BY <1>1, <1>2, <1>3, PTL DEF Spec

-----------------------------------------------------------------------------
(* Layer 3: the close() calls in flight *)

\* Every call in flight is about a closed session of a known device; the calls
\* that will announce it have not done so, and are at most one per session.
CallsInv ==
    /\ \A c \in closing : state[c.sess] = "CLOSED" /\ device[c.sess] # None
    /\ \A c \in closing : c.live => offlines[c.sess] = 0
    /\ \A c1, c2 \in closing :
          c1.live /\ c2.live /\ c1.sess = c2.sess => c1 = c2
    /\ DisconnectedOnce

LEMMA CallsInvInit == Init => CallsInv
  BY DEF Init, CallsInv, DisconnectedOnce

\* Whatever does not touch the calls and the announcements, and lets closed
\* sessions be, keeps CallsInv.
LEMMA CallsInvFrame ==
  ASSUME TypeInv, CallsInv, UNCHANGED <<closing, offlines>>,
         \A s \in Sessions : state[s] \in {"CLOSED", "LOST"} =>
             state'[s] = state[s] /\ device'[s] = device[s]
  PROVE  CallsInv'
  BY DEF TypeInv, TypeOK, CloseCall, CallsInv, DisconnectedOnce

\* A session that has not ended has announced nothing.
LEMMA LiveUnannounced ==
  ASSUME TypeInv, CallsInv, NEW s \in Sessions, isLive(s)
  PROVE  offlines[s] = 0
<1>1. \A n \in Nat : n <= 1 /\ n # 1 => n = 0
  OBVIOUS
<1>2. offlines[s] \in Nat /\ offlines[s] <= 1 /\ offlines[s] # 1
  BY DEF TypeInv, TypeOK, CallsInv, DisconnectedOnce, isLive
<1> QED
  BY <1>1, <1>2

LEMMA CallsInvClose ==
  ASSUME TypeInv, CallsInv, NEW S \in SUBSET Sessions, NEW by,
         BeginClose(S, by), UNCHANGED offlines,
         \A s \in S : state'[s] = "CLOSED" /\ device'[s] = device[s],
         \A s \in Sessions \ S : state[s] \in {"CLOSED", "LOST"} =>
             state'[s] = state[s] /\ device'[s] = device[s]
  PROVE  CallsInv'
<1> USE DEF TypeInv, TypeOK
<1>1. ASSUME NEW c \in Calls(S, by)
      PROVE  /\ c.sess \in S /\ device[c.sess] # None /\ (c.live => isLive(c.sess))
             /\ c = [sess |-> c.sess, by |-> by, live |-> c.live, pc |-> "get"]
  BY DEF Calls
<1>2. \A c \in closing : c.sess \in Sessions /\ ~isLive(c.sess)
  BY DEF CloseCall, CallsInv, isLive
<1>3. closing' = closing \cup Calls(S, by)
  BY DEF BeginClose
<1>4. ASSUME NEW c \in closing' PROVE state'[c.sess] = "CLOSED" /\ device'[c.sess] # None
  BY <1>1, <1>2, <1>3 DEF CallsInv
<1>5. ASSUME NEW c \in closing', c.live PROVE offlines'[c.sess] = 0
  <2>1. CASE c \in closing
    BY <1>5, <2>1 DEF CallsInv
  <2>2. CASE c \in Calls(S, by)
    <3>1. c.sess \in Sessions /\ isLive(c.sess)
      BY <1>1, <1>5, <2>2
    <3>2. offlines' = offlines
      OBVIOUS
    <3> QED
      BY <3>1, <3>2, LiveUnannounced
  <2> QED
    BY <1>3, <2>1, <2>2
<1>6. ASSUME NEW c1 \in closing', NEW c2 \in closing',
             c1.live, c2.live, c1.sess = c2.sess
      PROVE  c1 = c2
  <2>1. CASE c1 \in closing /\ c2 \in closing
    BY <1>6, <2>1 DEF CallsInv
  <2>2. CASE c1 \in Calls(S, by) /\ c2 \in Calls(S, by)
    <3>1. PICK s1 \in S, s2 \in S :
              /\ c1 = [sess |-> s1, by |-> by, live |-> isLive(s1), pc |-> "get"]
              /\ c2 = [sess |-> s2, by |-> by, live |-> isLive(s2), pc |-> "get"]
      BY <2>2 DEF Calls
    <3> QED
      BY <1>6, <3>1
  <2>3. CASE c1 \in closing /\ c2 \in Calls(S, by)
    BY <1>1, <1>2, <1>6, <2>3
  <2>4. CASE c1 \in Calls(S, by) /\ c2 \in closing
    BY <1>1, <1>2, <1>6, <2>4
  <2> QED
    BY <1>3, <2>1, <2>2, <2>3, <2>4
<1>7. DisconnectedOnce'
  BY DEF CallsInv, DisconnectedOnce
<1> QED
  BY <1>4, <1>5, <1>6, <1>7 DEF CallsInv

LEMMA CallsInvFinish ==
  ASSUME TypeInv, CallsInv, NEW c \in closing, Finish(c), UNCHANGED <<state, device>>
  PROVE  CallsInv'
<1> USE DEF TypeInv, TypeOK
<1>1. c.sess \in Sessions /\ closing' = closing \ {c}
  BY DEF CloseCall, Finish
<1>2. CASE c.live
  <2>1. /\ offlines[c.sess] = 0
        /\ offlines' = [offlines EXCEPT ![c.sess] = 1]
    BY <1>2 DEF CallsInv, Finish
  <2>2. ASSUME NEW e \in closing', e.live PROVE e.sess # c.sess
    BY <1>1, <1>2, <2>2 DEF CallsInv
  <2>3. \A e \in closing' : e.live => offlines'[e.sess] = 0
    BY <1>1, <2>1, <2>2 DEF CallsInv, CloseCall
  <2>4. DisconnectedOnce'
    BY <1>1, <2>1 DEF CallsInv, DisconnectedOnce
  <2> QED
    BY <1>1, <2>3, <2>4 DEF CallsInv
<1>3. CASE ~c.live
  BY <1>1, <1>3 DEF Finish, CallsInv, DisconnectedOnce
<1> QED
  BY <1>2, <1>3

LEMMA CallsInvStep == TypeInv /\ CallsInv /\ [Next]_vars => CallsInv'
<1> SUFFICES ASSUME TypeInv, CallsInv, [Next]_vars PROVE CallsInv'
  OBVIOUS
<1> USE NoneAssumption DEF TypeInv, TypeOK, Bound, aggregates, indexes, history
<1>1. ASSUME NEW s \in Sessions, NEW p \in Pods, Connect(s, p) PROVE CallsInv'
  BY <1>1, CallsInvFrame DEF Connect
<1>2. ASSUME NEW s \in Sessions, NEW f, Proceed(s, f),
             UNCHANGED <<device, closing, offlines>>
      PROVE  CallsInv'
  BY <1>2, CallsInvFrame DEF Proceed
<1>3. ASSUME NEW s \in Sessions, NEW f \in Frames, NEW d \in Devices,
             Dispatch(s, f, d)
      PROVE  CallsInv'
  BY <1>2, <1>3, CallsInvFrame DEF Dispatch
<1>4. ASSUME NEW s \in Sessions, LoginRefused(s) PROVE CallsInv'
  BY <1>4, CallsInvClose DEF LoginRefused, Closed
<1>5. ASSUME NEW s \in Sessions, LoginAccepted(s) PROVE CallsInv'
  <2>1. PICK V \in SUBSET (Sessions \ {s}) :
            /\ state' = [Closed(V) EXCEPT ![s] = "AUTHENTICATED"]
            /\ BeginClose(V, "evict")
    BY <1>5 DEF LoginAccepted
  <2>2. /\ state[s] = "NEW" /\ UNCHANGED offlines
        /\ \A t \in Sessions \ {s} : device'[t] = device[t]
    BY <1>5 DEF LoginAccepted, mayAuthenticate
  <2>3. /\ \A t \in V : state'[t] = "CLOSED"
        /\ \A t \in Sessions \ V : t # s => state'[t] = state[t]
    BY <2>1 DEF Closed
  <2> QED
    BY <2>1, <2>2, <2>3, CallsInvClose
<1>6. ASSUME NEW s \in Sessions, LoginIgnored(s) PROVE CallsInv'
  BY <1>6, CallsInvFrame DEF LoginIgnored
<1>7. ASSUME NEW s \in Sessions, IndexLocally(s) PROVE CallsInv'
  BY <1>7, CallsInvFrame DEF IndexLocally
<1>8. ASSUME NEW s \in Sessions, Store(s) PROVE CallsInv'
  BY <1>8, CallsInvFrame DEF Store
<1>9. ASSUME NEW s \in Sessions, Payload(s) PROVE CallsInv'
  BY <1>2, <1>9 DEF Payload
<1>10. ASSUME NEW s \in Sessions, HandlerClosed(s) PROVE CallsInv'
  BY <1>10, CallsInvFrame DEF HandlerClosed
<1>11. ASSUME NEW s \in Sessions, SocketClosed(s) PROVE CallsInv'
  BY <1>11, CallsInvClose DEF SocketClosed, Closed
<1>12. ASSUME NEW s \in Sessions, SweepGrace(s) PROVE CallsInv'
  BY <1>12, CallsInvClose DEF SweepGrace, Closed
<1>13. ASSUME NEW s \in Sessions, SweepRead(s) PROVE CallsInv'
  BY <1>13, CallsInvFrame DEF SweepRead
<1>14. ASSUME NEW s \in Sessions, SweepClose(s) PROVE CallsInv'
  BY <1>14, CallsInvClose DEF SweepClose, Closed
<1>15. ASSUME NEW c \in closing, CloseGet(c) PROVE CallsInv'
  <2>1. CASE Finish(c)
    BY <1>15, <2>1, CallsInvFinish DEF CloseGet
  <2>2. CASE /\ closing' = (closing \ {c}) \cup {[c EXCEPT !.pc = "del"]}
             /\ UNCHANGED offlines
    <3> DEFINE e == [c EXCEPT !.pc = "del"]
    <3>1. e.sess = c.sess /\ e.live = c.live
      BY CallTypes
    <3>2. UNCHANGED <<state, device, offlines>>
      BY <1>15, <2>2 DEF CloseGet
    <3>3. closing' = (closing \ {c}) \cup {e}
      BY <2>2
    <3> HIDE DEF e
    <3>4. ASSUME NEW g \in closing \ {c}, g.live, e.live PROVE g.sess # e.sess
      BY <3>1, <3>4 DEF CallsInv
    <3>5. DisconnectedOnce'
      BY <3>2 DEF CallsInv, DisconnectedOnce
    <3> QED
      BY <3>1, <3>2, <3>3, <3>4, <3>5 DEF CallsInv
  <2> QED
    BY <1>15, <2>1, <2>2 DEF CloseGet
<1>16. ASSUME NEW c \in closing, CloseDel(c) PROVE CallsInv'
  BY <1>16, CallsInvFinish DEF CloseDel
<1>17. ASSUME NEW p \in Pods, BeginShutdown(p) PROVE CallsInv'
  BY <1>17, CallsInvFrame DEF BeginShutdown
<1>18. ASSUME NEW p \in Pods, CloseAll(p) PROVE CallsInv'
  BY <1>18, CallsInvClose DEF CloseAll, Closed
<1>19. ASSUME NEW p \in Pods, Crash(p) PROVE CallsInv'
  <2>1. /\ closing' = {c \in closing : pod[c.sess] # p}
        /\ UNCHANGED <<device, offlines>>
    <3>1. /\ closing' = {c \in closing : c.sess \notin {s \in Sessions : pod[s] = p}}
          /\ UNCHANGED <<device, offlines>>
      BY <1>19 DEF Crash
    <3>2. \A c \in closing : c.sess \in Sessions
      BY DEF CloseCall
    <3> QED
      BY ONLY <3>1, <3>2
  <2>2. \A s \in Sessions : state'[s] = IF pod[s] = p THEN "LOST" ELSE state[s]
    BY <1>19 DEF Crash
  <2> QED
    BY <2>1, <2>2 DEF CallsInv, DisconnectedOnce, CloseCall
<1>20. ASSUME NEW d \in Devices, Expire(d) PROVE CallsInv'
  BY <1>20, CallsInvFrame DEF Expire
<1>21. CASE UNCHANGED vars
  BY <1>21, CallsInvFrame DEF vars
<1> QED
  BY <1>1, <1>3, <1>4, <1>5, <1>6, <1>7, <1>8, <1>9, <1>10, <1>11, <1>12, <1>13,
     <1>14, <1>15, <1>16, <1>17, <1>18, <1>19, <1>20, <1>21
     DEF Next, HandlerStep, CloseStep, Rest

\* DISCONNECTED is announced at most once per session, however many close()
\* calls race on it.
THEOREM AnnouncedOnce == Spec => []DisconnectedOnce
<1>1. Init => TypeInv /\ CallsInv
  BY TypeInvInit, CallsInvInit
<1>2. TypeInv /\ CallsInv /\ [Next]_vars => (TypeInv /\ CallsInv)'
  BY TypeInvStep, CallsInvStep
<1>3. CallsInv => DisconnectedOnce
  BY DEF CallsInv
<1> QED
  BY <1>1, <1>2, <1>3, PTL DEF Spec

-----------------------------------------------------------------------------
(* Layer 4: who a session is closed for *)

\* A Redis entry, and what a sweep has read of one, names a session of the
\* device; every eviction under way has the session that evicts.
RivalInv ==
    /\ \A d \in Devices : slot[d] # None => device[slot[d]] = d
    /\ \A s \in Sessions : superseder[s] # s =>
          device[s] # None /\ device[superseder[s]] = device[s]
    /\ ClosedForARival

Evicts(t, s) ==
    /\ t # s /\ handler[t].pc = "evict" /\ handler[t].prior = s
    /\ device[t] = device[s] /\ pod[t] = pod[s]

LEMMA RivalInvInit == Init => RivalInv
  BY DEF Init, RivalInv, ClosedForARival

\* What leaves the handlers that evict alone, and adds no close for a rival,
\* keeps the rivals.
LEMMA RivalKept ==
  ASSUME TypeInv, ClosedForARival, UNCHANGED <<pod, device, newest>>,
         \A c \in closing' :
             c.by \notin {"evict", "superseded"} \/
             \E e \in closing : e.sess = c.sess /\ e.by = c.by,
         \A t \in Sessions : handler[t].pc = "evict" =>
             \/ handler'[t] = handler[t]
             \/ \A c \in closing' : c.by # "evict" \/ c.sess # handler[t].prior
  PROVE  ClosedForARival'
<1>1. ASSUME NEW c \in closing', c.by = "evict"
      PROVE  /\ newest'[device'[c.sess]] # c.sess
             /\ \E t \in Sessions \ {c.sess} :
                   /\ handler'[t].pc = "evict" /\ handler'[t].prior = c.sess
                   /\ device'[t] = device'[c.sess] /\ pod'[t] = pod'[c.sess]
  <2>1. PICK e \in closing : e.sess = c.sess /\ e.by = "evict"
    BY <1>1
  <2>2. PICK t \in Sessions \ {c.sess} : Evicts(t, c.sess)
    BY <2>1 DEF ClosedForARival, Evicts
  <2>3. handler'[t] = handler[t]
    BY <1>1, <2>2 DEF Evicts
  <2> QED
    BY <2>1, <2>2, <2>3 DEF ClosedForARival, Evicts
<1>2. ASSUME NEW c \in closing', c.by = "superseded"
      PROVE  \E t \in Sessions \ {c.sess} : device'[t] = device'[c.sess]
  BY <1>2 DEF ClosedForARival
<1> QED
  BY <1>1, <1>2 DEF ClosedForARival

\* The rest of RivalInv, under steps that leave the entries and what was read of
\* them as they are, or forget them.
LEMMA EntriesKept ==
  ASSUME TypeInv, RivalInv, UNCHANGED device,
         \A d \in Devices : slot'[d] \in {slot[d], None},
         \A s \in Sessions : superseder'[s] \in {superseder[s], s},
         ClosedForARival'
  PROVE  RivalInv'
  BY DEF RivalInv, TypeInv, TypeOK

LEMMA RivalClose ==
  ASSUME TypeInv, RivalInv, NEW S \in SUBSET Sessions, NEW by \in Closers \ {"evict"},
         BeginClose(S, by), UNCHANGED <<pod, device, newest, slot>>,
         \A s \in Sessions : superseder'[s] \in {superseder[s], s},
         \A t \in Sessions : handler[t].pc = "evict" => handler'[t] = handler[t],
         by = "superseded" =>
             \A s \in S : \E t \in Sessions \ {s} : device[t] = device[s]
  PROVE  RivalInv'
<1>1. ASSUME NEW c \in closing'
      PROVE  c \in closing \/ (c.by = by /\ c.sess \in S)
  BY DEF BeginClose, Calls
<1>2. ASSUME NEW c \in closing', c.by = "evict"
      PROVE  /\ newest'[device'[c.sess]] # c.sess
             /\ \E t \in Sessions \ {c.sess} :
                   /\ handler'[t].pc = "evict" /\ handler'[t].prior = c.sess
                   /\ device'[t] = device'[c.sess] /\ pod'[t] = pod'[c.sess]
  <2>1. c \in closing
    BY <1>1, <1>2
  <2>2. PICK t \in Sessions \ {c.sess} : Evicts(t, c.sess)
    BY <1>2, <2>1 DEF RivalInv, ClosedForARival, Evicts
  <2> QED
    BY <1>2, <2>1, <2>2 DEF RivalInv, ClosedForARival, Evicts
<1>3. ASSUME NEW c \in closing', c.by = "superseded"
      PROVE  \E t \in Sessions \ {c.sess} : device'[t] = device'[c.sess]
  BY <1>1, <1>3 DEF RivalInv, ClosedForARival
<1>4. ClosedForARival'
  BY <1>2, <1>3 DEF ClosedForARival
<1> QED
  BY <1>4, EntriesKept

LEMMA RivalLogin ==
  ASSUME TypeInv, IndexInv, CallsInv, RivalInv, NEW s \in Sessions, LoginAccepted(s)
  PROVE  RivalInv'
<1> DEFINE dev == handler[s].dev
           prior == byDevice[pod[s]][dev]
           V == {prior} \cap {t \in Sessions \ {s} : isLive(t)}
<1>1. /\ handler[s].pc = "resolve" /\ state[s] = "NEW" /\ device[s] = None
      /\ dev \in Devices /\ pod[s] \in Pods
  BY DEF LoginAccepted, mayAuthenticate, TypeInv, Bound
<1>2. /\ BeginClose(V, "evict") /\ UNCHANGED <<pod, slot, superseder>>
      /\ device' = [device EXCEPT ![s] = dev]
      /\ newest' = [newest EXCEPT ![dev] = s]
      /\ handler' = [handler EXCEPT ![s] = [Idle EXCEPT !.pc = "evict",
                        !.frame = handler[s].frame,
                        !.prior = IF V = {} THEN None ELSE prior]]
  BY DEF LoginAccepted, Await
<1>3. /\ \A t \in Sessions \ {s} : device'[t] = device[t] /\ handler'[t] = handler[t]
      /\ device'[s] = dev /\ newest'[dev] = s
      /\ \A d \in Devices \ {dev} : newest'[d] = newest[d]
      /\ handler'[s].pc = "evict"
      /\ V # {} => handler'[s].prior = prior
  BY <1>1, <1>2 DEF TypeInv, TypeOK, Idle
<1>4. ASSUME NEW c \in closing
      PROVE  c.sess \in Sessions \ {s} /\ device[c.sess] \in Devices
  <2>1. c.sess \in Sessions
    BY DEF TypeInv, TypeOK, CloseCall
  <2>2. device[c.sess] # None
    BY DEF CallsInv
  <2> QED
    BY <1>1, <2>1, <2>2 DEF TypeInv, TypeOK
<1>5. ASSUME NEW c \in closing'
      PROVE  c \in closing \/ (c.by = "evict" /\ c.sess = prior /\ V # {})
  BY <1>2 DEF BeginClose, Calls
<1>6. V # {} => prior \in Sessions \ {s} /\ device[prior] = dev /\ pod[prior] = pod[s]
  BY <1>1, NoneAssumption DEF IndexInv
<1> HIDE DEF dev, prior, V
<1>7. ASSUME NEW c \in closing', c.by = "evict"
      PROVE  /\ newest'[device'[c.sess]] # c.sess
             /\ \E t \in Sessions \ {c.sess} :
                   /\ handler'[t].pc = "evict" /\ handler'[t].prior = c.sess
                   /\ device'[t] = device'[c.sess] /\ pod'[t] = pod'[c.sess]
  <2>1. CASE c \in closing
    <3>1. PICK t \in Sessions \ {c.sess} : Evicts(t, c.sess)
      BY <1>7, <2>1 DEF RivalInv, ClosedForARival, Evicts
    <3>2. t # s /\ newest[device[c.sess]] # c.sess
      BY <1>1, <1>7, <2>1, <3>1 DEF RivalInv, ClosedForARival, Evicts
    <3>3. newest'[device'[c.sess]] # c.sess
      BY <1>3, <1>4, <2>1, <3>2
    <3> QED
      BY <1>2, <1>3, <1>4, <2>1, <3>1, <3>2, <3>3 DEF Evicts
  <2>2. CASE c.sess = prior /\ V # {}
    BY <1>2, <1>3, <1>6, <2>2
  <2> QED
    BY <1>5, <2>1, <2>2
<1>8. ASSUME NEW c \in closing', c.by = "superseded"
      PROVE  \E t \in Sessions \ {c.sess} : device'[t] = device'[c.sess]
  <2>1. c \in closing
    BY <1>5, <1>8
  <2>2. PICK t \in Sessions \ {c.sess} : device[t] = device[c.sess]
    BY <1>8, <2>1 DEF RivalInv, ClosedForARival
  <2>3. t # s
    BY <1>1, <1>4, <2>1, <2>2, NoneAssumption
  <2> QED
    BY <1>3, <1>4, <2>1, <2>2, <2>3
<1>9. ASSUME NEW d \in Devices, slot'[d] # None PROVE device'[slot'[d]] = d
  BY <1>1, <1>2, <1>3, <1>9, NoneAssumption DEF RivalInv, TypeInv, TypeOK
<1>10. ASSUME NEW u \in Sessions, superseder'[u] # u
       PROVE  device'[u] # None /\ device'[superseder'[u]] = device'[u]
  BY <1>1, <1>2, <1>3, <1>10, NoneAssumption DEF RivalInv, TypeInv, TypeOK
<1>11. ClosedForARival'
  BY ONLY <1>7, <1>8 DEF ClosedForARival
<1> QED
  BY ONLY <1>9, <1>10, <1>11 DEF RivalInv

\* A step of a close() call: the call goes on or ends.
LEMMA RivalCall ==
  ASSUME TypeInv, CallsInv, RivalInv, NEW c \in closing, CloseStep(c)
  PROVE  RivalInv'
<1>1. /\ UNCHANGED <<pod, device, newest, handler, superseder>>
      /\ \A d \in Devices : slot'[d] \in {slot[d], None}
  BY DEF CloseStep, CloseGet, CloseDel, aggregates, indexes, TypeInv, TypeOK
<1>2. \A e \in closing' : \E f \in closing : f.sess = e.sess /\ f.by = e.by
  <2>1. CASE Finish(c)
    BY <2>1 DEF Finish
  <2>2. CASE closing' = (closing \ {c}) \cup {[c EXCEPT !.pc = "del"]}
    <3>1. c \in CloseCall
      BY DEF TypeInv, TypeOK
    <3> QED
      BY <2>2, <3>1, CallTypes
  <2>3. Finish(c) \/ closing' = (closing \ {c}) \cup {[c EXCEPT !.pc = "del"]}
    BY Zenon DEF CloseStep, CloseGet, CloseDel
  <2> QED
    BY ONLY <2>1, <2>2, <2>3
<1>3. ClosedForARival'
  BY <1>1, <1>2, RivalKept DEF RivalInv
<1> QED
  BY <1>1, <1>3, EntriesKept

LEMMA RivalCrash ==
  ASSUME TypeInv, CallsInv, RivalInv, NEW p \in Pods, Crash(p)
  PROVE  RivalInv'
<1>1. /\ closing' = {c \in closing : pod[c.sess] # p}
      /\ UNCHANGED <<pod, device, newest, slot>>
  BY DEF Crash, CloseCall, TypeInv, TypeOK, history
<1>2. /\ \A s \in Sessions : superseder'[s] \in {superseder[s], s}
      /\ \A t \in Sessions : pod[t] # p => handler'[t] = handler[t]
  BY DEF Crash, TypeInv, TypeOK
<1>3. ASSUME NEW c \in closing', c.by = "evict"
      PROVE  /\ newest'[device'[c.sess]] # c.sess
             /\ \E t \in Sessions \ {c.sess} :
                   /\ handler'[t].pc = "evict" /\ handler'[t].prior = c.sess
                   /\ device'[t] = device'[c.sess] /\ pod'[t] = pod'[c.sess]
  <2>1. c \in closing /\ pod[c.sess] # p
    BY <1>1
  <2>2. PICK t \in Sessions \ {c.sess} : Evicts(t, c.sess)
    BY <1>3, <2>1 DEF RivalInv, ClosedForARival, Evicts
  <2> QED
    BY <1>1, <1>2, <1>3, <2>1, <2>2 DEF RivalInv, ClosedForARival, Evicts
<1>4. ASSUME NEW c \in closing', c.by = "superseded"
      PROVE  \E t \in Sessions \ {c.sess} : device'[t] = device'[c.sess]
  BY <1>1, <1>4 DEF RivalInv, ClosedForARival
<1> QED
  BY <1>1, <1>2, <1>3, <1>4, EntriesKept DEF ClosedForARival

LEMMA RivalInvStep ==
  TypeInv /\ IndexInv /\ CallsInv /\ RivalInv /\ [Next]_vars => RivalInv'
<1> SUFFICES ASSUME TypeInv, IndexInv, CallsInv, RivalInv, [Next]_vars PROVE RivalInv'
  OBVIOUS
<1> DEFINE Quiet == /\ UNCHANGED <<pod, device, newest, closing>>
                    /\ \A t \in Sessions : handler[t].pc = "evict" => handler'[t] = handler[t]
<1> USE DEF aggregates, indexes, history
<1>1. Quiet => ClosedForARival'
  BY RivalKept DEF RivalInv
<1>2. Quiet /\ UNCHANGED <<slot, superseder>> => RivalInv'
  BY <1>1 DEF RivalInv
<1>3. ASSUME NEW s \in Sessions, NEW p \in Pods, Connect(s, p) PROVE RivalInv'
  <2>1. ASSUME NEW c \in closing PROVE c.sess # s
    BY <1>3 DEF Connect, CallsInv
  <2>2. /\ UNCHANGED <<device, newest, closing, handler, slot, superseder>>
        /\ \A t \in Sessions \ {s} : pod'[t] = pod[t]
        /\ handler[s].pc = "idle"
    BY <1>3 DEF Connect, TypeInv, TypeOK, Bound
  <2>3. \A c \in closing : c.sess \in Sessions
    BY DEF TypeInv, TypeOK, CloseCall
  <2>4. ClosedForARival'
    BY <2>1, <2>2, <2>3 DEF RivalInv, ClosedForARival
  <2> QED
    BY <2>2, <2>4 DEF RivalInv
<1>4. ASSUME NEW s \in Sessions, NEW f, Proceed(s, f), handler[s].pc # "evict",
             UNCHANGED <<pod, device, newest, closing, slot, superseder>>
      PROVE  RivalInv'
  BY <1>2, <1>4 DEF Proceed, Await, TypeInv, TypeOK
<1>5. ASSUME NEW s \in Sessions, NEW f \in Frames, NEW d \in Devices, Dispatch(s, f, d)
      PROVE  RivalInv'
  BY <1>2, <1>4, <1>5 DEF Dispatch, Await, TypeInv, TypeOK
<1>6. ASSUME NEW s \in Sessions, LoginRefused(s) PROVE RivalInv'
  BY <1>6, RivalClose DEF LoginRefused, Await, TypeInv, TypeOK, Closers
<1>7. ASSUME NEW s \in Sessions, LoginAccepted(s) PROVE RivalInv'
  BY <1>7, RivalLogin
<1>8. ASSUME NEW s \in Sessions, LoginIgnored(s) PROVE RivalInv'
  BY <1>2, <1>8 DEF LoginIgnored, Await, TypeInv, TypeOK
<1>9. ASSUME NEW s \in Sessions, IndexLocally(s) PROVE RivalInv'
  <2>1. /\ UNCHANGED <<pod, device, newest, closing, slot, superseder>>
        /\ \A t \in Sessions \ {s} : handler'[t] = handler[t]
        /\ \A c \in closing : c.by # "evict" \/ c.sess # handler[s].prior
    BY <1>9 DEF IndexLocally, evictionReturned, InFlight, Await, TypeInv, TypeOK
  <2>2. ClosedForARival'
    BY <2>1, RivalKept DEF RivalInv
  <2> QED
    BY <2>1, <2>2 DEF RivalInv
<1>10. ASSUME NEW s \in Sessions, Store(s) PROVE RivalInv'
  <2>1. Quiet /\ UNCHANGED superseder
    BY <1>10 DEF Store, Await, TypeInv, TypeOK
  <2>2. ASSUME NEW d \in Devices, slot'[d] # None PROVE device'[slot'[d]] = d
    BY <1>10, <2>2 DEF Store, RivalInv, TypeInv, TypeOK
  <2> QED
    BY <1>1, <2>1, <2>2 DEF RivalInv
<1>11. ASSUME NEW s \in Sessions, Payload(s) PROVE RivalInv'
  BY <1>4, <1>11 DEF Payload
<1>12. ASSUME NEW s \in Sessions, HandlerClosed(s) PROVE RivalInv'
  BY <1>2, <1>12 DEF HandlerClosed, Await, TypeInv, TypeOK
<1>13. ASSUME NEW s \in Sessions, SocketClosed(s) PROVE RivalInv'
  BY <1>13, RivalClose DEF SocketClosed, Closers
<1>14. ASSUME NEW s \in Sessions, SweepGrace(s) PROVE RivalInv'
  BY <1>14, RivalClose DEF SweepGrace, Closers
<1>15. ASSUME NEW s \in Sessions, SweepRead(s) PROVE RivalInv'
  <2>1. Quiet /\ UNCHANGED slot
    BY <1>15 DEF SweepRead
  <2>2. /\ superseder' = [superseder EXCEPT ![s] = slot[device[s]]]
        /\ device[s] \in Devices /\ slot[device[s]] # None
    BY <1>15 DEF SweepRead, namesOther, TypeInv, TypeOK
  <2>3. \A u \in Sessions : superseder'[u] # u =>
            device'[u] # None /\ device'[superseder'[u]] = device'[u]
    BY <1>15, <2>1, <2>2 DEF SweepRead, RivalInv, TypeInv, TypeOK
  <2> QED
    BY <1>1, <2>1, <2>3 DEF RivalInv
<1>16. ASSUME NEW s \in Sessions, SweepClose(s) PROVE RivalInv'
  <2>1. \E t \in Sessions \ {s} : device[t] = device[s]
    BY <1>16 DEF SweepClose, RivalInv, TypeInv, TypeOK
  <2>2. /\ UNCHANGED <<pod, device, newest, slot, handler>>
        /\ \A t \in Sessions : superseder'[t] \in {superseder[t], t}
    BY <1>16 DEF SweepClose, TypeInv, TypeOK
  <2> QED
    BY <1>16, <2>1, <2>2, RivalClose DEF SweepClose, Closers
<1>17. ASSUME NEW c \in closing, CloseStep(c) PROVE RivalInv'
  BY <1>17, RivalCall
<1>18. ASSUME NEW p \in Pods, BeginShutdown(p) PROVE RivalInv'
  BY <1>2, <1>18 DEF BeginShutdown
<1>19. ASSUME NEW p \in Pods, CloseAll(p) PROVE RivalInv'
  <2>1. {s \in tracked : pod[s] = p} \in SUBSET Sessions
    BY DEF TypeInv, TypeOK
  <2> QED
    BY <1>19, <2>1, RivalClose DEF CloseAll, Closers
<1>20. ASSUME NEW p \in Pods, Crash(p) PROVE RivalInv'
  BY <1>20, RivalCrash
<1>21. ASSUME NEW d \in Devices, Expire(d) PROVE RivalInv'
  BY <1>1, <1>21, EntriesKept DEF Expire, TypeInv, TypeOK
<1>22. CASE UNCHANGED vars
  BY <1>2, <1>22 DEF vars
<1> QED
  BY <1>3, <1>5, <1>6, <1>7, <1>8, <1>9, <1>10, <1>11, <1>12, <1>13, <1>14, <1>15,
     <1>16, <1>17, <1>18, <1>19, <1>20, <1>21, <1>22 DEF Next, HandlerStep, Rest

\* No session is closed as a duplicate without another session of its device.
THEOREM DuplicatesHaveRivals == Spec => []ClosedForARival
<1>1. Init => TypeInv /\ IndexInv /\ CallsInv /\ RivalInv
  BY TypeInvInit, IndexInvInit, CallsInvInit, RivalInvInit
<1>2. TypeInv /\ IndexInv /\ CallsInv /\ RivalInv /\ [Next]_vars
        => (TypeInv /\ IndexInv /\ CallsInv /\ RivalInv)'
  BY TypeInvStep, IndexInvStep, CallsInvStep, RivalInvStep
<1>3. RivalInv => ClosedForARival
  BY DEF RivalInv
<1> QED
  BY <1>1, <1>2, <1>3, PTL DEF Spec

-----------------------------------------------------------------------------
(* Layer 5: what becomes of a session that ended *)

Ended(s) == socket[s] \in {"destroyed", "gone"}

\* A lost session takes no further step; what is tracked has been opened and is not
\* lost; what has been opened has, or had, a socket.
Placed(s) ==
    /\ state[s] = "LOST" => handler[s].pc = "idle" /\ superseder[s] = s /\ socket[s] = "gone"
    /\ s \in tracked => state[s] \notin {"UNOPENED", "LOST"}
    /\ state[s] # "UNOPENED" => socket[s] # "none"

PlacedInv == \A s \in Sessions : Placed(s)

LEMMA PlacedInit == Init => PlacedInv
  BY DEF Init, PlacedInv, Placed, Idle

LEMMA PlacedStep == TypeInv /\ PlacedInv /\ [Next]_vars => PlacedInv'
<1> SUFFICES ASSUME TypeInv, PlacedInv, [Next]_vars, NEW s \in Sessions PROVE Placed(s)'
  BY DEF PlacedInv
<1>0. Placed(s) /\ Bound(s)
  BY DEF PlacedInv, TypeInv
<1> USE DEF TypeInv, TypeOK, aggregates, indexes, history
<1>1. ASSUME NEW t \in Sessions, NEW p \in Pods, Connect(t, p) PROVE Placed(s)'
  BY <1>0, <1>1 DEF Connect, Placed, Bound
<1>2. ASSUME NEW t \in Sessions, NEW f, Proceed(t, f), state[t] \notin {"UNOPENED", "LOST"},
             UNCHANGED <<socket, tracked, superseder>>
      PROVE  Placed(s)'
  <2>1. \A u \in Sessions \ {t} : state'[u] = state[u] /\ handler'[u] = handler[u]
    BY <1>2 DEF Proceed, Await
  <2>2. state'[t] \in {state[t], "ACTIVE"}
    BY <1>2 DEF Proceed
  <2> QED
    BY <1>0, <1>2, <2>1, <2>2 DEF Placed
<1>3. ASSUME NEW t \in Sessions, NEW f \in Frames, NEW d \in Devices, Dispatch(t, f, d)
      PROVE  Placed(s)'
  <2>1. state[t] \notin {"UNOPENED", "LOST"}
    BY <1>3 DEF Dispatch, PlacedInv, Placed, Bound
  <2>2. CASE Proceed(t, f)
    BY <1>2, <1>3, <2>1, <2>2 DEF Dispatch
  <2>3. CASE UNCHANGED state
    <3>1. \A u \in Sessions \ {t} : handler'[u] = handler[u]
      BY <1>3 DEF Dispatch, Proceed, Await
    <3> QED
      BY <1>0, <1>3, <2>1, <2>3, <3>1 DEF Dispatch, Placed
  <2> QED
    BY <1>3, <2>2, <2>3 DEF Dispatch
<1>4. ASSUME NEW t \in Sessions, handler[t].pc # "idle" \/ superseder[t] # t
                                 \/ socket[t] \in {"open", "destroyed"} \/ state[t] = "NEW"
      PROVE  state[t] \notin {"UNOPENED", "LOST"}
  BY <1>4 DEF PlacedInv, Placed, Bound
<1>5. ASSUME NEW t \in Sessions,
             \/ LoginRefused(t) \/ SocketClosed(t) \/ SweepGrace(t) \/ SweepClose(t)
      PROVE  Placed(s)'
  <2>1. state[t] \notin {"UNOPENED", "LOST"}
    BY <1>4, <1>5 DEF LoginRefused, SocketClosed, SweepGrace, SweepClose
  <2>2. /\ state' = Closed({t}) /\ tracked' \subseteq tracked
        /\ \A u \in Sessions \ {t} : handler'[u] = handler[u] /\ superseder'[u] = superseder[u]
    BY <1>5 DEF LoginRefused, SocketClosed, SweepGrace, SweepClose, BeginClose, Await
  <2>3. \A u \in Sessions : socket'[u] # socket[u] => u = t /\ socket'[u] \in {"destroyed", "gone"}
    BY <1>5 DEF LoginRefused, SocketClosed, SweepGrace, SweepClose, Destroy
  <2> QED
    BY <1>0, <2>1, <2>2, <2>3 DEF Placed, PlacedInv, Closed
<1>6. ASSUME NEW t \in Sessions, LoginAccepted(t) PROVE Placed(s)'
  <2>1. PICK V \in SUBSET {u \in Sessions \ {t} : isLive(u)} :
            /\ state' = [Closed(V) EXCEPT ![t] = "AUTHENTICATED"]
            /\ BeginClose(V, "evict")
    BY <1>6 DEF LoginAccepted
  <2>2. /\ state[t] = "NEW" /\ UNCHANGED <<socket, superseder>>
        /\ \A u \in Sessions \ {t} : handler'[u] = handler[u]
    BY <1>6 DEF LoginAccepted, mayAuthenticate, Await
  <2>3. tracked' \subseteq tracked
    BY <2>1 DEF BeginClose
  <2>4. \A u \in Sessions : state'[u] # state[u] =>
           state[u] \notin {"UNOPENED", "LOST"} /\ state'[u] \in {"CLOSED", "AUTHENTICATED"}
    BY <2>1, <2>2 DEF Closed, isLive
  <2> QED
    BY <1>0, <1>4, <2>2, <2>3, <2>4 DEF Placed, PlacedInv
<1>7. ASSUME NEW t \in Sessions,
             LoginIgnored(t) \/ IndexLocally(t) \/ Store(t) \/ HandlerClosed(t)
      PROVE  Placed(s)'
  <2>1. /\ state[t] # "LOST" /\ UNCHANGED <<state, socket, tracked, superseder>>
        /\ \A u \in Sessions \ {t} : handler'[u] = handler[u]
    BY <1>4, <1>7 DEF LoginIgnored, IndexLocally, Store, HandlerClosed, Await
  <2> QED
    BY <1>0, <2>1 DEF Placed
<1>8. ASSUME NEW t \in Sessions, Payload(t) PROVE Placed(s)'
  BY <1>2, <1>4, <1>8 DEF Payload
<1>9. ASSUME NEW t \in Sessions, SweepRead(t) PROVE Placed(s)'
  <2>1. /\ isLive(t) /\ UNCHANGED <<state, socket, tracked, handler>>
        /\ \A u \in Sessions \ {t} : superseder'[u] = superseder[u]
    BY <1>9 DEF SweepRead
  <2> QED
    BY <1>0, <2>1 DEF Placed, isLive
<1>10. ASSUME NEW c \in closing, CloseStep(c) PROVE Placed(s)'
  <2>1. /\ UNCHANGED <<state, tracked, handler, superseder>>
        /\ socket' = socket \/ socket' = Destroy({c.sess})
    BY <1>10 DEF CloseStep, CloseGet, CloseDel, Finish
  <2>2. socket'[s] = socket[s] \/ (socket[s] = "open" /\ socket'[s] = "destroyed")
    BY <2>1 DEF Destroy
  <2> QED
    BY <1>0, <2>1, <2>2 DEF Placed
<1>11. ASSUME NEW p \in Pods, BeginShutdown(p) PROVE Placed(s)'
  BY <1>0, <1>11 DEF BeginShutdown, Placed
<1>12. ASSUME NEW p \in Pods, CloseAll(p) PROVE Placed(s)'
  <2> DEFINE S == {u \in tracked : pod[u] = p}
  <2>1. /\ state' = Closed(S) /\ tracked' = tracked \ S
        /\ UNCHANGED <<socket, handler, superseder>>
    BY <1>12 DEF CloseAll, BeginClose
  <2>2. s \in S => state[s] \notin {"UNOPENED", "LOST"}
    BY <1>0 DEF Placed
  <2> HIDE DEF S
  <2> QED
    BY <1>0, <2>1, <2>2 DEF Placed, Closed
<1>13. ASSUME NEW p \in Pods, Crash(p) PROVE Placed(s)'
  BY <1>0, <1>13 DEF Crash, Placed, Idle
<1>14. ASSUME NEW d \in Devices, Expire(d) PROVE Placed(s)'
  BY <1>0, <1>14 DEF Expire, Placed
<1>15. CASE UNCHANGED vars
  BY <1>0, <1>15 DEF vars, Placed
<1> QED
  BY <1>1, <1>3, <1>5, <1>6, <1>7, <1>8, <1>9, <1>10, <1>11, <1>12, <1>13, <1>14, <1>15
     DEF Next, HandlerStep, Rest

\* The call that found a session live is still at it.
Pending(s) == \E c \in closing : c.sess = s /\ c.live

Carried(s) ==
    state[s] = "CLOSED" => (Ended(s) /\ (device[s] # None => offlines[s] = 1)) \/ Pending(s)

CarriedInv == \A s \in Sessions : Carried(s)

\* Whatever closes nothing and ends no call.
LEMMA CarriedKept ==
  ASSUME CarriedInv, closing \subseteq closing', UNCHANGED offlines,
         \A s \in Sessions : state'[s] = "CLOSED" => state[s] = "CLOSED" /\ device'[s] = device[s],
         \A s \in Sessions : Ended(s) => Ended(s)'
  PROVE  CarriedInv'
  BY DEF CarriedInv, Carried, Pending

\* close() of the sessions S, of which those that have no device are also destroyed by
\* the caller.
LEMMA CarriedClose ==
  ASSUME TypeInv, CarriedInv, NEW S \in SUBSET Sessions, NEW by, BeginClose(S, by),
         UNCHANGED offlines,
         \A s \in S : (isLive(s) \/ state[s] = "CLOSED") /\ device'[s] = device[s],
         \A s \in S : isLive(s) /\ device[s] = None => Ended(s)',
         \A s \in Sessions \ S :
             state'[s] = "CLOSED" => state[s] = "CLOSED" /\ device'[s] = device[s],
         \A s \in Sessions : Ended(s) => Ended(s)'
  PROVE  CarriedInv'
<1> SUFFICES ASSUME NEW s \in Sessions, state'[s] = "CLOSED"
             PROVE  Carried(s)'
  BY DEF CarriedInv, Carried
<1>1. closing' = closing \cup Calls(S, by)
  BY DEF BeginClose
<1>2. CASE s \in S /\ isLive(s) /\ device[s] # None
  <2>1. [sess |-> s, by |-> by, live |-> TRUE, pc |-> "get"] \in Calls(S, by)
    BY <1>2, isLive(s) = TRUE DEF Calls, isLive
  <2>2. Pending(s)'
    BY <1>1, <2>1 DEF Pending
  <2> QED
    BY <2>2 DEF Carried
<1>3. CASE s \in S /\ isLive(s) /\ device[s] = None
  BY <1>3 DEF Carried
<1>4. CASE state[s] = "CLOSED"
  <2>1. Carried(s) /\ device'[s] = device[s]
    BY <1>4 DEF CarriedInv
  <2>2. Pending(s) => Pending(s)'
    BY <1>1 DEF Pending
  <2> QED
    BY <1>4, <2>1, <2>2 DEF Carried
<1> QED
  BY <1>2, <1>3, <1>4

\* The call that found the session live announces it and destroys its socket.
LEMMA CarriedFinish ==
  ASSUME TypeInv, CallsInv, PlacedInv, CarriedInv, NEW c \in closing, Finish(c),
         UNCHANGED <<state, device>>
  PROVE  CarriedInv'
<1> SUFFICES ASSUME NEW s \in Sessions, state[s] = "CLOSED" PROVE Carried(s)'
  BY DEF CarriedInv, Carried
<1>1. /\ closing' = closing \ {c} /\ c.sess \in Sessions
      /\ state[c.sess] = "CLOSED"
  BY DEF Finish, CallsInv, TypeInv, TypeOK, CloseCall
<1>2. CASE c.live /\ s = c.sess
  <2>1. socket' = Destroy({s}) /\ offlines' = [offlines EXCEPT ![s] = @ + 1] /\ offlines[s] = 0
    BY <1>2 DEF Finish, CallsInv
  <2>2. socket[s] \in {"open", "destroyed", "gone"}
    BY DEF PlacedInv, Placed, TypeInv, TypeOK
  <2>3. Ended(s)' /\ offlines'[s] = 1
    BY <2>1, <2>2 DEF Ended, Destroy, TypeInv, TypeOK
  <2> QED
    BY <2>3 DEF Carried
<1>3. CASE ~(c.live /\ s = c.sess)
  <2>1. Carried(s)
    BY DEF CarriedInv
  <2>2. Pending(s) => Pending(s)'
    BY <1>1, <1>3 DEF Pending
  <2>3. Ended(s) => Ended(s)'
    BY DEF Finish, Ended, Destroy
  <2>4. offlines'[s] = offlines[s]
    BY <1>3 DEF Finish, TypeInv, TypeOK
  <2> QED
    BY <2>1, <2>2, <2>3, <2>4 DEF Carried
<1> QED
  BY <1>2, <1>3

LEMMA CarriedStep ==
  ASSUME TypeInv, IndexInv, CallsInv, RivalInv, PlacedInv, CarriedInv, [Next]_vars
  PROVE  CarriedInv'
<1> USE DEF TypeInv, TypeOK, aggregates, indexes, history
<1>1. ASSUME NEW s \in Sessions, NEW p \in Pods, Connect(s, p) PROVE CarriedInv'
  <2>1. /\ state' = [state EXCEPT ![s] = "NEW"] /\ socket' = [socket EXCEPT ![s] = "open"]
        /\ UNCHANGED <<device, closing, offlines>> /\ state[s] = "UNOPENED"
    BY <1>1 DEF Connect
  <2>2. \A t \in Sessions : Ended(t) => Ended(t)'
    BY <2>1 DEF Ended, Bound
  <2> QED
    BY <2>1, <2>2, CarriedKept
<1>2. ASSUME NEW s \in Sessions, NEW f, Proceed(s, f),
             UNCHANGED <<device, closing, offlines, socket>>
      PROVE  CarriedInv'
  BY <1>2, CarriedKept DEF Proceed, Ended
<1>3. ASSUME NEW s \in Sessions, NEW f \in Frames, NEW d \in Devices, Dispatch(s, f, d)
      PROVE  CarriedInv'
  BY <1>2, <1>3, CarriedKept DEF Dispatch, Ended
<1>4. ASSUME NEW s \in Sessions, handler[s].pc # "idle" \/ superseder[s] # s
                                 \/ socket[s] \in {"open", "destroyed"} \/ s \in tracked
      PROVE  isLive(s) \/ state[s] = "CLOSED"
  <2>1. state[s] \notin {"UNOPENED", "LOST"} /\ state[s] \in States
    BY <1>4 DEF PlacedInv, Placed, Bound
  <2> QED
    BY <2>1 DEF States, isLive
<1>5. ASSUME NEW s \in Sessions, LoginRefused(s) PROVE CarriedInv'
  <2>1. /\ state' = Closed({s}) /\ BeginClose({s}, "handler") /\ UNCHANGED <<device, offlines>>
        /\ socket' = IF device[s] = None THEN Destroy({s}) ELSE socket
    BY <1>5 DEF LoginRefused
  <2>2. isLive(s) \/ state[s] = "CLOSED"
    BY <1>4, <1>5 DEF LoginRefused
  <2>3. socket[s] # "none"
    BY <2>2 DEF PlacedInv, Placed, isLive
  <2>4. /\ \A t \in Sessions : Ended(t) => Ended(t)'
        /\ device[s] = None => Ended(s)'
    BY <2>1, <2>3 DEF Ended, Destroy
  <2> QED
    BY <2>1, <2>2, <2>4, CarriedClose DEF Closed
<1>6. ASSUME NEW s \in Sessions, SocketClosed(s) PROVE CarriedInv'
  <2>1. /\ state' = Closed({s}) /\ BeginClose({s}, "socket") /\ UNCHANGED <<device, offlines>>
        /\ socket' = [socket EXCEPT ![s] = "gone"]
    BY <1>6 DEF SocketClosed
  <2>2. isLive(s) \/ state[s] = "CLOSED"
    BY <1>4, <1>6 DEF SocketClosed
  <2>3. Ended(s)' /\ \A t \in Sessions : Ended(t) => Ended(t)'
    BY <2>1 DEF Ended
  <2> QED
    BY <2>1, <2>2, <2>3, CarriedClose DEF Closed
<1>7. ASSUME NEW s \in Sessions, SweepGrace(s) PROVE CarriedInv'
  <2>1. /\ state' = Closed({s}) /\ BeginClose({s}, "grace") /\ UNCHANGED <<device, offlines>>
        /\ socket' = Destroy({s}) /\ isLive(s)
    BY <1>7 DEF SweepGrace, isLive
  <2>2. socket[s] # "none"
    BY <2>1 DEF PlacedInv, Placed, isLive
  <2>3. Ended(s)' /\ \A t \in Sessions : Ended(t) => Ended(t)'
    BY <2>1, <2>2 DEF Ended, Destroy
  <2> QED
    BY <2>1, <2>3, CarriedClose DEF Closed
<1>8. ASSUME NEW s \in Sessions, SweepClose(s) PROVE CarriedInv'
  <2>1. /\ state' = Closed({s}) /\ BeginClose({s}, "superseded")
        /\ UNCHANGED <<device, offlines, socket>> /\ superseder[s] # s
    BY <1>8 DEF SweepClose
  <2>2. (isLive(s) \/ state[s] = "CLOSED") /\ device[s] # None
    BY <1>4, <2>1 DEF RivalInv
  <2>3. \A t \in Sessions \ {s} :
          state'[t] = "CLOSED" => state[t] = "CLOSED" /\ device'[t] = device[t]
    BY <2>1 DEF Closed
  <2>4. \A t \in Sessions : Ended(t) => Ended(t)'
    BY <2>1 DEF Ended
  <2>5. \A t \in {s} : (isLive(t) \/ state[t] = "CLOSED") /\ device'[t] = device[t]
    BY <2>1, <2>2
  <2>6. \A t \in {s} : isLive(t) /\ device[t] = None => Ended(t)'
    BY <2>2
  <2>7. {s} \in SUBSET Sessions /\ offlines' = offlines /\ BeginClose({s}, "superseded")
    BY <2>1
  <2>8. TypeInv
    OBVIOUS
  <2> QED
    BY ONLY <2>3, <2>4, <2>5, <2>6, <2>7, <2>8, CarriedInv, CarriedClose
<1>9. ASSUME NEW s \in Sessions, LoginAccepted(s) PROVE CarriedInv'
  <2>1. state[s] = "NEW" /\ pod[s] \in Pods /\ handler[s].dev \in Devices
    BY <1>9 DEF LoginAccepted, mayAuthenticate, Bound
  <2>2. PICK V \in SUBSET {t \in Sessions \ {s} : isLive(t) /\ t = byDevice[pod[s]][handler[s].dev]} :
            /\ state' = [Closed(V) EXCEPT ![s] = "AUTHENTICATED"]
            /\ BeginClose(V, "evict")
    BY <1>9 DEF LoginAccepted
  <2>3. UNCHANGED <<offlines, socket>> /\ \A t \in Sessions \ {s} : device'[t] = device[t]
    BY <1>9 DEF LoginAccepted
  <2>4. \A t \in V : isLive(t) /\ device[t] # None
    BY <2>1, <2>2, NoneAssumption DEF IndexInv
  <2>5. \A t \in Sessions \ V : state'[t] = "CLOSED" => t # s /\ state[t] = "CLOSED"
    BY <2>2 DEF Closed
  <2> QED
    BY <2>2, <2>3, <2>4, <2>5, CarriedClose DEF Ended
<1>10. ASSUME NEW s \in Sessions,
              \/ LoginIgnored(s) \/ IndexLocally(s) \/ Store(s) \/ HandlerClosed(s) \/ SweepRead(s)
       PROVE  CarriedInv'
  <2>1. UNCHANGED <<state, device, closing, offlines, socket>>
    BY <1>10 DEF LoginIgnored, IndexLocally, Store, HandlerClosed, SweepRead
  <2> QED
    BY <2>1, CarriedKept DEF Ended
<1>11. ASSUME NEW s \in Sessions, Payload(s) PROVE CarriedInv'
  BY <1>2, <1>11 DEF Payload
<1>12. ASSUME NEW c \in closing, CloseGet(c) PROVE CarriedInv'
  <2>0. UNCHANGED <<state, device>>
    BY <1>12 DEF CloseGet
  <2>1. CASE Finish(c)
    BY <2>0, <2>1, CarriedFinish
  <2>2. CASE /\ closing' = (closing \ {c}) \cup {[c EXCEPT !.pc = "del"]}
             /\ UNCHANGED <<socket, offlines>>
    <3> DEFINE e == [c EXCEPT !.pc = "del"]
    <3>1. e.sess = c.sess /\ e.live = c.live
      BY CallTypes
    <3>2. closing' = (closing \ {c}) \cup {e}
      BY <2>2
    <3> HIDE DEF e
    <3>3. \A s \in Sessions : Pending(s) => Pending(s)'
      BY <3>1, <3>2 DEF Pending
    <3> QED
      BY <2>0, <2>2, <3>3 DEF CarriedInv, Carried, Ended
  <2> QED
    BY <1>12, <2>1, <2>2 DEF CloseGet
<1>13. ASSUME NEW c \in closing, CloseDel(c) PROVE CarriedInv'
  BY <1>13, CarriedFinish DEF CloseDel
<1>14. ASSUME NEW p \in Pods, BeginShutdown(p) PROVE CarriedInv'
  BY <1>14, CarriedKept DEF BeginShutdown, Ended
<1>15. ASSUME NEW p \in Pods, CloseAll(p) PROVE CarriedInv'
  <2> DEFINE S == {s \in tracked : pod[s] = p}
  <2>1. /\ S \subseteq Sessions /\ state' = Closed(S) /\ BeginClose(S, "shutdown")
        /\ UNCHANGED <<device, offlines, socket>>
    BY <1>15 DEF CloseAll
  <2>2. \A s \in S : (isLive(s) \/ state[s] = "CLOSED") /\ Ended(s)
    BY <1>4, <1>15 DEF CloseAll, Ended
  <2> HIDE DEF S
  <2> QED
    BY <2>1, <2>2, CarriedClose DEF Closed, Ended
<1>16. ASSUME NEW p \in Pods, Crash(p) PROVE CarriedInv'
  <2>1. /\ closing' = {c \in closing : c.sess \notin {s \in Sessions : pod[s] = p}}
        /\ UNCHANGED <<device, offlines>>
    BY <1>16 DEF Crash
  <2>2. \A s \in Sessions :
          /\ state'[s] = "CLOSED" => state[s] = "CLOSED" /\ pod[s] # p
          /\ Ended(s) => Ended(s)'
    BY <1>16 DEF Crash, Ended
  <2>3. \A s \in Sessions : pod[s] # p /\ Pending(s) => Pending(s)'
    BY <2>1 DEF Pending
  <2> QED
    BY <2>1, <2>2, <2>3 DEF CarriedInv, Carried
<1>17. ASSUME NEW d \in Devices, Expire(d) PROVE CarriedInv'
  BY <1>17, CarriedKept DEF Expire, Ended
<1>18. CASE UNCHANGED vars
  BY <1>18, CarriedKept DEF vars, Ended
<1> QED
  BY <1>1, <1>3, <1>5, <1>6, <1>7, <1>8, <1>9, <1>10, <1>11, <1>12, <1>13, <1>14, <1>15,
     <1>16, <1>17, <1>18 DEF Next, HandlerStep, CloseStep, Rest

\* However many close() calls race on a session, the one that found it live outlasts the
\* others' claims: until it has announced DISCONNECTED and ended the socket it is in flight,
\* and only the death of the pod takes it away.
THEOREM EndsAreCarriedOut == Spec => []CloseIsCarriedOut
<1> DEFINE Inv == TypeInv /\ IndexInv /\ CallsInv /\ RivalInv /\ PlacedInv /\ CarriedInv
<1>1. Init => Inv
  <2>1. Init => CarriedInv
    BY DEF Init, CarriedInv, Carried
  <2> QED
    BY <2>1, TypeInvInit, IndexInvInit, CallsInvInit, RivalInvInit, PlacedInit
<1>2. Inv /\ [Next]_vars => Inv'
  BY TypeInvStep, IndexInvStep, CallsInvStep, RivalInvStep, PlacedStep, CarriedStep
<1>3. Inv => CloseIsCarriedOut
  BY DEF CarriedInv, Carried, Ended, Pending, CloseIsCarriedOut
<1> QED
  BY <1>1, <1>2, <1>3, PTL DEF Spec

-----------------------------------------------------------------------------
(* What a step may not do *)

\* What ended stays ended, step by step.
LEMMA EndedStep ==
  ASSUME TypeInv, [Next]_vars, NEW s \in Sessions, state[s] \in {"CLOSED", "LOST"}
  PROVE  state'[s] \in {"CLOSED", "LOST"} /\ device'[s] = device[s]
<1> USE DEF TypeInv, TypeOK, aggregates, indexes, history, Closed
<1>1. ASSUME NEW t \in Sessions, NEW p \in Pods, Connect(t, p)
      PROVE  state'[s] \in {"CLOSED", "LOST"} /\ device'[s] = device[s]
  BY <1>1 DEF Connect
<1>2. ASSUME NEW t \in Sessions, NEW f, Proceed(t, f), UNCHANGED device
      PROVE  state'[s] \in {"CLOSED", "LOST"} /\ device'[s] = device[s]
  BY <1>2 DEF Proceed
<1>3. ASSUME NEW t \in Sessions, NEW f \in Frames, NEW d \in Devices, Dispatch(t, f, d)
      PROVE  state'[s] \in {"CLOSED", "LOST"} /\ device'[s] = device[s]
  BY <1>2, <1>3 DEF Dispatch
<1>4. ASSUME NEW t \in Sessions, LoginAccepted(t)
      PROVE  state'[s] \in {"CLOSED", "LOST"} /\ device'[s] = device[s]
  BY <1>4 DEF LoginAccepted, mayAuthenticate
<1>5. ASSUME NEW t \in Sessions,
             \/ LoginRefused(t) \/ SocketClosed(t) \/ SweepGrace(t) \/ SweepClose(t)
      PROVE  state'[s] \in {"CLOSED", "LOST"} /\ device'[s] = device[s]
  BY <1>5 DEF LoginRefused, SocketClosed, SweepGrace, SweepClose
<1>6. ASSUME NEW t \in Sessions,
             \/ LoginIgnored(t) \/ IndexLocally(t) \/ Store(t) \/ HandlerClosed(t)
             \/ SweepRead(t)
      PROVE  state'[s] \in {"CLOSED", "LOST"} /\ device'[s] = device[s]
  BY <1>6 DEF LoginIgnored, IndexLocally, Store, HandlerClosed, SweepRead
<1>7. ASSUME NEW t \in Sessions, Payload(t)
      PROVE  state'[s] \in {"CLOSED", "LOST"} /\ device'[s] = device[s]
  BY <1>2, <1>7 DEF Payload
<1>8. ASSUME NEW c \in closing, CloseStep(c)
      PROVE  state'[s] \in {"CLOSED", "LOST"} /\ device'[s] = device[s]
  BY <1>8 DEF CloseStep, CloseGet, CloseDel
<1>9. ASSUME NEW p \in Pods, BeginShutdown(p) \/ CloseAll(p) \/ Crash(p)
      PROVE  state'[s] \in {"CLOSED", "LOST"} /\ device'[s] = device[s]
  BY <1>9 DEF BeginShutdown, CloseAll, Crash
<1>10. ASSUME NEW d \in Devices, Expire(d)
       PROVE  state'[s] \in {"CLOSED", "LOST"} /\ device'[s] = device[s]
  BY <1>10 DEF Expire
<1>11. CASE UNCHANGED vars
  BY <1>11 DEF vars
<1> QED
  BY <1>1, <1>3, <1>4, <1>5, <1>6, <1>7, <1>8, <1>9, <1>10, <1>11
     DEF Next, HandlerStep, Rest

\* A session that ended never comes back, whatever await it was in.
THEOREM EndIsFinal == Spec => EndedIsFinal
<1>1. Init => TypeInv
  BY TypeInvInit
<1>2. TypeInv /\ [Next]_vars => TypeInv'
  BY TypeInvStep
<1>3. TypeInv /\ [Next]_vars =>
        [\A s \in Sessions : state[s] \in {"CLOSED", "LOST"} =>
           state'[s] \in {"CLOSED", "LOST"} /\ device'[s] = device[s]]_vars
  BY EndedStep
<1> QED
  BY <1>1, <1>2, <1>3, PTL DEF Spec, EndedIsFinal

\* An index entry goes only with the session it names.
LEMMA UnindexStep ==
  ASSUME TypeInv, IndexInv, [Next]_vars, NEW p \in Pods, NEW d \in Devices,
         byDevice[p][d] # None, byDevice'[p][d] = None
  PROVE  state'[byDevice[p][d]] \in {"CLOSED", "LOST"}
<1> DEFINE Ends == state'[byDevice[p][d]] \in {"CLOSED", "LOST"}
<1>0. byDevice[p][d] \in Sessions /\ pod[byDevice[p][d]] = p
  BY DEF TypeInv, TypeOK, IndexInv
<1>1. ASSUME NEW S, NEW by, BeginClose(S, by), \A s \in S : state'[s] = "CLOSED" PROVE Ends
  BY <1>1 DEF BeginClose, Unindexed
<1>2. ASSUME UNCHANGED byDevice PROVE Ends
  BY <1>2
<1> HIDE DEF Ends
<1> USE DEF aggregates, indexes, history
<1>3. ASSUME NEW s \in Sessions, NEW q \in Pods, Connect(s, q) PROVE Ends
  BY <1>2, <1>3 DEF Connect
<1>4. ASSUME NEW s \in Sessions, NEW f \in Frames, NEW e \in Devices, Dispatch(s, f, e)
      PROVE  Ends
  BY <1>2, <1>4 DEF Dispatch
<1>5. ASSUME NEW s \in Sessions,
             \/ LoginRefused(s) \/ SocketClosed(s) \/ SweepGrace(s) \/ SweepClose(s)
      PROVE  Ends
  <2>1. state' = Closed({s}) /\ \E by \in Closers : BeginClose({s}, by)
    BY <1>5 DEF LoginRefused, SocketClosed, SweepGrace, SweepClose, Closers
  <2> QED
    BY <1>1, <2>1 DEF Closed
<1>6. ASSUME NEW s \in Sessions, LoginAccepted(s) PROVE Ends
  <2>1. PICK V \in SUBSET (Sessions \ {s}) :
            /\ state' = [Closed(V) EXCEPT ![s] = "AUTHENTICATED"]
            /\ BeginClose(V, "evict")
    BY <1>6 DEF LoginAccepted
  <2>2. \A t \in V : state'[t] = "CLOSED"
    BY <2>1 DEF Closed
  <2> QED
    BY <1>1, <2>1, <2>2
<1>7. ASSUME NEW s \in Sessions,
             \/ LoginIgnored(s) \/ Store(s) \/ Payload(s) \/ HandlerClosed(s) \/ SweepRead(s)
      PROVE  Ends
  BY <1>2, <1>7 DEF LoginIgnored, Store, Payload, HandlerClosed, SweepRead
<1>8. ASSUME NEW s \in Sessions, IndexLocally(s) PROVE Ends
  <2>1. /\ byDevice' = [byDevice EXCEPT ![pod[s]][device[s]] = s]
        /\ byDevice \in [Pods -> [Devices -> Sessions \cup {None}]]
    BY <1>8 DEF IndexLocally, TypeInv, TypeOK
  <2>2. byDevice'[p][d] \in {s, byDevice[p][d]}
    BY ONLY <2>1, p \in Pods, d \in Devices
  <2>3. s # None /\ byDevice[p][d] # byDevice'[p][d] /\ byDevice'[p][d] # s
    BY NoneAssumption
  <2> QED
    BY ONLY <2>2, <2>3
<1>9. ASSUME NEW c \in closing, CloseStep(c) PROVE Ends
  BY <1>2, <1>9 DEF CloseStep, CloseGet, CloseDel
<1>10. ASSUME NEW q \in Pods, BeginShutdown(q) PROVE Ends
  BY <1>2, <1>10 DEF BeginShutdown
<1>11. ASSUME NEW q \in Pods, CloseAll(q) PROVE Ends
  <2> DEFINE S == {s \in tracked : pod[s] = q}
  <2>1. S \subseteq Sessions /\ state' = Closed(S) /\ BeginClose(S, "shutdown")
    BY <1>11 DEF CloseAll, TypeInv, TypeOK
  <2> HIDE DEF S
  <2> QED
    BY <1>1, <2>1 DEF Closed
<1>12. ASSUME NEW q \in Pods, Crash(q) PROVE Ends
  BY <1>0, <1>12 DEF Crash, TypeInv, TypeOK, Ends
<1>13. ASSUME NEW e \in Devices, Expire(e) PROVE Ends
  BY <1>2, <1>13 DEF Expire
<1>14. ASSUME UNCHANGED vars PROVE Ends
  BY <1>2, <1>14 DEF vars
<1>15. Ends
  BY <1>3, <1>4, <1>5, <1>6, <1>7, <1>8, <1>9, <1>10, <1>11, <1>12, <1>13, <1>14
     DEF Next, HandlerStep, Rest
<1> QED
  BY <1>15 DEF Ends

\* Closing one session never removes another, live session from an index.
THEOREM LiveOwnersStay == Spec => IndexKeepsLiveOwner
<1>1. Init => TypeInv /\ IndexInv
  BY TypeInvInit, IndexInvInit
<1>2. TypeInv /\ IndexInv /\ [Next]_vars => (TypeInv /\ IndexInv)'
  BY TypeInvStep, IndexInvStep
<1>3. TypeInv /\ IndexInv /\ [Next]_vars =>
        [\A p \in Pods, d \in Devices :
           byDevice[p][d] # None /\ byDevice'[p][d] = None =>
             state'[byDevice[p][d]] \in {"CLOSED", "LOST"}]_vars
  BY UnindexStep
<1> QED
  BY <1>1, <1>2, <1>3, PTL DEF Spec, IndexKeepsLiveOwner

=============================================================================
