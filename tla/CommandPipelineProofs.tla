------------------------ MODULE CommandPipelineProofs ------------------------
(***************************************************************************)
(* Proofs about CommandPipeline, for any number of pods and commands, any  *)
(* profile and any faults: the row of a command lives the life             *)
(* CommandLifecycle allows, SENT is only shown for a written frame, a pod  *)
(* holds a command per key, a flush sends the latest control of a camera,  *)
(* and, if nothing is consumed twice, a pod writes the frame of a command  *)
(* once and no answer settles two commands.                                *)
(***************************************************************************)
EXTENDS CommandPipeline, FiniteSetTheorems, SequenceTheorems, TLAPS

-----------------------------------------------------------------------------
(* The rows live the abstract life *)

StatusType == status \in [Commands -> Lifecycle!Statuses]

\* Every action either leaves the rows alone or is one of four UPDATEs.
RowStep == \/ UNCHANGED status
           \/ \E c \in Commands : Lifecycle!Insert(c)
           \/ \E c \in Commands, to \in {"SENT", "ACKED", "FAILED"} : Lifecycle!Update(c, to)
           \/ \E S \in SUBSET Commands : Lifecycle!ExpireAll(S)

\* A guarded UPDATE is an abstract update, or nothing if it names no row.
LEMMA MarkStep ==
  ASSUME StatusType, NEW c, NEW to \in {"SENT", "ACKED", "FAILED"}, NEW err, mark(c, to, err)
  PROVE  RowStep
<1>1. CASE c \in Commands /\ status[c] \in Pending
  <2>1. Lifecycle!Update(c, to)
    BY <1>1 DEF mark, Lifecycle!Update, Lifecycle!Pending, Pending
  <2> QED
    BY <1>1, <2>1 DEF RowStep
<1>2. CASE c \notin Commands \/ status[c] \notin Pending
  <2>1. UNCHANGED status
    BY <1>2 DEF mark, StatusType
  <2> QED
    BY <2>1 DEF RowStep
<1> QED
  BY <1>1, <1>2

LEMMA StepIsRowStep == StatusType /\ [Next]_vars => RowStep
<1> SUFFICES ASSUME StatusType, [Next]_vars PROVE RowStep
  OBVIOUS
<1>1. ASSUME NEW c \in Commands, Create(c) PROVE RowStep
  <2>1. status[c] = "NEW"
    BY <1>1, CommandsAssumption DEF Create
  <2> QED
    BY <1>1, <2>1 DEF Create, RowStep, Lifecycle!Insert
<1>2. ASSUME NEW c \in Commands, PublishFails(c) PROVE RowStep
  BY <1>2, MarkStep DEF PublishFails
<1>3. ASSUME expireStale PROVE RowStep
  <2>1. Lifecycle!ExpireAll(stale \cap Commands)
    BY <1>3 DEF expireStale, Lifecycle!ExpireAll, Lifecycle!Pending, Pending, stale
  <2> QED
    BY <2>1 DEF RowStep
<1>4. ASSUME NEW m \in topic, handleSent(m) PROVE RowStep
  BY <1>4, MarkStep DEF handleSent, RowStep
<1>5. ASSUME NEW m \in topic, handleRejected(m) PROVE RowStep
  BY <1>5, MarkStep DEF handleRejected, RowStep
<1>6. ASSUME ApplyAck PROVE RowStep
  BY <1>6, MarkStep DEF ApplyAck, RowStep
<1>7. ASSUME \/ \E c \in Commands : Publish(c) \/ PassTtl(c)
             \/ Sessions \/ Gateway \/ Device
             \/ \E m \in topic : handleDeviceAck(m)
             \/ UNCHANGED vars
      PROVE  RowStep
  BY <1>7 DEF Publish, PassTtl, Sessions, Release, Authenticate, Upsert, End, Gateway,
              flushHeld, Crash, Rejoin, Consume, Lookup, FlushNext, dispatch, Device, Reply,
              handleDeviceAck, vars, rows, RowStep
<1> QED
  BY <1>1, <1>2, <1>3, <1>4, <1>5, <1>6, <1>7 DEF Next, Service, Consumer

LEMMA StatusTypeStep == StatusType /\ RowStep => StatusType'
<1> SUFFICES ASSUME StatusType, RowStep PROVE StatusType'
  OBVIOUS
<1> USE DEF StatusType, Lifecycle!Statuses, Lifecycle!Pending, Lifecycle!Terminal
<1>1. CASE UNCHANGED status
  BY <1>1
<1>2. CASE \E c \in Commands : Lifecycle!Insert(c)
  BY <1>2 DEF Lifecycle!Insert
<1>3. CASE \E c \in Commands, to \in {"SENT", "ACKED", "FAILED"} : Lifecycle!Update(c, to)
  BY <1>3 DEF Lifecycle!Update
<1>4. CASE \E S \in SUBSET Commands : Lifecycle!ExpireAll(S)
  BY <1>4 DEF Lifecycle!ExpireAll
<1> QED
  BY <1>1, <1>2, <1>3, <1>4 DEF RowStep

\* Whatever happens to the events, the row lives the life the guarded UPDATEs
\* of DeviceCommandRepository promise.
THEOREM RowsLiveTheLifecycle == Spec => LifecycleSpec
<1>1. Init => StatusType /\ Lifecycle!Init
  BY DEF Init, StatusType, Lifecycle!Init, Lifecycle!Statuses
<1>2. StatusType /\ [Next]_vars => StatusType' /\ [Lifecycle!Next]_status
  <2>1. RowStep => [Lifecycle!Next]_status
    BY DEF RowStep, Lifecycle!Next
  <2> QED
    BY <2>1, StepIsRowStep, StatusTypeStep
<1> QED
  BY <1>1, <1>2, PTL DEF Spec, LifecycleSpec, Lifecycle!Spec

\* "ACKED/FAILED/EXPIRED win": no late event changes what the operator was told.
THEOREM OutcomeIsFinal == Spec => Lifecycle!TerminalWins
<1>1. Init => StatusType
  BY DEF Init, StatusType, Lifecycle!Statuses
<1>2. StatusType /\ [Next]_vars =>
         /\ StatusType'
         /\ [\A c \in Commands : status[c] \in Lifecycle!Terminal => status'[c] = status[c]]_status
  <2> SUFFICES ASSUME StatusType, RowStep, NEW c \in Commands, status[c] \in Lifecycle!Terminal
               PROVE  status'[c] = status[c]
    BY StepIsRowStep, StatusTypeStep
  <2> QED
    BY DEF StatusType, RowStep, Lifecycle!Insert, Lifecycle!Update, Lifecycle!ExpireAll,
           Lifecycle!Pending, Lifecycle!Terminal
<1> QED
  BY <1>1, <1>2, PTL DEF Spec, Lifecycle!TerminalWins

-----------------------------------------------------------------------------
(* SENT is only shown for a frame that was handed to a socket *)

\* A SENT event names a written command, from the write to its projection.
SentInv ==
    /\ written \in [Commands -> Nat] /\ offset \in [Pods -> Nat]
    /\ requests \in Seq(Commands)
    /\ \A m \in topic : m.kind = "SENT" => m.cmd \in Commands /\ written[m.cmd] > 0
    /\ SentWasWritten

\* What a step may do to the frames and events, and to the rows, for SentInv.
SentStep ==
    /\ written' \in [Commands -> Nat]
    /\ \A c \in Commands : written[c] > 0 => written'[c] > 0
    /\ \A m \in topic' : m.kind = "SENT" => m \in topic \/ (m.cmd \in Commands /\ written'[m.cmd] > 0)
    /\ \A c \in Commands : status'[c] = "SENT" => status[c] = "SENT" \/ written'[c] > 0

LEMMA SentStepKeeps ==
  ASSUME SentInv, SentStep, offset' \in [Pods -> Nat], requests' \in Seq(Commands)
  PROVE  SentInv'
<1>1. \A m \in topic' : m.kind = "SENT" => m.cmd \in Commands /\ written'[m.cmd] > 0
  BY DEF SentInv, SentStep
<1>2. SentWasWritten'
  BY DEF SentInv, SentStep, SentWasWritten
<1> QED
  BY <1>1, <1>2 DEF SentInv, SentStep

\* The frames and events of a step: the two middle conjuncts of SentStep.
FrameStep ==
    /\ written' \in [Commands -> Nat]
    /\ \A c \in Commands : written[c] > 0 => written'[c] > 0
    /\ \A m \in topic' : m.kind = "SENT" => m \in topic \/ (m.cmd \in Commands /\ written'[m.cmd] > 0)

LEMMA RejectedFrame ==
  ASSUME SentInv, NEW S, publishFeedback(S, "REJECTED"), written' \in [Commands -> Nat],
         \A c \in Commands : written[c] > 0 => written'[c] > 0
  PROVE  FrameStep
  BY DEF publishFeedback, FrameStep

LEMMA WriteFrame ==
  ASSUME SentInv, NEW p, NEW c \in Commands, write(p, c)
  PROVE  FrameStep
<1>1. written \in [Commands -> Nat]
  BY DEF SentInv
<1>2. CASE written' = [written EXCEPT ![c] = @ + 1] /\ publishFeedback({c}, "SENT")
  <2>1. /\ written' \in [Commands -> Nat] /\ written'[c] > 0
        /\ \A d \in Commands : written[d] > 0 => written'[d] > 0
    BY <1>1, <1>2
  <2>2. \A m \in topic' : m \in topic \/ m.cmd = c
    BY <1>2 DEF publishFeedback
  <2> QED
    BY <2>1, <2>2 DEF FrameStep
<1>3. CASE /\ written' = written \/ written' = [written EXCEPT ![c] = @ + 1]
           /\ publishFeedback({c}, "REJECTED")
  <2>1. /\ written' \in [Commands -> Nat]
        /\ \A d \in Commands : written[d] > 0 => written'[d] > 0
    BY <1>1, <1>3
  <2> QED
    BY <1>3, <2>1, RejectedFrame
<1> QED
  BY <1>2, <1>3 DEF write

LEMMA HoldOrRejectFrame ==
  ASSUME SentInv, NEW p, NEW c, holdOrReject(p, c)
  PROVE  FrameStep
<1>1. CASE hold(p, c)
  BY <1>1 DEF hold, SentInv, FrameStep
<1>2. CASE reject(p, c)
  BY <1>2, RejectedFrame DEF reject, SentInv
<1> QED
  BY <1>1, <1>2 DEF holdOrReject

LEMMA DispatchFrame ==
  ASSUME SentInv, NEW p, NEW c \in Commands, NEW await, dispatch(p, c, await)
  PROVE  FrameStep
<1>1. CASE UNCHANGED <<topic, written>>
  BY <1>1 DEF SentInv, FrameStep
<1> QED
  BY <1>1, WriteFrame, HoldOrRejectFrame DEF dispatch

LEMMA SentInvInit == Init => SentInv
  BY DEF Init, SentInv, SentWasWritten

\* The steps of the gateway and of the device leave the rows alone.
LEMMA FrameKeeps ==
  ASSUME SentInv, FrameStep, UNCHANGED <<status, requests>>, offset' \in [Pods -> Nat]
  PROVE  SentInv'
<1>1. SentStep
  BY DEF FrameStep, SentStep
<1>2. requests' \in Seq(Commands)
  BY DEF SentInv
<1> QED
  BY <1>1, <1>2, SentStepKeeps

\* A guarded UPDATE writes SENT only for a SENT event.
LEMMA MarkKeeps ==
  ASSUME SentInv, NEW c, NEW to, NEW err, mark(c, to, err),
         to = "SENT" => c \in Commands /\ written[c] > 0,
         UNCHANGED <<written, requests, offset>>, topic' \subseteq topic, StatusType
  PROVE  SentInv'
<1>1. \A d \in Commands : status'[d] = "SENT" => status[d] = "SENT" \/ written'[d] > 0
  BY DEF mark, StatusType
<1>2. SentStep
  BY <1>1 DEF SentInv, SentStep
<1> QED
  BY <1>2, SentStepKeeps DEF SentInv

LEMMA SentInvStep == StatusType /\ SentInv /\ [Next]_vars => SentInv'
<1> SUFFICES ASSUME StatusType, SentInv, [Next]_vars PROVE SentInv'
  OBVIOUS
<1>0. ASSUME UNCHANGED <<written, offset>>, topic' \subseteq topic, requests' \in Seq(Commands),
             \A c \in Commands : status'[c] = "SENT" => status[c] = "SENT"
      PROVE  SentInv'
  <2>1. SentStep
    BY <1>0 DEF SentInv, SentStep
  <2> QED
    BY <1>0, <2>1, SentStepKeeps DEF SentInv
<1>1. ASSUME NEW c \in Commands, Create(c) PROVE SentInv'
  BY <1>0, <1>1 DEF Create, gateway, queue, device, StatusType, SentInv
<1>2. ASSUME NEW c \in Commands, Publish(c) PROVE SentInv'
  <2>1. requests' \in Seq(Commands)
    BY <1>2 DEF Publish, SentInv
  <2> QED
    BY <1>0, <1>2, <2>1 DEF Publish, gateway, queue, device
<1>3. ASSUME NEW c \in Commands, PublishFails(c) PROVE SentInv'
  <2>1. requests' \in Seq(Commands)
    <3>1. requests \in Seq(Commands) /\ Append(requests, c) \in Seq(Commands)
      BY DEF SentInv
    <3>2. requests' = requests \/ requests' = Append(requests, c)
      BY <1>3 DEF PublishFails
    <3> QED
      BY <3>1, <3>2
  <2>2. \A d \in Commands : status'[d] = "SENT" => status[d] = "SENT"
    BY <1>3 DEF PublishFails, mark, StatusType
  <2>3. UNCHANGED <<written, offset, topic>>
    BY <1>3 DEF PublishFails, gateway, queue, device
  <2> QED
    BY <1>0, <2>1, <2>2, <2>3
<1>4. ASSUME NEW c \in Commands, PassTtl(c) PROVE SentInv'
  BY <1>0, <1>4 DEF PassTtl, gateway, queue, device, SentInv
<1>5. ASSUME expireStale PROVE SentInv'
  <2>1. \A d \in Commands : status'[d] = "SENT" => status[d] = "SENT"
    BY <1>5 DEF expireStale
  <2> QED
    BY <1>0, <1>5, <2>1 DEF expireStale, gateway, queue, device, SentInv
<1>6. ASSUME Sessions PROVE SentInv'
  BY <1>0, <1>6 DEF Sessions, Release, Authenticate, Upsert, End, rows, gateway, queue, device, SentInv
<1>7. ASSUME NEW p \in Pods, Consume(p) PROVE SentInv'
  <2>1. /\ offset[p] \in Nat /\ offset' = [offset EXCEPT ![p] = @ + 1]
        /\ offset \in [Pods -> Nat] /\ offset[p] < Len(requests) /\ requests \in Seq(Commands)
    BY <1>7 DEF Consume, SentInv
  <2>2. requests[offset[p] + 1] \in Commands /\ offset' \in [Pods -> Nat]
    BY <2>1
  <2>3. FrameStep
    BY <1>7, <2>2, DispatchFrame DEF Consume
  <2>4. UNCHANGED <<status, requests>>
    BY <1>7 DEF Consume, dispatch, rows
  <2> QED
    BY <2>2, <2>3, <2>4, FrameKeeps
<1>8. ASSUME NEW p \in Pods, NEW c \in Commands, Lookup(p, c) PROVE SentInv'
  <2>1. FrameStep
    BY <1>8, HoldOrRejectFrame DEF Lookup, SentInv, FrameStep
  <2> QED
    BY <1>8, <2>1, FrameKeeps DEF Lookup, rows, SentInv
<1>9. ASSUME NEW p \in Pods, NEW c \in Commands, FlushNext(p, c) PROVE SentInv'
  <2>1. FrameStep
    BY <1>9, DispatchFrame DEF FlushNext
  <2> QED
    BY <1>9, <2>1, FrameKeeps DEF FlushNext, dispatch, rows, SentInv
<1>10. ASSUME NEW p \in Pods, flushHeld(p) PROVE SentInv'
  <2>1. PICK S : publishFeedback(S, "REJECTED")
    BY <1>10 DEF flushHeld
  <2>2. UNCHANGED <<status, requests, offset, written>>
    BY <1>10 DEF flushHeld, rows, device
  <2>3. FrameStep
    BY <2>1, <2>2, RejectedFrame DEF SentInv
  <2> QED
    BY <2>2, <2>3, FrameKeeps DEF SentInv
<1>11. ASSUME NEW p \in Pods, Crash(p) PROVE SentInv'
  <2>2. offset' \in [Pods -> Nat]
    BY <1>11 DEF Crash, SentInv
  <2>3. UNCHANGED <<status, requests, topic, written>>
    BY <1>11 DEF Crash, rows, device
  <2>4. FrameStep
    BY <2>3 DEF FrameStep, SentInv
  <2> QED
    BY <2>2, <2>3, <2>4, FrameKeeps
<1>12. ASSUME NEW c \in Commands, NEW body \in Bodies, Reply(c, body) PROVE SentInv'
  <2>1. FrameStep
    BY <1>12 DEF Reply, FrameStep, SentInv
  <2> QED
    BY <1>12, <2>1, FrameKeeps DEF Reply, rows, gateway, queue, SentInv
<1>13. ASSUME NEW m \in topic, handleSent(m) PROVE SentInv'
  <2>1. topic' \subseteq topic /\ UNCHANGED <<written, requests, offset>>
    BY <1>13 DEF handleSent, consumed, gateway, queue, device
  <2>2. CASE mark(m.cmd, "SENT", "none")
    BY <1>13, <2>1, <2>2, MarkKeeps DEF handleSent, SentInv
  <2>3. CASE UNCHANGED status
    BY <1>0, <2>1, <2>3 DEF SentInv
  <2> QED
    BY <1>13, <2>2, <2>3 DEF handleSent
<1>14. ASSUME NEW m \in topic, handleRejected(m) PROVE SentInv'
  <2>1. topic' \subseteq topic /\ UNCHANGED <<written, requests, offset>>
    BY <1>14 DEF handleRejected, consumed, gateway, queue, device
  <2>2. CASE mark(m.cmd, "FAILED", "REJECTED")
    BY <2>1, <2>2, MarkKeeps
  <2>3. CASE UNCHANGED status
    BY <1>0, <2>1, <2>3 DEF SentInv
  <2> QED
    BY <1>14, <2>2, <2>3 DEF handleRejected
<1>15. ASSUME NEW m \in topic, handleDeviceAck(m) PROVE SentInv'
  BY <1>0, <1>15 DEF handleDeviceAck, consumed, rows, gateway, queue, device, SentInv
<1>16. ASSUME ApplyAck PROVE SentInv'
  <2>1. UNCHANGED <<topic, written, requests, offset>>
    BY <1>16 DEF ApplyAck, gateway, queue, device
  <2>2. CASE mark(match.row, "FAILED", "DEVICE_ERROR") \/ mark(match.row, "ACKED", "none")
    BY <2>1, <2>2, MarkKeeps
  <2>3. CASE UNCHANGED status
    BY <1>0, <2>1, <2>3 DEF SentInv
  <2> QED
    BY <1>16, <2>2, <2>3 DEF ApplyAck
<1>17. CASE UNCHANGED vars
  BY <1>0, <1>17 DEF vars, SentInv
<1>18. ASSUME NEW p \in Pods, Rejoin(p) PROVE SentInv'
  <2>1. offset' \in [Pods -> Nat]
    BY <1>18 DEF Rejoin, SentInv
  <2>2. UNCHANGED <<status, requests, topic, written>>
    BY <1>18 DEF Rejoin, rows, device
  <2>3. FrameStep
    BY <2>2 DEF FrameStep, SentInv
  <2> QED
    BY <2>1, <2>2, <2>3, FrameKeeps
<1> QED
  BY <1>1, <1>2, <1>3, <1>4, <1>5, <1>6, <1>7, <1>8, <1>9, <1>10, <1>11, <1>12,
     <1>13, <1>14, <1>15, <1>16, <1>17, <1>18 DEF Next, Service, Gateway, Device, Consumer

\* The operator sees SENT only for a frame that was handed to a socket.
THEOREM SentIsTrue == Spec => []SentWasWritten
<1>1. Init => StatusType /\ SentInv
  BY SentInvInit DEF Init, StatusType, Lifecycle!Statuses
<1>2. StatusType /\ SentInv /\ [Next]_vars => (StatusType /\ SentInv)'
  BY StepIsRowStep, StatusTypeStep, SentInvStep
<1>3. SentInv => SentWasWritten
  BY DEF SentInv
<1> QED
  BY <1>1, <1>2, <1>3, PTL DEF Spec

-----------------------------------------------------------------------------
(* The types *)

\* Commands are finitely many at any time, so that one of them is the newest.
Known == {c \in Commands : status[c] # "NEW"}

TypeInv == TypeOK /\ IsFiniteSet(Known)

\* A finite set of numbers has a greatest one.
LEMMA HasNewest ==
  ASSUME NEW S \in SUBSET Nat, IsFiniteSet(S), S # {}
  PROVE  Newest(S) \in S /\ \A d \in S : d <= Newest(S)
<1> DEFINE Above(c) == {d \in S : d > c}
           T == {Above(c) : c \in S}
<1>1. \E U \in T : \A V \in T : <<V, U>> \notin StrictSubsetOrdering(S)
  <2>1. IsWellFoundedOn(StrictSubsetOrdering(S), FiniteSubsetsOf(S))
    BY FS_StrictSubsetOrderingWellFounded
  <2>2. \A c \in S : Above(c) \in FiniteSubsetsOf(S)
    BY FS_Subset DEF FiniteSubsetsOf
  <2>3. T \subseteq FiniteSubsetsOf(S) /\ T # {}
    BY <2>2
  <2> HIDE DEF T, Above
  <2> QED
    BY <2>1, <2>3, WFMin
<1>2. PICK c \in S : \A V \in T : <<V, Above(c)>> \notin StrictSubsetOrdering(S)
  BY <1>1
<1>3. ASSUME NEW d \in Above(c) PROVE FALSE
  <2>1. Above(d) \in T /\ Above(d) \subseteq Above(c) /\ d \notin Above(d) /\ d \in S
    <3>1. d \in S /\ d > c /\ d \in Nat /\ c \in Nat
      BY <1>3
    <3>2. ASSUME NEW e \in Above(d) PROVE e \in Above(c)
      <4>1. e \in S /\ e \in Nat /\ e > d
        BY <3>2
      <4>2. e > c
        BY ONLY <3>1, <4>1
      <4> QED
        BY <4>1, <4>2
    <3>3. d \notin Above(d)
      BY <3>1
    <3> HIDE DEF Above
    <3> QED
      BY <3>1, <3>2, <3>3
  <2>2. <<Above(d), Above(c)>> \in StrictSubsetOrdering(S)
    BY <1>3, <2>1 DEF StrictSubsetOrdering
  <2> QED
    BY <1>2, <2>1, <2>2
<1>4. \A d \in S : d <= c
  BY <1>3
<1> QED
  BY <1>4 DEF Newest

OutcomeOK ==
    /\ status \in [Commands -> {"NEW", "QUEUED", "SENT", "ACKED", "FAILED", "EXPIRED"}]
    /\ error \in [Commands -> {"none", "PUBLISH_FAILED", "REJECTED", "DEVICE_ERROR",
                               "TTL_EXPIRED"}]
    /\ \A c \in Commands : error[c] # "none" <=> status[c] \in {"FAILED", "EXPIRED"}

\* A guarded UPDATE makes no row and leaves a reason for a failure alone.
LEMMA MarkType ==
  ASSUME OutcomeOK, NEW c, NEW to \in {"SENT", "ACKED", "FAILED"},
         NEW err \in {"none", "PUBLISH_FAILED", "REJECTED", "DEVICE_ERROR"},
         to = "FAILED" <=> err # "none", mark(c, to, err)
  PROVE  OutcomeOK' /\ Known' = Known
<1>1. CASE UNCHANGED <<status, error>>
  BY <1>1 DEF OutcomeOK, Known
<1>2. CASE /\ status[c] \in Pending /\ status' = [status EXCEPT ![c] = to]
           /\ error' = [error EXCEPT ![c] = err]
  <2>1. OutcomeOK'
    BY <1>2 DEF OutcomeOK, Pending
  <2>2. \A d \in Commands : status'[d] = "NEW" <=> status[d] = "NEW"
    BY <1>2 DEF OutcomeOK, Pending
  <2> QED
    BY <2>1, <2>2 DEF Known
<1> QED
  BY <1>1, <1>2 DEF mark

Feedback(c) == {[kind |-> k, cmd |-> c] : k \in {"SENT", "REJECTED"}}

\* What a pod does with one command: it moves on, is held, written or rejected.
Handles(p, c, stage) ==
    /\ at' = [at EXCEPT ![p][c] = stage]
    /\ \/ UNCHANGED queue /\ written' = written
       \/ stage = "settled" /\ UNCHANGED queue /\ written' = [written EXCEPT ![c] = @ + 1]
       \/ /\ stage = "settled" /\ written' = written
          /\ held' = [held EXCEPT ![p] = put(held[p], c)]
          /\ \E now \in moments(p) : heldAt' = [heldAt EXCEPT ![p][c] = now]
    /\ topic' \subseteq topic \cup Feedback(c)

LEMMA FeedbackOf ==
  ASSUME NEW c, NEW k \in {"SENT", "REJECTED"}, publishFeedback({c}, k)
  PROVE  topic' \subseteq topic \cup Feedback(c)
  BY DEF publishFeedback, Feedback

LEMMA HoldHandles ==
  ASSUME NEW p, NEW c, holdOrReject(p, c) PROVE Handles(p, c, "settled")
<1>1. CASE hold(p, c)
  BY <1>1 DEF hold, Handles, Settle
<1>2. CASE reject(p, c)
  BY <1>2, FeedbackOf DEF reject, Handles, Settle
<1> QED
  BY <1>1, <1>2 DEF holdOrReject

LEMMA DispatchHandles ==
  ASSUME NEW p, NEW c, NEW await, dispatch(p, c, await)
  PROVE  /\ \E stage \in {await, "settled"} : Handles(p, c, stage)
         /\ UNCHANGED <<rows, session, entry, match, replies>>
<1>1. CASE write(p, c)
  <2>1. Handles(p, c, "settled")
    BY <1>1, FeedbackOf DEF write, Handles, Settle
  <2> QED
    BY <2>1 DEF dispatch
<1>2. CASE holdOrReject(p, c)
  BY <1>2, HoldHandles DEF dispatch
<1>3. CASE at' = [at EXCEPT ![p][c] = await] /\ UNCHANGED <<queue, topic, written>>
  <2>1. Handles(p, c, await)
    BY <1>3 DEF Handles
  <2> QED
    BY <2>1 DEF dispatch
<1> QED
  BY <1>1, <1>2, <1>3 DEF dispatch

\* A command takes the place of the one of its key, or goes to the end.
LEMMA PutPlaces ==
  ASSUME NEW h \in Seq(Commands), NEW c \in Commands
  PROVE  /\ put(h, c) \in Seq(Commands)
         /\ \/ /\ place(h, c) = {} /\ Len(put(h, c)) = Len(h) + 1 /\ put(h, c)[Len(h) + 1] = c
               /\ \A a \in DOMAIN h : put(h, c)[a] = h[a]
            \/ /\ place(h, c) # {} /\ DOMAIN put(h, c) = DOMAIN h
               /\ \A a \in DOMAIN h : put(h, c)[a] = IF a \in place(h, c) THEN c ELSE h[a]
<1>1. CASE place(h, c) = {}
  <2>1. put(h, c) = Append(h, c)
    BY <1>1 DEF put
  <2> QED
    BY <1>1, <2>1, AppendProperties
<1>2. CASE place(h, c) # {}
  <2>1. put(h, c) = [i \in DOMAIN h |-> IF i \in place(h, c) THEN c ELSE h[i]]
    BY <1>2 DEF put
  <2>2. DOMAIN h = 1 .. Len(h) /\ Len(h) \in Nat
    OBVIOUS
  <2>3. put(h, c) \in [1 .. Len(h) -> Commands]
    BY <2>1, <2>2
  <2>4. put(h, c) \in Seq(Commands)
    BY ONLY <2>2, <2>3, SeqDef
  <2> QED
    BY <1>2, <2>1, <2>4
<1> QED
  BY <1>1, <1>2

\* The rest of TypeOK, part by part.
QueueOK == /\ due \subseteq Commands /\ outbox \subseteq Commands
           /\ requests \in Seq(Commands) /\ offset \in [Pods -> Nat]
SessionOK == session \in [Pods -> {"none", "live", "dead"}] /\ entry \in Pods \cup {None}
GateOK == /\ at \in [Pods -> [Commands -> Stages]]
          /\ held \in [Pods -> Seq(Commands)] /\ heldAt \in [Pods -> [Commands -> Nat]]
EventOK == topic \subseteq Event /\ match \in {None} \cup [row: Commands, body: Bodies]
DeviceOK == written \in [Commands -> Nat] /\ replies \in [Commands -> Nat]

LEMMA Parts ==
  /\ TypeOK <=> OutcomeOK /\ QueueOK /\ SessionOK /\ GateOK /\ EventOK /\ DeviceOK
  /\ TypeOK' <=> OutcomeOK' /\ QueueOK' /\ SessionOK' /\ GateOK' /\ EventOK' /\ DeviceOK'
<1>1. TypeOK <=> OutcomeOK /\ QueueOK /\ SessionOK /\ GateOK /\ EventOK /\ DeviceOK
  BY Zenon DEF TypeOK, OutcomeOK, QueueOK, SessionOK, GateOK, EventOK, DeviceOK
<1>2. TypeOK' <=> OutcomeOK' /\ QueueOK' /\ SessionOK' /\ GateOK' /\ EventOK' /\ DeviceOK'
  BY Zenon DEF TypeOK, OutcomeOK, QueueOK, SessionOK, GateOK, EventOK, DeviceOK
<1> QED
  BY <1>1, <1>2

\* What is left alone keeps its type.
LEMMA PartsFrame ==
  /\ OutcomeOK /\ UNCHANGED <<status, error>> => OutcomeOK' /\ Known' = Known
  /\ QueueOK /\ UNCHANGED <<due, outbox, requests, offset>> => QueueOK'
  /\ SessionOK /\ UNCHANGED <<session, entry>> => SessionOK'
  /\ GateOK /\ UNCHANGED <<at, held, heldAt>> => GateOK'
  /\ EventOK /\ UNCHANGED <<topic, match>> => EventOK'
  /\ DeviceOK /\ UNCHANGED <<written, replies>> => DeviceOK'
  BY DEF OutcomeOK, Known, QueueOK, SessionOK, GateOK, EventOK, DeviceOK

LEMMA HandlesType ==
  ASSUME GateOK, EventOK, DeviceOK, NEW p \in Pods, NEW c \in Commands, NEW stage \in Stages,
         Handles(p, c, stage), UNCHANGED <<match, replies>>
  PROVE  GateOK' /\ EventOK' /\ DeviceOK'
<1>1. at' \in [Pods -> [Commands -> Stages]]
  BY DEF GateOK, Handles
<1>2. held' \in [Pods -> Seq(Commands)] /\ heldAt' \in [Pods -> [Commands -> Nat]]
  <2>1. held[p] \in Seq(Commands) /\ heldAt \in [Pods -> [Commands -> Nat]]
    BY DEF GateOK
  <2>2. put(held[p], c) \in Seq(Commands)
    BY <2>1, PutPlaces
  <2>3. moments(p) \subseteq Nat
    BY <2>1 DEF moments
  <2>4. \/ UNCHANGED <<held, heldAt>>
        \/ /\ held' = [held EXCEPT ![p] = put(held[p], c)]
           /\ \E now \in moments(p) : heldAt' = [heldAt EXCEPT ![p][c] = now]
    BY DEF Handles, queue
  <2> HIDE DEF put, moments
  <2>5. held' \in [Pods -> Seq(Commands)]
    BY <2>2, <2>4 DEF GateOK
  <2>6. ASSUME NEW now \in Nat PROVE [heldAt EXCEPT ![p][c] = now] \in [Pods -> [Commands -> Nat]]
    BY ONLY <2>1, p \in Pods, c \in Commands
  <2>7. heldAt' \in [Pods -> [Commands -> Nat]]
    BY ONLY <2>1, <2>3, <2>4, <2>6
  <2> QED
    BY <2>5, <2>7
<1>3. EventOK'
  <2>1. Feedback(c) \subseteq Event
    BY DEF Feedback, Event
  <2> QED
    BY <2>1 DEF EventOK, Handles
<1>4. DeviceOK'
  BY DEF DeviceOK, Handles
<1> QED
  BY <1>1, <1>2, <1>3, <1>4 DEF GateOK

\* A step of a pod that handles one command.
LEMMA HandlesTypeOK ==
  ASSUME TypeInv, NEW p \in Pods, NEW c \in Commands, NEW stage \in Stages,
         Handles(p, c, stage), offset' \in [Pods -> Nat],
         UNCHANGED <<rows, session, entry, match, replies>>
  PROVE  TypeInv'
<1>1. OutcomeOK' /\ SessionOK' /\ Known' = Known
  BY Parts, PartsFrame DEF TypeInv, rows
<1>2. QueueOK'
  BY Parts DEF TypeInv, rows, QueueOK
<1>3. GateOK' /\ EventOK' /\ DeviceOK'
  BY Parts, HandlesType DEF TypeInv
<1> QED
  BY <1>1, <1>2, <1>3, Parts DEF TypeInv

\* A step that publishes feedback for several commands.
LEMMA FeedbackType ==
  ASSUME EventOK, NEW S, S \subseteq Commands, publishFeedback(S, "REJECTED"), UNCHANGED match
  PROVE  EventOK'
<1>1. PICK sent \in {S} \cup SUBSET S : topic' = topic \cup {[kind |-> "REJECTED", cmd |-> c] : c \in sent}
  BY DEF publishFeedback
<1>2. \A c \in sent : [kind |-> "REJECTED", cmd |-> c] \in Event
  BY <1>1 DEF Event
<1> QED
  BY <1>1, <1>2 DEF EventOK

\* The command of an answer, and that of the row it is matched with.
LEMMA EventType ==
  ASSUME TypeInv, NEW m \in topic
  PROVE  m.cmd \in Commands /\ (m.kind = "ACK" => m.body \in Bodies)
<1>1. m \in Event
  BY DEF TypeInv, TypeOK
<1> QED
  BY <1>1 DEF Event

LEMMA MatchesNewest ==
  ASSUME TypeInv, NEW code, pendingRows(code) # {}
  PROVE  /\ Newest(pendingRows(code)) \in pendingRows(code)
         /\ \A d \in pendingRows(code) : d <= Newest(pendingRows(code))
<1>1. pendingRows(code) \subseteq Known /\ pendingRows(code) \subseteq Commands
  BY DEF pendingRows, Known, Pending
<1>2. IsFiniteSet(pendingRows(code)) /\ pendingRows(code) \in SUBSET Nat
  BY <1>1, CommandsAssumption, FS_Subset DEF TypeInv
<1> HIDE DEF pendingRows
<1> QED
  BY <1>2, HasNewest

LEMMA ServiceType ==
  ASSUME TypeInv, NEW c \in Commands,
         Create(c) \/ Publish(c) \/ PublishFails(c) \/ PassTtl(c) \/ expireStale
  PROVE  TypeInv'
<1> USE DEF gateway, queue, device
<1>1. OutcomeOK /\ QueueOK /\ SessionOK /\ GateOK /\ EventOK /\ DeviceOK /\ IsFiniteSet(Known)
  BY Parts DEF TypeInv
<1>2. SessionOK' /\ GateOK' /\ EventOK' /\ DeviceOK'
  <2>1. UNCHANGED <<session, entry, at, held, heldAt, topic, match, written, replies>>
    BY DEF Create, Publish, PublishFails, PassTtl, expireStale
  <2> QED
    BY <1>1, <2>1, PartsFrame
<1>3. Append(requests, c) \in Seq(Commands) /\ requests \in Seq(Commands)
  BY <1>1 DEF QueueOK
<1>4. QueueOK'
  <2>1. /\ due' \subseteq due \cup {c} /\ outbox' \subseteq outbox \cup {c} /\ offset' = offset
        /\ requests' = requests \/ requests' = Append(requests, c)
    BY DEF Create, Publish, PublishFails, PassTtl, expireStale
  <2> QED
    BY <1>1, <1>3, <2>1 DEF QueueOK
<1>5. OutcomeOK' /\ IsFiniteSet(Known')
  <2>1. CASE Create(c)
    <3>1. status[c] = "NEW" /\ status' = [status EXCEPT ![c] = "QUEUED"] /\ error' = error
      BY <2>1, CommandsAssumption DEF Create
    <3>2. OutcomeOK' /\ Known' = Known \cup {c}
      BY <1>1, <3>1 DEF OutcomeOK, Known
    <3> QED
      BY <1>1, <3>2, FS_AddElement
  <2>2. CASE Publish(c) \/ PassTtl(c)
    BY <1>1, <2>2, PartsFrame DEF Publish, PassTtl
  <2>3. CASE PublishFails(c)
    BY <1>1, <2>3, MarkType DEF PublishFails
  <2>4. CASE expireStale
    <3>1. /\ status' = [d \in Commands |-> IF d \in stale THEN "EXPIRED" ELSE status[d]]
          /\ error' = [d \in Commands |-> IF d \in stale THEN "TTL_EXPIRED" ELSE error[d]]
          /\ \A d \in stale : status[d] \in {"QUEUED", "SENT"}
      BY <2>4 DEF expireStale, stale, Pending
    <3>2. OutcomeOK' /\ Known' = Known
      BY <1>1, <3>1 DEF OutcomeOK, Known
    <3> QED
      BY <1>1, <3>2
  <2> QED
    BY <2>1, <2>2, <2>3, <2>4
<1> QED
  BY <1>2, <1>4, <1>5, Parts DEF TypeInv

LEMMA SessionsType ==
  ASSUME TypeInv, Sessions PROVE TypeInv'
<1>1. OutcomeOK' /\ QueueOK' /\ GateOK' /\ EventOK' /\ DeviceOK' /\ Known' = Known
  BY Parts, PartsFrame
  DEF TypeInv, Sessions, Release, Authenticate, Upsert, End, rows, gateway, queue, device
<1>2. SessionOK'
  BY Parts DEF TypeInv, SessionOK, Sessions, Release, Authenticate, Upsert, End
<1> QED
  BY <1>1, <1>2, Parts DEF TypeInv

\* What a flush leaves out, at which places it looks, and what it sends.
Live(p, old) == {i \in DOMAIN held[p] : held[p][i] \notin old}
Send(p, old) == partitionHeld(heldAt[p], held[p], Live(p, old))

LEMMA Flushes ==
  ASSUME TypeInv, NEW p \in Pods, flushHeld(p)
  PROVE  /\ held' = [held EXCEPT ![p] = <<>>] /\ held[p] # <<>>
         /\ at' \in [Pods -> [Commands -> Stages]]
         /\ \A q \in Pods \ {p} : at'[q] = at[q]
         /\ \E old \in SUBSET due : \A c \in Commands :
              at'[p][c] \in IF c \in Send(p, old) THEN {"next", "flushing"} ELSE {at[p][c]}
         /\ UNCHANGED <<rows, session, entry, offset, match, device>>
<1>1. PICK old \in SUBSET due :
        \/ \E first \in Send(p, old) :
             at' = [at EXCEPT ![p] = [c \in Commands |->
                       IF c = first THEN "next"
                       ELSE IF c \in Send(p, old) THEN "flushing" ELSE @[c]]]
        \/ at' = [at EXCEPT ![p] = [c \in Commands |->
                       IF c \in Send(p, old) THEN "flushing" ELSE @[c]]]
  BY DEF flushHeld, Send, Live
<1>2. at \in [Pods -> [Commands -> Stages]]
  BY DEF TypeInv, TypeOK
<1>3. PICK g \in [Commands -> Stages] :
        /\ at' = [at EXCEPT ![p] = g]
        /\ \A c \in Commands :
             g[c] \in IF c \in Send(p, old) THEN {"next", "flushing"} ELSE {at[p][c]}
  <2>1. ASSUME NEW first \in Send(p, old),
               at' = [at EXCEPT ![p] = [c \in Commands |->
                         IF c = first THEN "next"
                         ELSE IF c \in Send(p, old) THEN "flushing" ELSE @[c]]]
        PROVE  \E g \in [Commands -> Stages] :
                 /\ at' = [at EXCEPT ![p] = g]
                 /\ \A c \in Commands :
                      g[c] \in IF c \in Send(p, old) THEN {"next", "flushing"} ELSE {at[p][c]}
    <3> DEFINE g == [c \in Commands |-> IF c = first THEN "next"
                       ELSE IF c \in Send(p, old) THEN "flushing" ELSE at[p][c]]
    <3>1. g \in [Commands -> Stages] /\ at' = [at EXCEPT ![p] = g]
      BY <1>2, <2>1 DEF Stages
    <3>2. \A c \in Commands :
            g[c] \in IF c \in Send(p, old) THEN {"next", "flushing"} ELSE {at[p][c]}
      BY <2>1
    <3> HIDE DEF g
    <3> QED
      BY <3>1, <3>2
  <2>2. ASSUME at' = [at EXCEPT ![p] = [c \in Commands |->
                         IF c \in Send(p, old) THEN "flushing" ELSE @[c]]]
        PROVE  \E g \in [Commands -> Stages] :
                 /\ at' = [at EXCEPT ![p] = g]
                 /\ \A c \in Commands :
                      g[c] \in IF c \in Send(p, old) THEN {"next", "flushing"} ELSE {at[p][c]}
    <3> DEFINE g == [c \in Commands |-> IF c \in Send(p, old) THEN "flushing" ELSE at[p][c]]
    <3>1. g \in [Commands -> Stages] /\ at' = [at EXCEPT ![p] = g]
      BY <1>2, <2>2 DEF Stages
    <3>2. \A c \in Commands :
            g[c] \in IF c \in Send(p, old) THEN {"next", "flushing"} ELSE {at[p][c]}
      OBVIOUS
    <3> HIDE DEF g
    <3> QED
      BY <3>1, <3>2
  <2> QED
    BY <1>1, <2>1, <2>2
<1>4. /\ at' \in [Pods -> [Commands -> Stages]] /\ \A q \in Pods \ {p} : at'[q] = at[q]
      /\ at'[p] = g
  BY <1>2, <1>3
<1>5. /\ held' = [held EXCEPT ![p] = <<>>] /\ held[p] # <<>>
      /\ UNCHANGED <<rows, session, entry, offset, match, device>>
  BY DEF flushHeld
<1> QED
  BY <1>3, <1>4, <1>5

LEMMA FlushType ==
  ASSUME TypeInv, NEW p \in Pods, flushHeld(p) PROVE TypeInv'
<1>1. OutcomeOK' /\ QueueOK' /\ SessionOK' /\ DeviceOK' /\ Known' = Known
  BY Parts, PartsFrame DEF TypeInv, flushHeld, rows, device
<1>2. GateOK'
  <2>1. held' \in [Pods -> Seq(Commands)] /\ heldAt' \in [Pods -> [Commands -> Nat]]
    BY DEF TypeInv, TypeOK, flushHeld
  <2>2. at' \in [Pods -> [Commands -> Stages]]
    BY Flushes
  <2> QED
    BY <2>1, <2>2 DEF GateOK
<1>3. EventOK'
  <2>1. \A i \in DOMAIN held[p] : held[p][i] \in Commands
    BY DEF TypeInv, TypeOK
  <2>2. PICK S \in SUBSET {held[p][i] : i \in DOMAIN held[p]} : publishFeedback(S, "REJECTED")
    BY DEF flushHeld
  <2>3. S \subseteq Commands
    BY <2>1, <2>2
  <2>4. UNCHANGED match
    BY DEF flushHeld
  <2> QED
    BY <2>2, <2>3, <2>4, FeedbackType, Parts DEF TypeInv
<1> QED
  BY <1>1, <1>2, <1>3, Parts DEF TypeInv

LEMMA CrashType ==
  ASSUME TypeInv, NEW p \in Pods, Crash(p) PROVE TypeInv'
<1>1. OutcomeOK' /\ EventOK' /\ DeviceOK' /\ Known' = Known
  BY Parts, PartsFrame DEF TypeInv, Crash, rows, device
<1>2. SessionOK'
  BY Parts DEF TypeInv, SessionOK, Crash
<1>3. GateOK'
  BY Parts DEF TypeInv, GateOK, Crash, Stages
<1>4. QueueOK'
  <2>1. offset' = [offset EXCEPT ![p] = Len(requests)]
    BY DEF Crash
  <2>2. Len(requests) \in Nat
    BY Parts DEF TypeInv, QueueOK
  <2> QED
    BY <2>1, <2>2, Parts DEF TypeInv, QueueOK, Crash, rows
<1> QED
  BY <1>1, <1>2, <1>3, <1>4, Parts DEF TypeInv

LEMMA RejoinType ==
  ASSUME TypeInv, NEW p \in Pods, Rejoin(p) PROVE TypeInv'
<1>1. OutcomeOK' /\ EventOK' /\ DeviceOK' /\ SessionOK' /\ Known' = Known
  BY Parts, PartsFrame DEF TypeInv, Rejoin, rows, device
<1>2. GateOK'
  BY Parts DEF TypeInv, GateOK, Rejoin, Stages, queue
<1>3. QueueOK'
  BY Parts DEF TypeInv, QueueOK, Rejoin, rows
<1> QED
  BY <1>1, <1>2, <1>3, Parts DEF TypeInv

\* A command that is consumed is one, and the consumer moves on.
LEMMA Consumes ==
  ASSUME TypeInv, NEW p \in Pods, Consume(p)
  PROVE  /\ offset[p] \in Nat /\ offset[p] + 1 \in DOMAIN requests
         /\ requests[offset[p] + 1] \in Commands
         /\ offset' = [offset EXCEPT ![p] = @ + 1] /\ offset' \in [Pods -> Nat]
         /\ \E stage \in {"asking", "settled"} : Handles(p, requests[offset[p] + 1], stage)
         /\ UNCHANGED <<rows, session, entry, match, replies>>
<1>1. /\ offset[p] \in Nat /\ offset[p] < Len(requests) /\ requests \in Seq(Commands)
      /\ offset \in [Pods -> Nat] /\ offset' = [offset EXCEPT ![p] = @ + 1]
  BY DEF TypeInv, TypeOK, Consume
<1>2. /\ offset[p] + 1 \in DOMAIN requests /\ requests[offset[p] + 1] \in Commands
      /\ offset' \in [Pods -> Nat]
  BY ONLY <1>1
<1>3. dispatch(p, requests[offset[p] + 1], "asking")
  BY DEF Consume
<1> QED
  BY <1>1, <1>2, <1>3, DispatchHandles

\* The commands a pod has asked about or flushes go on.
LEMMA Continues ==
  ASSUME NEW p, NEW c, Lookup(p, c) \/ FlushNext(p, c)
  PROVE  /\ \E stage \in {"looking", "settled", "routed"} : Handles(p, c, stage)
         /\ at[p][c] \in {"asking", "looking", "next", "flushing"}
         /\ UNCHANGED <<rows, session, entry, offset, match, replies>>
<1>1. CASE Lookup(p, c)
  <2>1. \/ at' = [at EXCEPT ![p][c] = "routed"] /\ UNCHANGED <<queue, topic, written>>
        \/ holdOrReject(p, c)
    BY <1>1 DEF Lookup
  <2>2. \E stage \in {"routed", "settled"} : Handles(p, c, stage)
    BY <2>1, HoldHandles DEF Handles
  <2> QED
    BY <1>1, <2>2 DEF Lookup
<1>2. CASE FlushNext(p, c)
  BY <1>2, DispatchHandles DEF FlushNext
<1> QED
  BY <1>1, <1>2

LEMMA ConsumerType ==
  ASSUME TypeInv, Consumer PROVE TypeInv'
<1> USE DEF gateway, queue, device, rows
<1>1. OutcomeOK /\ QueueOK /\ SessionOK /\ GateOK /\ EventOK /\ DeviceOK /\ IsFiniteSet(Known)
  BY Parts DEF TypeInv
<1>2. QueueOK' /\ SessionOK' /\ GateOK' /\ DeviceOK'
  <2>1. UNCHANGED <<due, outbox, requests, offset, session, entry, at, held, heldAt, written,
                  replies>>
    BY DEF Consumer, handleSent, handleRejected, handleDeviceAck, ApplyAck
  <2> QED
    BY <1>1, <2>1, PartsFrame
<1>3. OutcomeOK' /\ Known' = Known
  <2>1. \/ UNCHANGED <<status, error>>
        \/ \E c : \/ mark(c, "SENT", "none") \/ mark(c, "ACKED", "none")
                  \/ mark(c, "FAILED", "REJECTED") \/ mark(c, "FAILED", "DEVICE_ERROR")
    BY DEF Consumer, handleSent, handleRejected, handleDeviceAck, ApplyAck
  <2>2. ASSUME NEW c, \/ mark(c, "SENT", "none") \/ mark(c, "ACKED", "none")
                      \/ mark(c, "FAILED", "REJECTED") \/ mark(c, "FAILED", "DEVICE_ERROR")
        PROVE  OutcomeOK' /\ Known' = Known
    BY <1>1, <2>2, MarkType
  <2> QED
    BY <1>1, <2>1, <2>2, PartsFrame
<1>4. EventOK'
  <2>1. topic' \subseteq topic
    BY DEF Consumer, handleSent, handleRejected, handleDeviceAck, ApplyAck, consumed
  <2>2. match' \in {None, match} \/ \E m \in topic : handleDeviceAck(m)
    BY DEF Consumer, handleSent, handleRejected, ApplyAck
  <2>3. ASSUME NEW m \in topic, handleDeviceAck(m)
        PROVE  match' \in {None} \cup [row : Commands, body : Bodies]
    <3> DEFINE S == pendingRows(Profile[m.cmd].code)
    <3>1. m.body \in Bodies
      BY <2>3, EventType DEF handleDeviceAck
    <3>2. match' = None \/ (S # {} /\ match' = [row |-> Newest(S), body |-> m.body])
      <4>1. match' = IF S = {} \/ keepPending(m) THEN None ELSE [row |-> Newest(S), body |-> m.body]
        BY <2>3, Zenon DEF handleDeviceAck
      <4> QED
        BY ONLY <4>1
    <3>3. S # {} => Newest(S) \in Commands
      BY MatchesNewest DEF pendingRows
    <3> HIDE DEF S
    <3> QED
      BY <3>1, <3>2, <3>3
  <2> QED
    BY <1>1, <2>1, <2>2, <2>3 DEF EventOK
<1> QED
  BY <1>1, <1>2, <1>3, <1>4, Parts DEF TypeInv

LEMMA TypeStep == TypeInv /\ [Next]_vars => TypeInv'
<1> SUFFICES ASSUME TypeInv, [Next]_vars PROVE TypeInv'
  OBVIOUS
<1>1. ASSUME Service PROVE TypeInv'
  <2>1. CASE expireStale
    <3>1. Known # {}
      BY <2>1 DEF expireStale, stale, Known, Pending, TypeInv, TypeOK
    <3> QED
      BY <2>1, <3>1, ServiceType DEF Known
  <2> QED
    BY <1>1, <2>1, ServiceType DEF Service
<1>2. ASSUME NEW p \in Pods, Consume(p) PROVE TypeInv'
  <2>1. PICK stage \in {"asking", "settled"} : Handles(p, requests[offset[p] + 1], stage)
    BY <1>2, Consumes
  <2> QED
    BY <1>2, <2>1, Consumes, HandlesTypeOK DEF Stages
<1>3. ASSUME NEW p \in Pods, NEW c \in Commands, Lookup(p, c) \/ FlushNext(p, c) PROVE TypeInv'
  <2>1. PICK stage \in {"looking", "settled", "routed"} : Handles(p, c, stage)
    BY <1>3, Continues
  <2>2. offset' \in [Pods -> Nat]
    BY <1>3, Continues DEF TypeInv, TypeOK
  <2> QED
    BY <1>3, <2>1, <2>2, Continues, HandlesTypeOK DEF Stages
<1>4. ASSUME NEW c \in Commands, NEW body \in Bodies, Reply(c, body) PROVE TypeInv'
  <2>1. OutcomeOK' /\ QueueOK' /\ SessionOK' /\ GateOK' /\ Known' = Known
    BY <1>4, Parts, PartsFrame DEF TypeInv, Reply, rows, gateway, queue
  <2>2. EventOK'
    BY <1>4, Parts DEF TypeInv, EventOK, Reply, Event
  <2>3. DeviceOK'
    BY <1>4, Parts DEF TypeInv, DeviceOK, Reply
  <2> QED
    BY <2>1, <2>2, <2>3, Parts DEF TypeInv
<1>5. CASE UNCHANGED vars
  BY <1>5, Parts, PartsFrame DEF TypeInv, vars, queue
<1> QED
  BY <1>1, <1>2, <1>3, <1>4, <1>5, SessionsType, FlushType, CrashType,
     RejoinType, ConsumerType
  DEF Next, Gateway, Device

LEMMA TypeInit == Init => TypeInv
<1> SUFFICES ASSUME Init PROVE TypeInv
  OBVIOUS
<1>1. TypeOK
  BY DEF Init, TypeOK, Stages
<1>2. Known = {}
  BY DEF Init, Known
<1> QED
  BY <1>1, <1>2, FS_EmptySet DEF TypeInv

\* Every variable keeps its type, and a row has an error exactly when it failed or expired.
THEOREM TypeCorrect == Spec => []TypeOK
<1>1. TypeInv => TypeOK
  BY DEF TypeInv
<1> QED
  BY <1>1, TypeInit, TypeStep, PTL DEF Spec

-----------------------------------------------------------------------------
(* A pod holds one command per key *)

Taken(p, c) == \E i \in 1 .. offset[p] : requests[i] = c

\* A request is published once, and a pod knows of a command by having consumed it.
RequestInv ==
    /\ \A i, j \in DOMAIN requests : requests[i] = requests[j] => i = j
    /\ \A i \in DOMAIN requests : requests[i] \notin outbox /\ requests[i] \in Known
    /\ outbox \subseteq Known
    /\ \A p \in Pods : offset[p] <= Len(requests)
    /\ \A p \in Pods, c \in Commands : at[p][c] # "away" => Taken(p, c)

LEMMA KnownGrows == TypeInv /\ [Next]_vars => Known \subseteq Known'
<1> SUFFICES ASSUME TypeInv, [Next]_vars PROVE Known \subseteq Known'
  OBVIOUS
<1>1. StatusType
  BY DEF TypeInv, TypeOK, StatusType, Lifecycle!Statuses, Lifecycle!Pending, Lifecycle!Terminal
<1>2. RowStep
  BY <1>1, StepIsRowStep
<1>3. ASSUME NEW c \in Commands, Lifecycle!Insert(c) PROVE Known \subseteq Known'
  BY <1>1, <1>3 DEF StatusType, Known, Lifecycle!Insert
<1>4. ASSUME NEW c \in Commands, NEW to \in {"SENT", "ACKED", "FAILED"}, Lifecycle!Update(c, to)
      PROVE  Known \subseteq Known'
  BY <1>1, <1>4 DEF StatusType, Known, Lifecycle!Update
<1>5. ASSUME NEW S \in SUBSET Commands, Lifecycle!ExpireAll(S) PROVE Known \subseteq Known'
  BY <1>1, <1>5 DEF StatusType, Known, Lifecycle!ExpireAll
<1>6. ASSUME UNCHANGED status PROVE Known \subseteq Known'
  BY <1>6 DEF Known
<1> QED
  BY <1>2, <1>3, <1>4, <1>5, <1>6 DEF RowStep

\* What every step does to the requests and to what the pods know of them.
LEMMA RequestStep ==
  ASSUME TypeInv, TypeInv', RequestInv, Known \subseteq Known', outbox' \subseteq Known',
         \/ requests' = requests /\ outbox' \subseteq outbox \cup (Commands \ Known)
         \/ \E c \in outbox : requests' = Append(requests, c) /\ outbox' = outbox \ {c},
         \A p \in Pods : offset[p] <= offset'[p] /\ offset'[p] <= Len(requests'),
         \A p \in Pods, c \in Commands : at'[p][c] # "away" => at[p][c] # "away" \/ Taken(p, c)'
  PROVE  RequestInv'
<1>0. requests \in Seq(Commands) /\ offset \in [Pods -> Nat] /\ offset' \in [Pods -> Nat]
      /\ requests' \in Seq(Commands) /\ Len(requests) \in Nat
  BY DEF TypeInv, TypeOK
<1>1. /\ Len(requests) <= Len(requests')
      /\ \A i \in DOMAIN requests : i \in DOMAIN requests' /\ requests'[i] = requests[i]
  <2>1. CASE requests' = requests
    BY <1>0, <2>1
  <2>2. ASSUME NEW c \in Commands, requests' = Append(requests, c)
        PROVE  /\ Len(requests) <= Len(requests')
               /\ \A i \in DOMAIN requests : i \in DOMAIN requests' /\ requests'[i] = requests[i]
    BY <1>0, <2>2, AppendProperties
  <2>3. outbox \subseteq Commands
    BY DEF TypeInv, TypeOK
  <2> QED
    BY <2>1, <2>2, <2>3
<1>2. \A p \in Pods, c \in Commands : at'[p][c] # "away" => Taken(p, c)'
  <2> SUFFICES ASSUME NEW p \in Pods, NEW c \in Commands, Taken(p, c) PROVE Taken(p, c)'
    BY DEF RequestInv
  <2>1. PICK i \in 1 .. offset[p] : requests[i] = c
    BY DEF Taken
  <2>2. i \in DOMAIN requests /\ i \in 1 .. offset'[p]
    BY <1>0, <2>1 DEF RequestInv
  <2> QED
    BY <1>1, <2>1, <2>2 DEF Taken
<1>3. /\ \A i, j \in DOMAIN requests' : requests'[i] = requests'[j] => i = j
      /\ \A i \in DOMAIN requests' : requests'[i] \notin outbox' /\ requests'[i] \in Known'
  <2>1. CASE requests' = requests /\ outbox' \subseteq outbox \cup (Commands \ Known)
    BY <2>1 DEF RequestInv
  <2>2. ASSUME NEW c \in outbox, requests' = Append(requests, c), outbox' = outbox \ {c}
        PROVE  /\ \A i, j \in DOMAIN requests' : requests'[i] = requests'[j] => i = j
               /\ \A i \in DOMAIN requests' : requests'[i] \notin outbox' /\ requests'[i] \in Known'
    <3>1. c \in Commands /\ c \in Known /\ \A i \in DOMAIN requests : requests[i] # c
      BY <2>2 DEF RequestInv, TypeInv, TypeOK
    <3>2. /\ Len(requests') = Len(requests) + 1 /\ requests'[Len(requests) + 1] = c
          /\ DOMAIN requests' = 1 .. Len(requests) + 1 /\ DOMAIN requests = 1 .. Len(requests)
      BY <1>0, <2>2, <3>1, AppendProperties
    <3>3. \A i \in DOMAIN requests' :
            \/ i = Len(requests) + 1 /\ requests'[i] = c
            \/ i \in DOMAIN requests /\ requests'[i] = requests[i]
      BY ONLY <1>0, <1>1, <3>2
    <3>4. \A i \in DOMAIN requests' : requests'[i] \notin outbox' /\ requests'[i] \in Known'
      BY <2>2, <3>1, <3>3 DEF RequestInv
    <3>5. \A i, j \in DOMAIN requests' : requests'[i] = requests'[j] => i = j
      BY <3>1, <3>3 DEF RequestInv
    <3> QED
      BY <3>4, <3>5
  <2> QED
    BY <2>1, <2>2
<1> QED
  BY <1>2, <1>3 DEF RequestInv

\* A flush sends what was held.
LEMMA SendIsHeld ==
  ASSUME NEW p, NEW old, NEW c \in Send(p, old)
  PROVE  \E i \in DOMAIN held[p] : i \in Live(p, old) /\ held[p][i] = c
  BY Zenon DEF Send, partitionHeld, Live

LEMMA RequestInvStep ==
  TypeInv /\ TypeInv' /\ RequestInv /\ HeldOncePerKey /\ [Next]_vars => RequestInv'
<1> SUFFICES ASSUME TypeInv, TypeInv', RequestInv, HeldOncePerKey, [Next]_vars PROVE RequestInv'
  OBVIOUS
<1>0. /\ Known \subseteq Known' /\ outbox \subseteq Known /\ outbox \subseteq Commands
      /\ requests \in Seq(Commands) /\ offset \in [Pods -> Nat] /\ offset' \in [Pods -> Nat]
      /\ at \in [Pods -> [Commands -> Stages]] /\ Len(requests) \in Nat
      /\ \A p \in Pods : offset[p] <= Len(requests)
  BY KnownGrows DEF RequestInv, TypeInv, TypeOK
\* The pods do not move.
<1>1. ASSUME UNCHANGED <<offset, at>>, outbox' \subseteq Known',
             \/ requests' = requests /\ outbox' \subseteq outbox \cup (Commands \ Known)
             \/ \E c \in outbox : requests' = Append(requests, c) /\ outbox' = outbox \ {c}
      PROVE  RequestInv'
  <2>1. \A c \in Commands : Len(Append(requests, c)) = Len(requests) + 1
    BY <1>0, AppendProperties
  <2>2. Len(requests') \in Nat /\ Len(requests) <= Len(requests')
    BY <1>0, <1>1, <2>1
  <2>3. \A p \in Pods : offset[p] <= offset'[p] /\ offset'[p] <= Len(requests')
    BY <1>0, <1>1, <2>2
  <2>4. \A p \in Pods, c \in Commands : at'[p][c] # "away" => at[p][c] # "away"
    BY <1>1
  <2> QED
    BY <1>0, <1>1, <2>3, <2>4, RequestStep
\* Nothing is published.
<1>2. ASSUME UNCHANGED <<requests, outbox>>,
             \A p \in Pods : offset[p] <= offset'[p] /\ offset'[p] <= Len(requests),
             \A p \in Pods, c \in Commands : at'[p][c] # "away" => at[p][c] # "away" \/ Taken(p, c)'
      PROVE  RequestInv'
  BY <1>0, <1>2, RequestStep
<1>3. ASSUME UNCHANGED <<requests, outbox, offset, at>> PROVE RequestInv'
  BY <1>0, <1>1, <1>3
<1>4. ASSUME NEW c \in Commands, Create(c) PROVE RequestInv'
  <2>1. /\ status[c] = "NEW" /\ status' = [status EXCEPT ![c] = "QUEUED"]
        /\ outbox' = outbox \cup {c} /\ UNCHANGED <<offset, at, requests>>
    BY <1>4, CommandsAssumption DEF Create, gateway, queue
  <2>2. c \notin Known /\ c \in Known'
    BY <2>1 DEF Known, TypeInv, TypeOK
  <2> QED
    BY <1>0, <1>1, <2>1, <2>2
<1>5. ASSUME NEW c \in Commands, Publish(c) \/ PublishFails(c) PROVE RequestInv'
  <2>1. /\ c \in outbox /\ outbox' = outbox \ {c} /\ UNCHANGED <<offset, at>>
        /\ requests' = requests \/ requests' = Append(requests, c)
    BY <1>5 DEF Publish, PublishFails, gateway, queue
  <2> QED
    BY <1>0, <1>1, <2>1
<1>6. ASSUME NEW p \in Pods, NEW c \in Commands, NEW stage, Handles(p, c, stage),
             UNCHANGED <<requests, outbox>>, Taken(p, c)',
             offset' = offset \/ (offset[p] < Len(requests) /\ offset' = [offset EXCEPT ![p] = @ + 1])
      PROVE  RequestInv'
  <2>1. \A q \in Pods, d \in Commands : at'[q][d] = at[q][d] \/ (q = p /\ d = c)
    <3>1. at' = [at EXCEPT ![p][c] = stage]
      BY <1>6 DEF Handles
    <3>2. ASSUME NEW q \in Pods, NEW d \in Commands, ~(q = p /\ d = c) PROVE at'[q][d] = at[q][d]
      <4>1. CASE q # p
        BY <1>0, <3>1, <4>1
      <4>2. CASE q = p /\ d # c
        BY <1>0, <3>1, <4>2
      <4> QED
        BY <3>2, <4>1, <4>2
    <3> QED
      BY ONLY <3>2
  <2>2. \A q \in Pods : offset[q] <= offset'[q] /\ offset'[q] <= Len(requests)
    <3>1. offset' = offset \/ (offset[p] < Len(requests) /\ offset' = [offset EXCEPT ![p] = @ + 1])
      BY <1>6
    <3> QED
      BY <1>0, <1>6, <3>1
  <2> QED
    BY <1>2, <1>6, <2>1, <2>2
<1>7. ASSUME NEW p \in Pods, Consume(p) PROVE RequestInv'
  <2>0. PICK c \in Commands : c = requests[offset[p] + 1]
    BY <1>7, Consumes
  <2>1. /\ offset[p] \in Nat /\ offset[p] + 1 \in DOMAIN requests /\ c \in Commands
        /\ offset' = [offset EXCEPT ![p] = @ + 1] /\ UNCHANGED <<requests, outbox>>
    BY <1>7, <2>0, Consumes DEF rows
  <2>2. PICK stage : Handles(p, c, stage)
    BY <1>7, <2>0, Consumes
  <2>3. offset'[p] = offset[p] + 1 /\ offset[p] < Len(requests)
    BY <1>0, <2>1
  <2>4. Taken(p, c)'
    <3>1. offset[p] + 1 \in 1 .. offset'[p] /\ requests'[offset[p] + 1] = requests[offset[p] + 1]
      BY <2>1, <2>3
    <3> QED
      BY <2>0, <3>1 DEF Taken
  <2> QED
    BY <1>6, <2>1, <2>2, <2>3, <2>4
<1>8. ASSUME NEW p \in Pods, NEW c \in Commands, Lookup(p, c) \/ FlushNext(p, c) PROVE RequestInv'
  <2>1. PICK stage : Handles(p, c, stage)
    BY <1>8, Continues
  <2>2. /\ at[p][c] # "away" /\ UNCHANGED <<requests, outbox, offset>>
    BY <1>8, Continues DEF rows
  <2>3. Taken(p, c)'
    BY <2>2 DEF RequestInv, Taken
  <2> QED
    BY <1>6, <2>1, <2>2, <2>3
<1>9. ASSUME NEW p \in Pods, Crash(p) PROVE RequestInv'
  <2>1. /\ UNCHANGED <<requests, outbox>>
        /\ \A q \in Pods, c \in Commands : at'[q][c] # "away" => at[q][c] # "away"
    BY <1>0, <1>9 DEF Crash, rows
  <2>2. offset' = [offset EXCEPT ![p] = Len(requests)]
    BY <1>9 DEF Crash
  <2>3. \A q \in Pods : offset[q] <= offset'[q] /\ offset'[q] <= Len(requests)
    BY <1>0, <2>2
  <2> QED
    BY <1>2, <2>1, <2>3
<1>10. ASSUME Sessions \/ Device \/ Consumer \/ expireStale \/ (\E c \in Commands : PassTtl(c))
       PROVE  UNCHANGED <<requests, outbox, offset, at>>
  BY <1>10 DEF Sessions, Release, Authenticate, Upsert, End, Device, Reply, Consumer, handleSent,
     handleRejected, handleDeviceAck, ApplyAck, expireStale, PassTtl, rows, gateway, queue
<1>11. CASE UNCHANGED vars
  BY <1>3, <1>11 DEF vars
<1>12. ASSUME NEW p \in Pods, flushHeld(p) PROVE RequestInv'
  <2>1. UNCHANGED <<requests, outbox, offset>> /\ \A q \in Pods \ {p} : at'[q] = at[q]
    BY <1>12, Flushes DEF rows
  <2>2. PICK old : \A c \in Commands :
          at'[p][c] \in IF c \in Send(p, old) THEN {"next", "flushing"} ELSE {at[p][c]}
    BY <1>12, Flushes
  <2>3. \A c \in Send(p, old) : at[p][c] = "settled"
    BY SendIsHeld DEF HeldOncePerKey
  <2>4. \A q \in Pods, c \in Commands : at'[q][c] # "away" => at[q][c] # "away"
    BY <2>1, <2>2, <2>3
  <2>5. \A q \in Pods : offset[q] <= offset'[q] /\ offset'[q] <= Len(requests)
    BY <1>0, <2>1
  <2> QED
    BY <1>2, <2>1, <2>4, <2>5
\* The pod forgets the last request only, and what it had become of it.
<1>13. ASSUME NEW p \in Pods, Rejoin(p) PROVE RequestInv'
  <2>0. PICK c \in Commands : c = requests[offset[p]] /\ at' = [at EXCEPT ![p][c] = "away"]
    BY <1>13 DEF Rejoin
  <2>1. /\ offset[p] \in Nat \ {0} /\ offset' = [offset EXCEPT ![p] = @ - 1]
        /\ UNCHANGED <<requests, outbox, status>>
    BY <1>0, <1>13 DEF Rejoin, rows
  <2>2. offset'[p] = offset[p] - 1 /\ \A q \in Pods \ {p} : offset'[q] = offset[q]
    BY <1>0, <2>1
  <2>3. ASSUME NEW q \in Pods, NEW d \in Commands, at'[q][d] # "away" PROVE Taken(q, d)'
    <3>1. Taken(q, d)
      <4>1. at[q][d] # "away"
        BY <1>0, <2>0, <2>3
      <4> QED
        BY <4>1 DEF RequestInv
    <3>2. PICK i \in 1 .. offset[q] : requests[i] = d
      BY <3>1 DEF Taken
    <3>3. i \in 1 .. offset'[q]
      <4>1. CASE q = p
        <5>1. d # c
          BY <1>0, <2>0, <2>3, <4>1
        <5> QED
          BY <2>0, <2>1, <2>2, <3>2, <4>1, <5>1
      <4>2. CASE q # p
        BY <2>2, <4>2
      <4> QED
        BY <4>1, <4>2
    <3> QED
      BY <2>1, <3>2, <3>3 DEF Taken
  <2>4. \A q \in Pods : offset'[q] <= Len(requests)
    BY <1>0, <2>1, <2>2
  <2>5. Known' = Known
    BY <2>1 DEF Known
  <2> QED
    BY <2>1, <2>3, <2>4, <2>5 DEF RequestInv
<1> QED
  BY <1>3, <1>4, <1>5, <1>7, <1>8, <1>9, <1>10, <1>11, <1>12, <1>13 DEF Next, Service, Gateway

\* What is held next is the command put there or was held at its place; keys are held once.
LEMMA PutOnce ==
  ASSUME NEW h \in Seq(Commands), NEW c \in Commands,
         \A i, j \in DOMAIN h : Profile[h[i]].key = Profile[h[j]].key => i = j
  PROVE  /\ \A a \in DOMAIN put(h, c) : put(h, c)[a] = c \/ \E i \in DOMAIN h : put(h, c)[a] = h[i]
         /\ \A a, b \in DOMAIN put(h, c) :
              Profile[put(h, c)[a]].key = Profile[put(h, c)[b]].key => a = b
<1> DEFINE k == put(h, c)
           S == place(h, c)
<1>1. /\ k \in Seq(Commands)
      /\ \/ S = {} /\ Len(k) = Len(h) + 1 /\ k[Len(h) + 1] = c /\ \A a \in DOMAIN h : k[a] = h[a]
         \/ S # {} /\ DOMAIN k = DOMAIN h
              /\ \A a \in DOMAIN h : k[a] = IF a \in S THEN c ELSE h[a]
  BY PutPlaces
<1>2. \A i \in DOMAIN h : i \in S <=> Profile[h[i]].key = Profile[c].key
  BY DEF place
<1> HIDE DEF k, S
<1>3. CASE S = {}
  <2>1. \A a \in DOMAIN k : a = Len(h) + 1 \/ a \in DOMAIN h
    BY <1>1, <1>3
  <2>2. \A a \in DOMAIN h : k[a] = h[a] /\ Profile[h[a]].key # Profile[c].key
    BY <1>1, <1>2, <1>3
  <2>3. k[Len(h) + 1] = c
    BY <1>1, <1>3
  <2>4. \A a, b \in DOMAIN k : Profile[k[a]].key = Profile[k[b]].key => a = b
    BY <2>1, <2>2, <2>3
  <2> QED
    BY <2>1, <2>2, <2>3, <2>4 DEF k
<1>4. CASE S # {}
  <2>1. DOMAIN k = DOMAIN h /\ \A a \in DOMAIN h : k[a] = IF a \in S THEN c ELSE h[a]
    BY <1>1, <1>4
  <2>2. \A a \in DOMAIN k : Profile[k[a]].key = Profile[h[a]].key
    BY <1>2, <2>1
  <2>3. \A a, b \in DOMAIN k : Profile[k[a]].key = Profile[k[b]].key => a = b
    BY <2>1, <2>2
  <2> QED
    BY <2>1, <2>3 DEF k
<1> QED
  BY <1>3, <1>4

LEMMA HandlesOnce ==
  ASSUME TypeInv, HeldOncePerKey, NEW p \in Pods, NEW c \in Commands, NEW stage,
         Handles(p, c, stage), at[p][c] # "settled"
  PROVE  HeldOncePerKey'
<1>1. /\ at \in [Pods -> [Commands -> Stages]] /\ held \in [Pods -> Seq(Commands)]
      /\ at' = [at EXCEPT ![p][c] = stage]
  BY DEF TypeInv, TypeOK, Handles
<1>2. \A q \in Pods : \A i \in DOMAIN held[q] :
        held[q][i] \in Commands /\ at[q][held[q][i]] = "settled" /\ at'[q][held[q][i]] = "settled"
  <2> SUFFICES ASSUME NEW q \in Pods, NEW i \in DOMAIN held[q]
               PROVE  /\ held[q][i] \in Commands /\ at[q][held[q][i]] = "settled"
                      /\ at'[q][held[q][i]] = "settled"
    OBVIOUS
  <2>1. held[q][i] \in Commands /\ at[q][held[q][i]] = "settled"
    BY <1>1 DEF HeldOncePerKey
  <2> QED
    BY <1>1, <2>1
<1>3. CASE UNCHANGED queue
  BY <1>2, <1>3 DEF HeldOncePerKey, queue
<1>4. CASE stage = "settled" /\ held' = [held EXCEPT ![p] = put(held[p], c)]
  <2> DEFINE k == put(held[p], c)
  <2>1. held[p] \in Seq(Commands) /\ at'[p][c] = "settled"
        /\ \A i, j \in DOMAIN held[p] : Profile[held[p][i]].key = Profile[held[p][j]].key => i = j
    BY <1>1, <1>4 DEF HeldOncePerKey
  <2>2. /\ \A a \in DOMAIN k : k[a] = c \/ \E i \in DOMAIN held[p] : k[a] = held[p][i]
        /\ \A a, b \in DOMAIN k : Profile[k[a]].key = Profile[k[b]].key => a = b
    BY <2>1, PutOnce
  <2> HIDE DEF k
  <2>3. held'[p] = k /\ \A q \in Pods \ {p} : held'[q] = held[q]
    BY <1>1, <1>4 DEF k
  <2>4. \A a, b \in DOMAIN held'[p] :
          /\ Profile[held'[p][a]].key = Profile[held'[p][b]].key => a = b
          /\ at'[p][held'[p][a]] = "settled"
    BY ONLY <1>2, <2>1, <2>2, <2>3, p \in Pods
  <2>5. \A q \in Pods \ {p} : \A i, j \in DOMAIN held'[q] :
          /\ Profile[held'[q][i]].key = Profile[held'[q][j]].key => i = j
          /\ at'[q][held'[q][i]] = "settled"
    BY <1>2, <2>3 DEF HeldOncePerKey
  <2> QED
    BY <2>4, <2>5 DEF HeldOncePerKey
<1> QED
  BY <1>3, <1>4 DEF Handles

\* A pod has not seen the request it consumes.
LEMMA ConsumesNew ==
  ASSUME TypeInv, RequestInv, NEW p \in Pods, Consume(p)
  PROVE  at[p][requests[offset[p] + 1]] = "away"
<1> DEFINE c == requests[offset[p] + 1]
<1>1. offset[p] \in Nat /\ offset[p] + 1 \in DOMAIN requests /\ c \in Commands
  BY Consumes
<1>2. ~Taken(p, c)
  <2>1. ASSUME NEW i \in 1 .. offset[p], requests[i] = c PROVE FALSE
    <3>1. i \in DOMAIN requests /\ i # offset[p] + 1
      BY <1>1, <2>1 DEF TypeInv, TypeOK
    <3> QED
      BY <1>1, <2>1, <3>1 DEF RequestInv
  <2> QED
    BY <2>1 DEF Taken
<1> QED
  BY <1>1, <1>2 DEF RequestInv

LEMMA HeldStep == TypeInv /\ RequestInv /\ HeldOncePerKey /\ [Next]_vars => HeldOncePerKey'
<1> SUFFICES ASSUME TypeInv, RequestInv, HeldOncePerKey, [Next]_vars PROVE HeldOncePerKey'
  OBVIOUS
<1>1. ASSUME UNCHANGED <<at, held>> PROVE HeldOncePerKey'
  BY <1>1 DEF HeldOncePerKey
\* A pod that holds nothing any more.
<1>2. ASSUME NEW p \in Pods, held' = [held EXCEPT ![p] = <<>>],
             \A q \in Pods \ {p} : at'[q] = at[q]
      PROVE  HeldOncePerKey'
  <2>1. held'[p] = <<>> /\ \A q \in Pods \ {p} : held'[q] = held[q]
    BY <1>2 DEF TypeInv, TypeOK
  <2>2. DOMAIN held'[p] = {}
    BY <2>1
  <2> QED
    BY <1>2, <2>1, <2>2 DEF HeldOncePerKey
<1>3. ASSUME NEW p \in Pods, Consume(p) PROVE HeldOncePerKey'
  <2>1. PICK c \in Commands : c = requests[offset[p] + 1] /\ \E stage : Handles(p, c, stage)
    BY <1>3, Consumes
  <2>2. at[p][c] = "away"
    BY <1>3, <2>1, ConsumesNew
  <2> QED
    BY <2>1, <2>2, HandlesOnce
<1>4. ASSUME NEW p \in Pods, NEW c \in Commands, Lookup(p, c) \/ FlushNext(p, c)
      PROVE  HeldOncePerKey'
  BY <1>4, Continues, HandlesOnce
<1>5. ASSUME NEW p \in Pods, flushHeld(p) PROVE HeldOncePerKey'
  BY <1>2, <1>5, Flushes
<1>6. ASSUME NEW p \in Pods, Crash(p) PROVE HeldOncePerKey'
  <2>1. \A q \in Pods \ {p} : at'[q] = at[q]
    BY <1>6 DEF Crash, TypeInv, TypeOK
  <2> QED
    BY <1>2, <1>6, <2>1 DEF Crash
<1>7. ASSUME Sessions \/ Device \/ Consumer \/ Service PROVE UNCHANGED <<at, held>>
  BY <1>7 DEF Sessions, Release, Authenticate, Upsert, End, Device, Reply, Consumer, handleSent,
     handleRejected, handleDeviceAck, ApplyAck, Service, Create, Publish, PublishFails, PassTtl,
     expireStale, rows, gateway, queue
<1>8. CASE UNCHANGED vars
  BY <1>1, <1>8 DEF vars, queue
<1>9. ASSUME NEW p \in Pods, Rejoin(p) PROVE HeldOncePerKey'
  <2>1. PICK c \in Commands : ~Holds(p, c) /\ at' = [at EXCEPT ![p][c] = "away"]
    BY <1>9 DEF Rejoin
  <2>2. held' = held /\ at \in [Pods -> [Commands -> Stages]] /\ held \in [Pods -> Seq(Commands)]
    BY <1>9 DEF Rejoin, TypeInv, TypeOK, queue
  <2>3. \A q \in Pods : \A i \in DOMAIN held[q] : at'[q][held[q][i]] = at[q][held[q][i]]
    BY <2>1, <2>2 DEF Holds
  <2> QED
    BY <2>2, <2>3 DEF HeldOncePerKey
<1> QED
  BY <1>1, <1>3, <1>4, <1>5, <1>6, <1>7, <1>8, <1>9 DEF Next, Gateway

HeldInv == TypeInv /\ RequestInv /\ HeldOncePerKey

LEMMA HeldInvHolds == Spec => []HeldInv
<1>1. Init => RequestInv /\ HeldOncePerKey
  BY DEF Init, RequestInv, HeldOncePerKey, Known
<1>2. HeldInv /\ [Next]_vars => HeldInv'
  BY TypeStep, RequestInvStep, HeldStep DEF HeldInv
<1>3. Init => HeldInv
  BY <1>1, TypeInit DEF HeldInv
<1> QED
  BY <1>2, <1>3, PTL DEF Spec

\* Whatever is pressed twice, flushed, overtaken or crashed: a pod holds at most one command
\* per hold key, and none that it is about to send.
THEOREM HeldOnce == Spec => []HeldOncePerKey
<1>1. HeldInv => HeldOncePerKey
  BY DEF HeldInv
<1> QED
  BY <1>1, HeldInvHolds, PTL

-----------------------------------------------------------------------------
(* A pod writes a frame once *)

\* The pods that are done with a command are at least as many as the times it was written.
Done(c) == IsFiniteSet(DoneWith(c)) /\ written[c] <= Cardinality(DoneWith(c))
DoneInv == \A c \in Commands : Done(c)

\* Pods only join those that are done with a command, and one that writes it does.
LEMMA DoneGrows ==
  ASSUME NEW c \in Commands, NEW p, Done(c), written[c] \in Nat,
         DoneWith(c) \subseteq DoneWith(c)', DoneWith(c)' \subseteq DoneWith(c) \cup {p},
         \/ written'[c] = written[c]
         \/ written'[c] = written[c] + 1 /\ p \notin DoneWith(c) /\ p \in DoneWith(c)'
  PROVE  Done(c)'
<1>1. PICK D, E : D = DoneWith(c) /\ E = DoneWith(c)'
  OBVIOUS
<1>2. PICK n, m : n = written[c] /\ m = written'[c]
  OBVIOUS
<1>3. IsFiniteSet(D) /\ n <= Cardinality(D) /\ n \in Nat
  BY <1>1, <1>2 DEF Done
<1>4. E = D \/ E = D \cup {p}
  BY ONLY <1>1, DoneWith(c) \subseteq DoneWith(c)', DoneWith(c)' \subseteq DoneWith(c) \cup {p}
<1>5. m = n \/ (m = n + 1 /\ p \notin D /\ p \in E)
  BY <1>1, <1>2
<1>6. /\ IsFiniteSet(D \cup {p}) /\ Cardinality(D) \in Nat
      /\ Cardinality(D \cup {p}) = IF p \in D THEN Cardinality(D) ELSE Cardinality(D) + 1
  BY ONLY <1>3, FS_AddElement, FS_CardinalityType
<1>7. IsFiniteSet(E) /\ m <= Cardinality(E)
  <2>1. CASE E = D
    BY ONLY <1>3, <1>5, <2>1
  <2>2. CASE E = D \cup {p} /\ p \in D
    BY ONLY <1>3, <1>5, <1>6, <2>2
  <2>3. CASE E = D \cup {p} /\ p \notin D
    BY ONLY <1>3, <1>5, <1>6, <2>3
  <2> QED
    BY ONLY <1>4, <2>1, <2>2, <2>3
<1> QED
  BY <1>1, <1>2, <1>7 DEF Done

\* What p does with what it holds concerns p.
LEMMA DoneElsewhere ==
  ASSUME NEW c \in Commands, NEW p \in Pods,
         \A q \in Pods \ {p} : at'[q] = at[q] /\ held'[q] = held[q],
         p \in DoneWith(c) => p \in DoneWith(c)'
  PROVE  DoneWith(c) \subseteq DoneWith(c)' /\ DoneWith(c)' \subseteq DoneWith(c) \cup {p}
<1>1. \A q \in Pods \ {p} : q \in DoneWith(c) <=> q \in DoneWith(c)'
  BY DEF DoneWith, Holds
<1>2. DoneWith(c) \subseteq Pods /\ DoneWith(c)' \subseteq Pods
  BY DEF DoneWith
<1> QED
  BY ONLY <1>1, <1>2, p \in DoneWith(c) => p \in DoneWith(c)'

\* The commands held next are c and ones that are held.
LEMMA HoldsAfter ==
  ASSUME TypeInv, HeldOncePerKey, NEW p \in Pods, NEW c \in Commands,
         held' = [held EXCEPT ![p] = put(held[p], c)],
         NEW d \in Commands, Holds(p, d)'
  PROVE  d = c \/ Holds(p, d)
<1> DEFINE k == put(held[p], c)
<1>1. /\ held \in [Pods -> Seq(Commands)] /\ held[p] \in Seq(Commands)
      /\ \A i, j \in DOMAIN held[p] : Profile[held[p][i]].key = Profile[held[p][j]].key => i = j
  BY DEF TypeInv, TypeOK, HeldOncePerKey
<1>2. \A a \in DOMAIN k : k[a] = c \/ \E i \in DOMAIN held[p] : k[a] = held[p][i]
  BY <1>1, PutOnce
<1> HIDE DEF k
<1>3. held'[p] = k
  BY <1>1 DEF k
<1>4. PICK a \in DOMAIN held'[p] : held'[p][a] = d
  BY DEF Holds
<1> QED
  BY <1>2, <1>3, <1>4 DEF Holds

LEMMA HandlesDone ==
  ASSUME TypeInv, HeldOncePerKey, NEW p \in Pods, NEW c \in Commands, NEW stage,
         Handles(p, c, stage), at[p][c] # "settled", NEW d \in Commands, Done(d)
  PROVE  Done(d)'
<1>1. /\ at \in [Pods -> [Commands -> Stages]] /\ held \in [Pods -> Seq(Commands)]
      /\ at' = [at EXCEPT ![p][c] = stage] /\ written \in [Commands -> Nat]
  BY DEF TypeInv, TypeOK, Handles
<1>2. \A q \in Pods \ {p} : at'[q] = at[q] /\ held'[q] = held[q]
  BY <1>1 DEF Handles, queue
<1>3. p \notin DoneWith(c) /\ ~Holds(p, c)
  BY DEF DoneWith, HeldOncePerKey, Holds
<1>4. Holds(p, d)' => d = c \/ Holds(p, d)
  <2>1. CASE held' = held
    BY <2>1 DEF Holds
  <2> QED
    BY <2>1, HoldsAfter DEF Handles, queue
<1>5. CASE d # c
  <2>1. at'[p][d] = at[p][d] /\ written'[d] = written[d]
    BY <1>1, <1>5 DEF Handles
  <2>2. p \in DoneWith(d) => p \in DoneWith(d)'
    BY <1>4, <1>5, <2>1 DEF DoneWith
  <2> QED
    BY <1>1, <1>2, <2>1, <2>2, DoneElsewhere, DoneGrows
<1>6. CASE d = c
  <2>1. \/ written'[c] = written[c]
        \/ written'[c] = written[c] + 1 /\ held' = held /\ stage = "settled"
    BY <1>1 DEF Handles, queue
  <2>2. at'[p][c] = stage
    BY <1>1
  <2>3. written'[c] = written[c] \/ (written'[c] = written[c] + 1 /\ p \in DoneWith(c)')
    BY <1>3, <2>1, <2>2 DEF DoneWith, Holds
  <2> QED
    BY <1>1, <1>2, <1>3, <1>6, <2>3, DoneElsewhere, DoneGrows
<1> QED
  BY <1>5, <1>6

LEMMA DoneStep ==
  ASSUME "redeliver" \notin Faults, HeldInv, [Next]_vars, NEW d \in Commands, Done(d)
  PROVE  Done(d)'
<1>0. /\ TypeInv /\ RequestInv /\ HeldOncePerKey
      /\ at \in [Pods -> [Commands -> Stages]] /\ held \in [Pods -> Seq(Commands)]
      /\ written[d] \in Nat
  BY DEF HeldInv, TypeInv, TypeOK
<1>1. ASSUME UNCHANGED <<at, held, written>> PROVE Done(d)'
  BY <1>1 DEF Done, DoneWith, Holds
\* A pod lets go of what it holds.
<1>2. ASSUME NEW p \in Pods, held' = [held EXCEPT ![p] = <<>>], UNCHANGED written,
             \A q \in Pods \ {p} : at'[q] = at[q],
             at[p][d] = "settled" /\ ~Holds(p, d) => at'[p][d] = "settled"
      PROVE  Done(d)'
  <2>1. held'[p] = <<>> /\ \A q \in Pods \ {p} : held'[q] = held[q]
    BY <1>0, <1>2
  <2>2. ~Holds(p, d)'
    BY <2>1 DEF Holds
  <2>3. p \in DoneWith(d) => p \in DoneWith(d)'
    BY <1>2, <2>2 DEF DoneWith
  <2> QED
    BY <1>0, <1>2, <2>1, <2>3, DoneElsewhere, DoneGrows
<1>3. ASSUME NEW p \in Pods, Consume(p) PROVE Done(d)'
  <2>1. PICK c \in Commands : c = requests[offset[p] + 1] /\ \E stage : Handles(p, c, stage)
    BY <1>0, <1>3, Consumes
  <2>2. at[p][c] = "away"
    BY <1>0, <1>3, <2>1, ConsumesNew
  <2> QED
    BY <1>0, <2>1, <2>2, HandlesDone
<1>4. ASSUME NEW p \in Pods, NEW c \in Commands, Lookup(p, c) \/ FlushNext(p, c) PROVE Done(d)'
  BY <1>0, <1>4, Continues, HandlesDone
<1>5. ASSUME NEW p \in Pods, flushHeld(p) PROVE Done(d)'
  <2>1. /\ held' = [held EXCEPT ![p] = <<>>] /\ UNCHANGED written
        /\ \A q \in Pods \ {p} : at'[q] = at[q]
    BY <1>0, <1>5, Flushes DEF device
  <2>2. PICK old : \A c \in Commands :
          at'[p][c] \in IF c \in Send(p, old) THEN {"next", "flushing"} ELSE {at[p][c]}
    BY <1>0, <1>5, Flushes
  <2>3. d \in Send(p, old) => Holds(p, d)
    BY SendIsHeld DEF Holds
  <2> QED
    BY <1>2, <2>1, <2>2, <2>3
<1>6. ASSUME NEW p \in Pods, Crash(p) PROVE Done(d)'
  <2>1. /\ held' = [held EXCEPT ![p] = <<>>] /\ UNCHANGED written
        /\ \A q \in Pods \ {p} : at'[q] = at[q]
        /\ at[p][d] = "settled" => at'[p][d] = "settled"
    BY <1>0, <1>6 DEF Crash, device
  <2> QED
    BY <1>2, <2>1
<1>7. ASSUME Sessions \/ Device \/ Consumer \/ Service PROVE UNCHANGED <<at, held, written>>
  BY <1>7 DEF Sessions, Release, Authenticate, Upsert, End, Device, Reply, Consumer, handleSent,
     handleRejected, handleDeviceAck, ApplyAck, Service, Create, Publish, PublishFails, PassTtl,
     expireStale, rows, gateway, queue, device
<1>8. CASE UNCHANGED vars
  BY <1>1, <1>8 DEF vars, queue
<1>9. \A p \in Pods : ~Rejoin(p)
  BY DEF Rejoin
<1> QED
  BY <1>1, <1>3, <1>4, <1>5, <1>6, <1>7, <1>8, <1>9 DEF Next, Gateway

\* However often a request is held, superseded, flushed or crashed away, a pod writes its
\* frame once at most, and not while it holds it, as long as Kafka does not redeliver it.
THEOREM PodsWriteOnce == "redeliver" \notin Faults => (Spec => []WrittenOncePerPod)
<1> SUFFICES ASSUME "redeliver" \notin Faults PROVE Spec => []WrittenOncePerPod
  OBVIOUS
<1>1. Init => DoneInv
  <2> SUFFICES ASSUME Init, NEW c \in Commands PROVE Done(c)
    BY DEF DoneInv
  <2>1. DoneWith(c) = {} /\ written[c] = 0
    BY DEF Init, DoneWith
  <2> QED
    BY <2>1, FS_EmptySet DEF Done
<1>2. HeldInv /\ DoneInv /\ [Next]_vars => DoneInv'
  BY DoneStep DEF DoneInv
<1>3. DoneInv => WrittenOncePerPod
  BY DEF DoneInv, Done, WrittenOncePerPod
<1> QED
  BY <1>1, <1>2, <1>3, HeldInvHolds, PTL DEF Spec

-----------------------------------------------------------------------------
(* A flush sends the latest control of a camera *)

Control(c) == Profile[c].intent # "other"

\* What partitionHeld sends of a camera's controls is the last in time; what it drops was
\* held no later than another of its camera.
LEMMA SendsLatest ==
  ASSUME NEW h \in Seq(Commands), NEW when \in [Commands -> Nat], NEW live, live \subseteq DOMAIN h,
         NEW i \in DOMAIN h, \A j, k \in DOMAIN h : Profile[h[j]].key = Profile[h[k]].key => j = k
  PROVE  /\ h[i] \in partitionHeld(when, h, live) /\ Control(h[i]) =>
              \A j \in group(h, live, i) : ~(when[h[j]] > when[h[i]])
         /\ i \in live /\ h[i] \notin partitionHeld(when, h, live) =>
              /\ Control(h[i])
              /\ \E j \in group(h, live, i) : j # i /\ when[h[j]] >= when[h[i]]
<1> DEFINE last(k) == Control(h[k]) => \A j \in group(h, live, k) : ~after(when, h, k, j)
<1>1. partitionHeld(when, h, live) = {h[k] : k \in {j \in live : last(j)}}
  BY DEF partitionHeld, Control
<1>2. ASSUME h[i] \in partitionHeld(when, h, live), Control(h[i]), NEW j \in group(h, live, i)
      PROVE  ~(when[h[j]] > when[h[i]])
  <2>1. PICK k \in live : h[k] = h[i] /\ last(k)
    BY <1>1, <1>2
  <2>2. k = i
    BY <2>1
  <2>3. ~after(when, h, i, j)
    BY <1>2, <2>1, <2>2
  <2> QED
    BY <2>3 DEF after
<1>3. ASSUME i \in live, h[i] \notin partitionHeld(when, h, live)
      PROVE  Control(h[i]) /\ \E j \in group(h, live, i) : j # i /\ when[h[j]] >= when[h[i]]
  <2>1. ~last(i)
    BY <1>1, <1>3
  <2>2. PICK j \in group(h, live, i) : after(when, h, i, j)
    BY <2>1
  <2>3. j \in live /\ j \in DOMAIN h /\ h[i] \in Commands /\ h[j] \in Commands /\ i \in Nat
    BY <1>3 DEF group
  <2>4. when[h[j]] \in Nat /\ when[h[i]] \in Nat
    BY <2>3
  <2>5. j # i /\ when[h[j]] >= when[h[i]]
    BY <2>2, <2>3, <2>4 DEF after
  <2> QED
    BY <2>1, <2>2, <2>5
<1> QED
  BY <1>2, <1>3

\* What FlushSendsLatestIntent says of one held command.
FlushedWell(p, i) ==
    LET c == held[p][i]
        others == group(held[p], DOMAIN held[p], i) \ {i}
        when(j) == heldAt[p][held[p][j]]
    IN  /\ at'[p][c] # "settled" /\ Profile[c].intent # "other" =>
               \A j \in others : when(j) > when(i) => held[p][j] \in due
        /\ at'[p][c] = "settled" /\ c \notin due =>
               /\ Profile[c].intent # "other"
               /\ \E j \in others : when(j) >= when(i)

LEMMA FlushOfOne ==
  ASSUME HeldInv, NEW p \in Pods, flushHeld(p), NEW i \in DOMAIN held[p]
  PROVE  FlushedWell(p, i)
<1> DEFINE h == held[p]
           c == held[p][i]
           when == heldAt[p]
<1>1. /\ h \in Seq(Commands) /\ c \in Commands /\ when \in [Commands -> Nat]
      /\ \A j, k \in DOMAIN h : Profile[h[j]].key = Profile[h[k]].key => j = k
      /\ at[p][c] = "settled"
  BY DEF HeldInv, TypeInv, TypeOK, HeldOncePerKey
<1>2. PICK old \in SUBSET due : \A d \in Commands :
        at'[p][d] \in IF d \in Send(p, old) THEN {"next", "flushing"} ELSE {at[p][d]}
  BY Flushes DEF HeldInv
<1>3. at'[p][c] # "settled" <=> c \in Send(p, old)
  BY <1>1, <1>2
<1>4. /\ Live(p, old) \subseteq DOMAIN h
      /\ \A j \in DOMAIN h : h[j] \notin due => j \in Live(p, old)
  BY DEF Live
<1>5. /\ c \in Send(p, old) /\ Control(c) =>
           \A j \in group(h, Live(p, old), i) : ~(when[h[j]] > when[c])
      /\ i \in Live(p, old) /\ c \notin Send(p, old) =>
           /\ Control(c)
           /\ \E j \in group(h, Live(p, old), i) : j # i /\ when[h[j]] >= when[c]
  BY <1>1, <1>4, SendsLatest DEF Send
<1>6. /\ group(h, Live(p, old), i) \subseteq group(h, DOMAIN h, i)
      /\ \A j \in group(h, DOMAIN h, i) : h[j] \in due \/ j \in group(h, Live(p, old), i)
  BY <1>4 DEF group
<1>7. ASSUME at'[p][c] # "settled", Control(c), NEW j \in group(h, DOMAIN h, i), when[h[j]] > when[c]
      PROVE  h[j] \in due
  BY <1>3, <1>5, <1>6, <1>7
<1>8. ASSUME at'[p][c] = "settled", c \notin due
      PROVE  Control(c) /\ \E j \in group(h, DOMAIN h, i) \ {i} : when[h[j]] >= when[c]
  BY <1>3, <1>4, <1>5, <1>6, <1>8
<1> QED
  BY <1>7, <1>8 DEF FlushedWell, Control

\* A flush sends no live control of a camera that was held before another one, and drops
\* none but for another that was held no earlier; whatever else was held goes out or is
\* past its TTL.  Between controls held within one millisecond their places decide.
THEOREM FlushSendsLatest == Spec => FlushSendsLatestIntent
<1>1. HeldInv /\ [Next]_vars =>
        [\A p \in Pods : flushHeld(p) => \A i \in DOMAIN held[p] : FlushedWell(p, i)]_vars
  BY FlushOfOne
<1>2. HeldInv /\ [Next]_vars =>
      [\A p \in Pods : flushHeld(p) =>
          \A i \in DOMAIN held[p] :
              LET c == held[p][i]
                  others == group(held[p], DOMAIN held[p], i) \ {i}
                  when(j) == heldAt[p][held[p][j]]
              IN  /\ at'[p][c] # "settled" /\ Profile[c].intent # "other" =>
                         \A j \in others : when(j) > when(i) => held[p][j] \in due
                  /\ at'[p][c] = "settled" /\ c \notin due =>
                         /\ Profile[c].intent # "other"
                         /\ \E j \in others : when(j) >= when(i)]_vars
  BY <1>1 DEF FlushedWell
<1> QED
  BY <1>2, HeldInvHolds, PTL DEF Spec, FlushSendsLatestIntent

-----------------------------------------------------------------------------
(* Answers count once *)

Acks(code) == {m \in topic : m.kind = "ACK" /\ Profile[m.cmd].code = code}
Matched(code) == IF match # None /\ Profile[match.row].code = code THEN 1 ELSE 0

\* An answer is under way, or matched with a row, or has settled one, or is lost.
Counted(code) ==
    /\ IsFiniteSet(Answered(code)) /\ IsFiniteSet(Acks(code)) /\ IsFiniteSet(AnswersOf(code))
    /\ Cardinality(Answered(code)) + Cardinality(Acks(code)) + Matched(code)
          <= Cardinality(AnswersOf(code))
AnswerInv == \A c \in Commands : Counted(Profile[c].code)

\* The balance of a code where nothing is added to what its answers have become.
LEMMA CountedKept ==
  ASSUME NEW code, Counted(code), Answered(code)' = Answered(code),
         Acks(code)' \subseteq Acks(code), Matched(code)' = Matched(code),
         AnswersOf(code)' = AnswersOf(code)
  PROVE  Counted(code)'
<1> DEFINE A == Acks(code)
<1>1. IsFiniteSet(A)
  BY DEF Counted
<1>2. PICK B : B = Acks(code)'
  OBVIOUS
<1>3. B \in SUBSET A
  BY ONLY <1>2, Acks(code)' \subseteq Acks(code)
<1> HIDE DEF A
<1>4. IsFiniteSet(B) /\ Cardinality(B) <= Cardinality(A)
  BY ONLY <1>1, <1>3, FS_Subset
<1>5. Cardinality(A) \in Nat /\ Cardinality(B) \in Nat
  BY ONLY <1>1, <1>4, FS_CardinalityType
<1>6. PICK x, y, z : x = Cardinality(Answered(code)) /\ y = Matched(code) /\ z = Cardinality(AnswersOf(code))
  OBVIOUS
<1>7. x \in Nat /\ z \in Nat /\ y \in {0, 1} /\ x + Cardinality(A) + y <= z
  BY <1>6, FS_CardinalityType DEF Counted, Matched, A
<1>8. x + Cardinality(B) + y <= z
  BY ONLY <1>4, <1>5, <1>7
<1> QED
  BY <1>2, <1>4, <1>6, <1>8 DEF Counted

\* A guarded UPDATE adds the row at most, and only with what the device answered.
LEMMA MarkAnswers ==
  ASSUME OutcomeOK, NEW c, NEW to, NEW err, mark(c, to, err), NEW code
  PROVE  /\ Answered(code) \subseteq Answered(code)'
         /\ Answered(code)' \subseteq Answered(code) \cup {c}
         /\ ((to # "ACKED" /\ err # "DEVICE_ERROR") \/ (c \in Commands => Profile[c].code # code)) =>
              Answered(code)' = Answered(code)
<1>1. ASSUME NEW d \in Commands, d # c PROVE status'[d] = status[d] /\ error'[d] = error[d]
  BY <1>1 DEF mark, OutcomeOK
<1>2. ASSUME c \in Commands, status[c] \notin Pending
      PROVE  status'[c] = status[c] /\ error'[c] = error[c]
  BY <1>2 DEF mark
<1>3. ASSUME c \in Commands, status[c] \in Pending
      PROVE  status'[c] = to /\ error'[c] = err
  BY <1>3 DEF mark, OutcomeOK
<1>4. c \in Answered(code) => c \in Commands /\ status[c] \notin Pending
  BY DEF Answered, Pending
<1>5. \A d : d # c => (d \in Answered(code)' <=> d \in Answered(code))
  BY <1>1, Zenon DEF Answered
<1>6. c \in Answered(code) => c \in Answered(code)'
  BY <1>2, <1>4, Zenon DEF Answered
<1>7. ASSUME c \in Answered(code)', c \notin Answered(code)
      PROVE  c \in Commands /\ Profile[c].code = code /\ (to = "ACKED" \/ err = "DEVICE_ERROR")
  BY <1>2, <1>3, <1>7 DEF Answered
<1> QED
  BY ONLY <1>5, <1>6, <1>7

\* The other changes of a row leave the answered ones alone.
LEMMA RowAnswers ==
  ASSUME OutcomeOK, NEW code,
         \A d \in Commands : \/ status'[d] = status[d] /\ error'[d] = error[d]
                             \/ /\ status[d] \in Pending \cup {"NEW"}
                                /\ status'[d] \in {"QUEUED", "EXPIRED"}
  PROVE  Answered(code)' = Answered(code)
  BY DEF Answered, Pending

\* Feedback of a gateway is no answer.
LEMMA FeedbackAcks ==
  ASSUME NEW code, \A m \in topic' : m \in topic \/ m.kind # "ACK"
  PROVE  Acks(code)' \subseteq Acks(code)
  BY DEF Acks

\* A command is answered once more: one event is added, and one answer.
LEMMA ReplyCounts ==
  ASSUME TypeInv, NEW c \in Commands, NEW body \in Bodies, Reply(c, body),
         NEW code, Counted(code)
  PROVE  Counted(code)'
<1> DEFINE m == [kind |-> "ACK", cmd |-> c, body |-> body]
           pair == <<c, replies[c] + 1>>
<1>1. /\ replies \in [Commands -> Nat] /\ replies' = [replies EXCEPT ![c] = @ + 1]
      /\ m \notin topic /\ topic' = topic \cup {m}
      /\ UNCHANGED <<status, error, match>>
  BY DEF Reply, TypeInv, TypeOK, rows
<1>2. Answered(code)' = Answered(code) /\ Matched(code)' = Matched(code)
  BY <1>1 DEF Answered, Matched
<1>3. CASE Profile[c].code # code
  <2>1. Acks(code)' = Acks(code)
    BY <1>1, <1>3 DEF Acks
  <2>2. AnswersOf(code)' = AnswersOf(code)
    <3>1. \A d \in Commands : Profile[d].code = code => replies'[d] = replies[d]
      BY <1>1, <1>3
    <3> QED
      BY <3>1 DEF AnswersOf
  <2> QED
    BY <1>2, <2>1, <2>2, CountedKept
<1>4. CASE Profile[c].code = code
  <2>1. Acks(code)' = Acks(code) \cup {m} /\ m \notin Acks(code)
    BY <1>1, <1>4 DEF Acks
  <2>2. AnswersOf(code)' = AnswersOf(code) \cup {pair} /\ pair \notin AnswersOf(code)
    <3> DEFINE Of(d) == {d} \X (1 .. replies[d])
               Commands0 == {d \in Commands : Profile[d].code = code}
    <3>1. AnswersOf(code) = UNION {Of(d) : d \in Commands0}
      BY DEF AnswersOf
    <3>2. AnswersOf(code)' = UNION {{d} \X (1 .. replies'[d]) : d \in Commands0}
      BY DEF AnswersOf
    <3>3. \A x : x \in AnswersOf(code) <=> \E d \in Commands0 : \E k \in 1 .. replies[d] : x = <<d, k>>
      BY <3>1
    <3>4. \A x : x \in AnswersOf(code)' <=> \E d \in Commands0 : \E k \in 1 .. replies'[d] : x = <<d, k>>
      BY <3>2
    <3>5. /\ \A d \in Commands0 : d # c => replies'[d] = replies[d]
          /\ 1 .. replies'[c] = (1 .. replies[c]) \cup {replies[c] + 1}
          /\ replies[c] + 1 \notin 1 .. replies[c] /\ c \in Commands0
      BY <1>1, <1>4
    <3> HIDE DEF Commands0, Of
    <3>6. pair \notin AnswersOf(code)
      BY ONLY <3>3, <3>5
    <3>7. \A x : x \in AnswersOf(code)' <=> x \in AnswersOf(code) \/ x = pair
      BY ONLY <3>3, <3>4, <3>5
    <3> QED
      BY ONLY <3>6, <3>7
  <2> HIDE DEF m, pair
  <2>3. PICK A, B, C, n : /\ A = Acks(code) /\ B = AnswersOf(code) /\ C = Answered(code)
                          /\ n = Matched(code)
    OBVIOUS
  <2>4. /\ IsFiniteSet(A) /\ IsFiniteSet(B) /\ IsFiniteSet(C) /\ n \in {0, 1}
        /\ Cardinality(C) + Cardinality(A) + n <= Cardinality(B)
    BY <2>3 DEF Counted, Matched
  <2>5. /\ IsFiniteSet(A \cup {m}) /\ Cardinality(A \cup {m}) = Cardinality(A) + 1
        /\ IsFiniteSet(B \cup {pair}) /\ Cardinality(B \cup {pair}) = Cardinality(B) + 1
    BY ONLY <2>1, <2>2, <2>3, <2>4, FS_AddElement
  <2>6. Cardinality(A) \in Nat /\ Cardinality(B) \in Nat /\ Cardinality(C) \in Nat
    BY ONLY <2>4, FS_CardinalityType
  <2>7. Cardinality(C) + Cardinality(A \cup {m}) + n <= Cardinality(B \cup {pair})
    BY ONLY <2>4, <2>5, <2>6
  <2> QED
    BY <1>2, <2>1, <2>2, <2>3, <2>4, <2>5, <2>7, Zenon DEF Counted
<1> QED
  BY <1>3, <1>4

\* An answer leaves the topic, to be matched with a row of its code or to be lost.
LEMMA MatchCounts ==
  ASSUME TypeInv, "redeliver" \notin Faults, NEW m \in topic, handleDeviceAck(m),
         NEW code, Counted(code)
  PROVE  Counted(code)'
<1> DEFINE own == Profile[m.cmd].code
<1>1. /\ match = None /\ m.kind = "ACK" /\ topic' = topic \ {m}
      /\ UNCHANGED <<status, error, replies>>
  BY DEF handleDeviceAck, consumed, rows, device
<1>2. match' = None \/ Profile[match'.row].code = own
  <2> DEFINE S == pendingRows(own)
  <2>1. match' = IF S = {} \/ keepPending(m) THEN None ELSE [row |-> Newest(S), body |-> m.body]
    BY Zenon DEF handleDeviceAck
  <2>2. S # {} => Profile[Newest(S)].code = own
    BY MatchesNewest DEF pendingRows
  <2> HIDE DEF S, own
  <2> QED
    BY ONLY <2>1, <2>2
<1>3. Answered(code)' = Answered(code) /\ AnswersOf(code)' = AnswersOf(code)
  BY <1>1 DEF Answered, AnswersOf
<1>4. Matched(code) = 0 /\ Matched(code)' \in {0, 1}
  BY <1>1 DEF Matched
<1>5. CASE own # code
  <2>1. Matched(code)' = Matched(code)
    BY <1>2, <1>4, <1>5 DEF Matched
  <2>2. Acks(code)' \subseteq Acks(code)
    BY <1>1 DEF Acks
  <2> QED
    BY <1>3, <2>1, <2>2, CountedKept
<1>6. CASE own = code
  <2>1. Acks(code)' = Acks(code) \ {m} /\ m \in Acks(code)
    BY <1>1, <1>6 DEF Acks
  <2>2. PICK A, B, C, n : /\ A = Acks(code) /\ B = AnswersOf(code) /\ C = Answered(code)
                          /\ n = Matched(code)'
    OBVIOUS
  <2>3. /\ IsFiniteSet(A) /\ IsFiniteSet(B) /\ IsFiniteSet(C) /\ n \in {0, 1}
        /\ Cardinality(C) + Cardinality(A) + 0 <= Cardinality(B)
    BY <1>4, <2>2 DEF Counted
  <2>4. IsFiniteSet(A \ {m}) /\ Cardinality(A \ {m}) = Cardinality(A) - 1
    BY ONLY <2>1, <2>2, <2>3, FS_RemoveElement
  <2>5. Cardinality(A) \in Nat /\ Cardinality(B) \in Nat /\ Cardinality(C) \in Nat
    BY ONLY <2>3, FS_CardinalityType
  <2>6. Cardinality(C) + Cardinality(A \ {m}) + n <= Cardinality(B)
    BY ONLY <2>3, <2>4, <2>5
  <2> QED
    BY <1>3, <2>1, <2>2, <2>3, <2>4, <2>6, Zenon DEF Counted
<1> QED
  BY <1>5, <1>6

\* The matched answer settles its row, or finds it settled.
LEMMA ApplyCounts ==
  ASSUME TypeInv, ApplyAck, NEW code, Counted(code)
  PROVE  Counted(code)'
<1> DEFINE c == match.row
<1>1. /\ match # None /\ match' = None /\ UNCHANGED <<topic, replies>>
      /\ \/ mark(c, "FAILED", "DEVICE_ERROR") \/ mark(c, "ACKED", "none")
         \/ UNCHANGED <<status, error>>
  BY DEF ApplyAck, device
<1>2. OutcomeOK
  BY Parts DEF TypeInv
<1>3. /\ Answered(code) \subseteq Answered(code)'
      /\ Answered(code)' \subseteq Answered(code) \cup {c}
      /\ Profile[c].code # code => Answered(code)' = Answered(code)
  <2>1. CASE UNCHANGED <<status, error>>
    BY <2>1 DEF Answered
  <2> HIDE DEF c
  <2> QED
    BY <1>1, <1>2, <2>1, MarkAnswers
<1>4. Acks(code)' = Acks(code) /\ AnswersOf(code)' = AnswersOf(code) /\ Matched(code)' = 0
  BY <1>1 DEF Acks, AnswersOf, Matched
<1>5. CASE Profile[c].code # code
  BY <1>3, <1>4, <1>5, CountedKept DEF Matched
<1>6. CASE Profile[c].code = code
  <2>1. Matched(code) = 1
    BY <1>1, <1>6 DEF Matched
  <2>2. PICK A, B, C, D : /\ A = Acks(code) /\ B = AnswersOf(code) /\ C = Answered(code)
                          /\ D = Answered(code)'
    OBVIOUS
  <2>3. /\ IsFiniteSet(A) /\ IsFiniteSet(B) /\ IsFiniteSet(C)
        /\ Cardinality(C) + Cardinality(A) + 1 <= Cardinality(B)
    BY <2>1, <2>2 DEF Counted
  <2> HIDE DEF c
  <2>4. D = C \/ D = C \cup {c}
    BY ONLY <1>3, <2>2
  <2>5. /\ Cardinality(A) \in Nat /\ Cardinality(B) \in Nat /\ Cardinality(C) \in Nat
    BY ONLY <2>3, FS_CardinalityType
  <2>6. IsFiniteSet(D) /\ Cardinality(D) \in {Cardinality(C), Cardinality(C) + 1}
    BY ONLY <2>3, <2>4, FS_AddElement
  <2>7. Cardinality(D) + Cardinality(A) + 0 <= Cardinality(B)
    BY ONLY <2>3, <2>5, <2>6
  <2> QED
    BY <1>4, <2>2, <2>3, <2>6, <2>7, Zenon DEF Counted
<1> QED
  BY <1>5, <1>6

\* Whatever changes neither the answers nor what became of them keeps the balance.
LEMMA CountedFrame ==
  ASSUME NEW code, Counted(code), Answered(code)' = Answered(code),
         UNCHANGED <<match, replies>>, \A m \in topic' : m \in topic \/ m.kind # "ACK"
  PROVE  Counted(code)'
<1>1. Matched(code)' = Matched(code) /\ AnswersOf(code)' = AnswersOf(code)
  BY DEF Matched, AnswersOf
<1>2. Acks(code)' \subseteq Acks(code)
  BY FeedbackAcks
<1> QED
  BY <1>1, <1>2, CountedKept

LEMMA CountedStep ==
  ASSUME "redeliver" \notin Faults, TypeInv, [Next]_vars, NEW code, Counted(code)
  PROVE  Counted(code)'
<1>1. OutcomeOK
  BY Parts DEF TypeInv
<1>2. (UNCHANGED <<status, error>>) => Answered(code)' = Answered(code)
  BY DEF Answered
<1>3. ASSUME NEW p \in Pods, NEW c, NEW stage, Handles(p, c, stage),
             UNCHANGED <<status, error, match, replies>>
      PROVE  Counted(code)'
  <2>1. \A m \in topic' : m \in topic \/ m.kind # "ACK"
    BY <1>3 DEF Handles, Feedback
  <2> QED
    BY <1>2, <1>3, <2>1, CountedFrame
<1>4. ASSUME Service PROVE Counted(code)'
  <2>1. UNCHANGED <<match, topic, replies>>
    BY <1>4 DEF Service, Create, Publish, PublishFails, PassTtl, expireStale, device
  <2>2. \/ UNCHANGED <<status, error>>
        \/ \E c \in Commands : mark(c, "FAILED", "PUBLISH_FAILED")
        \/ \E c \in Commands : Create(c)
        \/ expireStale
    BY <1>4 DEF Service, Publish, PublishFails, PassTtl
  <2>3. ASSUME NEW c \in Commands, mark(c, "FAILED", "PUBLISH_FAILED")
        PROVE  Answered(code)' = Answered(code)
    BY <1>1, <2>3, MarkAnswers
  <2>4. ASSUME NEW c \in Commands, Create(c) PROVE Answered(code)' = Answered(code)
    <3>1. status[c] = "NEW"
      BY <2>4, CommandsAssumption DEF Create
    <3> QED
      BY <1>1, <2>4, <3>1, RowAnswers DEF Create, OutcomeOK
  <2>5. ASSUME expireStale PROVE Answered(code)' = Answered(code)
    <3>1. \A d \in Commands : \/ status'[d] = status[d] /\ error'[d] = error[d]
                              \/ status[d] \in Pending /\ status'[d] = "EXPIRED"
      BY <2>5 DEF expireStale, stale
    <3> QED
      BY <1>1, <3>1, RowAnswers
  <2> QED
    BY <1>2, <2>1, <2>2, <2>3, <2>4, <2>5, CountedFrame
<1>5. ASSUME Sessions PROVE Counted(code)'
  <2>1. UNCHANGED <<status, error, match, topic, replies>>
    BY <1>5 DEF Sessions, Release, Authenticate, Upsert, End, rows, device
  <2> QED
    BY <1>2, <2>1, CountedFrame
<1>6. ASSUME NEW p \in Pods, Consume(p) PROVE Counted(code)'
  BY <1>3, <1>6, Consumes DEF rows
<1>7. ASSUME NEW p \in Pods, NEW c \in Commands, Lookup(p, c) \/ FlushNext(p, c) PROVE Counted(code)'
  BY <1>3, <1>7, Continues DEF rows
<1>8. ASSUME NEW p \in Pods, flushHeld(p) \/ Crash(p) PROVE Counted(code)'
  <2>1. UNCHANGED <<status, error, match, replies>>
    BY <1>8 DEF flushHeld, Crash, rows, device
  <2>2. \A m \in topic' : m \in topic \/ m.kind # "ACK"
    BY <1>8 DEF flushHeld, Crash, publishFeedback
  <2> QED
    BY <1>2, <2>1, <2>2, CountedFrame
<1>9. ASSUME NEW m \in topic, handleSent(m) \/ handleRejected(m) PROVE Counted(code)'
  <2>1. UNCHANGED <<match, replies>> /\ topic' \subseteq topic
    BY <1>9 DEF handleSent, handleRejected, consumed, device
  <2>2. \/ UNCHANGED <<status, error>>
        \/ mark(m.cmd, "SENT", "none") \/ mark(m.cmd, "FAILED", "REJECTED")
    BY <1>9 DEF handleSent, handleRejected
  <2>3. Answered(code)' = Answered(code)
    BY <1>1, <1>2, <2>2, MarkAnswers
  <2> QED
    BY <2>1, <2>3, CountedFrame
<1>10. CASE UNCHANGED vars
  <2>1. UNCHANGED <<status, error, match, topic, replies>>
    BY <1>10 DEF vars
  <2> QED
    BY <1>2, <2>1, CountedFrame
<1>11. \A p \in Pods : ~Rejoin(p)
  BY DEF Rejoin
<1> QED
  BY <1>4, <1>5, <1>6, <1>7, <1>8, <1>9, <1>10, <1>11, ReplyCounts, MatchCounts, ApplyCounts
  DEF Next, Gateway, Device, Consumer

LEMMA AnswerInit == Init => AnswerInv
<1> SUFFICES ASSUME Init, NEW code PROVE Counted(code)
  BY DEF AnswerInv
<1>1. Answered(code) = {} /\ Acks(code) = {} /\ Matched(code) = 0
  BY DEF Init, Answered, Acks, Matched
<1>2. AnswersOf(code) = {}
  BY DEF Init, AnswersOf
<1> QED
  BY <1>1, <1>2, FS_EmptySet DEF Counted

\* No answer is counted twice, as long as no event is consumed twice: among the commands of
\* a code, no more are settled by the device than it gave answers.
THEOREM AnswersAreCountedOnce ==
  "redeliver" \notin Faults => (Spec => []AnswersCountOnce)
<1> SUFFICES ASSUME "redeliver" \notin Faults PROVE Spec => []AnswersCountOnce
  OBVIOUS
<1>1. Init => TypeInv /\ AnswerInv
  BY TypeInit, AnswerInit
<1>2. TypeInv /\ AnswerInv /\ [Next]_vars => (TypeInv /\ AnswerInv)'
  BY TypeStep, CountedStep DEF AnswerInv
<1>3. AnswerInv => AnswersCountOnce
  <2> SUFFICES ASSUME AnswerInv, NEW c \in Commands
               PROVE  Cardinality(Answered(Profile[c].code)) <= Cardinality(AnswersOf(Profile[c].code))
    BY DEF AnswersCountOnce
  <2> DEFINE code == Profile[c].code
  <2>1. Counted(code)
    BY DEF AnswerInv
  <2> HIDE DEF code
  <2>2. /\ Cardinality(Answered(code)) \in Nat /\ Cardinality(Acks(code)) \in Nat
        /\ Cardinality(AnswersOf(code)) \in Nat /\ Matched(code) \in Nat
    BY <2>1, FS_CardinalityType DEF Counted, Matched
  <2> QED
    BY <2>1, <2>2 DEF Counted, code
<1> QED
  BY <1>1, <1>2, <1>3, PTL DEF Spec
=============================================================================
