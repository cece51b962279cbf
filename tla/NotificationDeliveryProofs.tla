--------------------- MODULE NotificationDeliveryProofs ---------------------
(***************************************************************************)
(* Proofs about NotificationDelivery, for any instances, notifications,    *)
(* channels and bounds.                                                    *)
(***************************************************************************)
EXTENDS NotificationDelivery, TLAPS

-----------------------------------------------------------------------------
(* Types *)

LEMMA InitTypeOK == Init => TypeOK
  BY BoundsAssumption DEF Init, TypeOK, Item

\* What updateStatus writes has the types of a row, and only a PENDING row is
\* given a next attempt.
LEMMA UpdateStatusTypes ==
  ASSUME TypeOK, NEW w \in work, updateStatus(w)
  PROVE  /\ status' \in [Deliveries -> {"none", "PENDING", "SENT", "FAILED"}]
         /\ attempts' \in [Deliveries -> Nat]
         /\ next' \in [Deliveries -> {"null", "future", "past"}]
         /\ \A d \in Deliveries : next'[d] # "null" => status'[d] = "PENDING"
         /\ \A v \in work : status'[v.d] # "none"
<1>1. w \in Item /\ w.d \in Deliveries /\ w.n \in Nat
  BY DEF TypeOK, Item
<1>2. settled(w) \in {"PENDING", "SENT", "FAILED"} /\ tried(w) \in Nat
  BY <1>1 DEF settled, tried
<1>3. rescheduled(w) \in {"null", "future"} /\ (rescheduled(w) # "null" => settled(w) = "PENDING")
  BY DEF rescheduled
<1> QED
  BY <1>1, <1>2, <1>3 DEF TypeOK, updateStatus

LEMMA StepTypeOK == TypeOK /\ [Next]_vars => TypeOK'
<1> SUFFICES ASSUME TypeOK, [Next]_vars PROVE TypeOK'
  OBVIOUS
<1>1. ASSUME NEW n \in Notifications, NEW i \in Instances, NEW C \in SUBSET Channels \ {{}},
             Dispatch(n, i, C)
      PROVE  TypeOK'
  BY <1>1 DEF TypeOK, Dispatch, row, history
<1>2. ASSUME NEW n \in Notifications, NEW i \in Instances, DispatchFails(n, i) PROVE TypeOK'
  BY <1>2 DEF TypeOK, DispatchFails, Mishap, row, history
<1>3. ASSUME NEW n \in Notifications, NEW c \in Channels, CreateDelivery(n, c) PROVE TypeOK'
  <2>1. <<n, c>> \in Deliveries
    BY DEF Deliveries
  <2>2. [by |-> n, d |-> <<n, c>>, n |-> 0, step |-> "call"] \in Item
    BY <2>1 DEF Item, Actors
  <2> QED
    BY <1>3, <2>1, <2>2 DEF TypeOK, CreateDelivery, insert, history
<1>4. ASSUME NEW n \in Notifications, NEW c \in Channels, CreateFails(n, c) PROVE TypeOK'
  <2> DEFINE RowTypes ==
               /\ status' \in [Deliveries -> {"none", "PENDING", "SENT", "FAILED"}]
               /\ attempts' \in [Deliveries -> Nat]
               /\ next' \in [Deliveries -> {"null", "future", "past"}]
               /\ \A d \in Deliveries : next'[d] # "null" => status'[d] = "PENDING"
               /\ \A w \in work : status'[w.d] # "none"
  <2>1. <<n, c>> \in Deliveries
    BY DEF Deliveries
  <2>2. insert(<<n, c>>) => RowTypes
    BY <2>1 DEF TypeOK, insert, Item
  <2>3. UNCHANGED row => RowTypes
    BY DEF TypeOK, row
  <2> QED
    BY <1>4, <2>2, <2>3 DEF TypeOK, CreateFails, Mishap, row, history
<1>5. ASSUME NEW i \in Instances, NEW S \in SUBSET Due, Claim(i, S) PROVE TypeOK'
  <2>1. copies(i, S) \subseteq Item
    BY DEF copies, Item, Actors, TypeOK, Due
  <2>2. \A w \in copies(i, S) : status[w.d] = "PENDING"
    BY DEF copies, Due
  <2>3. next' \in [Deliveries -> {"null", "future", "past"}]
    BY <1>5 DEF Claim, leased, TypeOK
  <2>4. \A d \in Deliveries : next'[d] # "null" => status'[d] = "PENDING"
    BY <1>5 DEF Claim, leased, TypeOK, Due
  <2> QED
    BY <1>5, <2>1, <2>2, <2>3, <2>4 DEF TypeOK, Claim, history
<1>6. ASSUME NEW w \in work, NEW o \in Outcomes, Deliver(w, o) PROVE TypeOK'
  <2>1. w \in Item /\ w.d \in Deliveries
    BY DEF TypeOK, Item
  <2>2. [w EXCEPT !.step = o] \in Item /\ [w EXCEPT !.step = o].d = w.d
    BY <2>1 DEF Item
  <2>3. work' \subseteq Item /\ \A v \in work' : status[v.d] # "none"
    BY <1>6, <2>1, <2>2 DEF TypeOK, Deliver
  <2>4. calls' \in [Deliveries -> Nat] /\ answers' \in [Deliveries -> SUBSET Outcomes]
    BY <1>6, <2>1 DEF TypeOK, Deliver
  <2> QED
    BY <1>6, <2>3, <2>4 DEF TypeOK, Deliver, row
<1>7. ASSUME NEW w \in work, Update(w) PROVE TypeOK'
  BY <1>7, UpdateStatusTypes DEF TypeOK, Update, history
<1>8. ASSUME NEW w \in work, UpdateFails(w) PROVE TypeOK'
  BY <1>8, UpdateStatusTypes DEF TypeOK, UpdateFails, Mishap, row, history
<1>9. ASSUME NEW d \in Deliveries, FallDue(d) PROVE TypeOK'
  BY <1>9 DEF TypeOK, FallDue, history
<1>10. ASSUME NEW i \in Instances, Crash(i) PROVE TypeOK'
  BY <1>10 DEF TypeOK, Crash, Mishap, row, history
<1>11. CASE UNCHANGED vars
  BY <1>11 DEF TypeOK, vars
<1> QED
  BY <1>1, <1>2, <1>3, <1>4, <1>5, <1>6, <1>7, <1>8, <1>9, <1>10, <1>11
  DEF Next, Dispatcher, Executor

\* The variables keep their types, whatever the faults: only a PENDING row has
\* a next attempt, even when overrun leases let two copies of it be written.
THEOREM DeliveryTypeCorrect == Spec => []TypeOK
  BY InitTypeOK, StepTypeOK, PTL DEF Spec

-----------------------------------------------------------------------------
(* SENT and FAILED are true, whichever copies were written in which order *)

\* Neither a row nor a copy of it counts more attempts than there were calls,
\* and an outcome about to be written was one of the provider's answers.
OutcomeInv ==
    /\ OutcomeIsTrue
    /\ \A d \in Deliveries : attempts[d] <= calls[d]
    /\ \A w \in work : w.n <= calls[w.d]
    /\ \A w \in work : w.step \in Outcomes => w.n < calls[w.d] /\ w.step \in answers[w.d]

LEMMA InitOutcomeInv == Init => OutcomeInv
  BY DEF Init, OutcomeInv, OutcomeIsTrue

\* A step that calls no provider and takes no new copies in hand.
LEMMA OutcomeKept ==
  ASSUME OutcomeInv, UNCHANGED <<history, attempts>>, work' \subseteq work,
         \A d \in Deliveries : status'[d] \in {status[d], "PENDING"}
  PROVE  OutcomeInv'
  BY DEF OutcomeInv, OutcomeIsTrue, history

\* Writing a copy whose provider has answered.
LEMMA OutcomeWritten ==
  ASSUME TypeOK, OutcomeInv, NEW w \in work, w.step \in Outcomes, updateStatus(w),
         UNCHANGED history, work' \subseteq work
  PROVE  OutcomeInv'
<1>1. w.d \in Deliveries /\ w.n \in Nat /\ calls[w.d] \in Nat
  BY DEF TypeOK, Item
<1>2. tried(w) <= calls[w.d]
  BY <1>1 DEF OutcomeInv, tried
<1>3. settled(w) = "SENT" => "ok" \in answers[w.d]
  BY DEF OutcomeInv, settled
<1>4. settled(w) = "FAILED" => "permanent" \in answers[w.d] \/ calls[w.d] >= MaxAttempts
  BY <1>1, BoundsAssumption DEF OutcomeInv, settled, final
<1>5. \A d \in Deliveries : d # w.d => status'[d] = status[d] /\ attempts'[d] = attempts[d]
  BY DEF TypeOK, updateStatus
<1>6. status'[w.d] = settled(w) /\ attempts'[w.d] = tried(w)
  BY <1>1 DEF TypeOK, updateStatus
<1> QED
  BY <1>2, <1>3, <1>4, <1>5, <1>6 DEF OutcomeInv, OutcomeIsTrue, history

LEMMA StepOutcomeInv == TypeOK /\ OutcomeInv /\ [Next]_vars => OutcomeInv'
<1> SUFFICES ASSUME TypeOK, OutcomeInv, [Next]_vars PROVE OutcomeInv'
  OBVIOUS
<1>1. ASSUME NEW n \in Notifications, NEW i \in Instances,
             (\E C \in SUBSET Channels \ {{}} : Dispatch(n, i, C)) \/ DispatchFails(n, i)
      PROVE  OutcomeInv'
  BY <1>1, OutcomeKept DEF Dispatch, DispatchFails, row, history
<1>2. ASSUME NEW n \in Notifications, NEW c \in Channels, CreateDelivery(n, c) PROVE OutcomeInv'
  <2> DEFINE new == [by |-> n, d |-> <<n, c>>, n |-> 0, step |-> "call"]
  <2>1. <<n, c>> \in Deliveries
    BY DEF Deliveries
  <2>2. new.n <= calls[new.d] /\ new.step \notin Outcomes
    BY <2>1 DEF TypeOK, Outcomes
  <2>3. \A d \in Deliveries : status'[d] \in {status[d], "PENDING"}
    BY <1>2 DEF CreateDelivery, insert, TypeOK
  <2>4. work' = work \cup {new} /\ UNCHANGED <<history, attempts>>
    BY <1>2 DEF CreateDelivery, insert
  <2> QED
    BY <2>2, <2>3, <2>4 DEF OutcomeInv, OutcomeIsTrue, history
<1>3. ASSUME NEW n \in Notifications, NEW c \in Channels, CreateFails(n, c) PROVE OutcomeInv'
  <2>1. \A d \in Deliveries : status'[d] \in {status[d], "PENDING"}
    BY <1>3 DEF CreateFails, insert, TypeOK, row
  <2> QED
    BY <1>3, <2>1, OutcomeKept DEF CreateFails, insert, row
<1>4. ASSUME NEW i \in Instances, NEW S \in SUBSET Due, Claim(i, S) PROVE OutcomeInv'
  <2>1. \A w \in copies(i, S) : w.n <= calls[w.d] /\ w.step \notin Outcomes
    BY DEF copies, OutcomeInv, Due, Outcomes
  <2> QED
    BY <1>4, <2>1 DEF Claim, OutcomeInv, OutcomeIsTrue, history
<1>5. ASSUME NEW w \in work, NEW o \in Outcomes, Deliver(w, o) PROVE OutcomeInv'
  <2> DEFINE new == [w EXCEPT !.step = o]
  <2>1. w.d \in Deliveries /\ w.n \in Nat /\ calls[w.d] \in Nat
    BY DEF TypeOK, Item
  <2>2. new.d = w.d /\ new.n = w.n /\ new.step = o
    BY DEF TypeOK, Item
  <2>3. \A d \in Deliveries : calls[d] <= calls'[d] /\ calls[d] \in Nat /\ calls'[d] \in Nat
    BY <1>5, <2>1 DEF Deliver, TypeOK
  <2>4. \A d \in Deliveries : answers[d] \subseteq answers'[d]
    BY <1>5, <2>1 DEF Deliver, TypeOK
  <2>5. calls'[w.d] = calls[w.d] + 1 /\ o \in answers'[w.d]
    BY <1>5, <2>1 DEF Deliver, TypeOK
  <2>6. \A v \in work' : v = new \/ v \in work
    BY <1>5 DEF Deliver
  <2>7. UNCHANGED <<status, attempts>>
    BY <1>5 DEF Deliver, row
  <2>8. \A v \in work : v.d \in Deliveries /\ v.n \in Nat
    BY DEF TypeOK, Item
  <2>9. w.n <= calls[w.d]
    BY DEF OutcomeInv
  <2>10. OutcomeIsTrue'
    BY <2>3, <2>4, <2>7, BoundsAssumption DEF OutcomeInv, OutcomeIsTrue
  <2>11. \A d \in Deliveries : attempts'[d] <= calls'[d]
    BY <2>3, <2>7 DEF OutcomeInv, TypeOK
  <2>12. \A v \in work' : v.n <= calls'[v.d]
    <3>1. new.n <= calls'[new.d]
      BY <2>1, <2>2, <2>3, <2>9
    <3>2. ASSUME NEW v \in work PROVE v.n <= calls'[v.d]
      BY <2>3, <2>8 DEF OutcomeInv
    <3> QED
      BY <3>1, <3>2, <2>6
  <2>13. \A v \in work' : v.step \in Outcomes => v.n < calls'[v.d] /\ v.step \in answers'[v.d]
    <3>1. new.n < calls'[new.d] /\ new.step \in answers'[new.d]
      BY <2>1, <2>2, <2>5, <2>9
    <3>2. ASSUME NEW v \in work, v.step \in Outcomes
          PROVE  v.n < calls'[v.d] /\ v.step \in answers'[v.d]
      BY <3>2, <2>3, <2>4, <2>8 DEF OutcomeInv
    <3> QED
      BY <3>1, <3>2, <2>6
  <2> QED
    BY <2>10, <2>11, <2>12, <2>13 DEF OutcomeInv
<1>6. ASSUME NEW w \in work, Update(w) PROVE OutcomeInv'
  BY <1>6, OutcomeWritten DEF Update
<1>7. ASSUME NEW w \in work, UpdateFails(w) PROVE OutcomeInv'
  BY <1>7, OutcomeWritten, OutcomeKept DEF UpdateFails, row
<1>8. ASSUME NEW d \in Deliveries, FallDue(d) PROVE OutcomeInv'
  BY <1>8, OutcomeKept DEF FallDue
<1>9. ASSUME NEW i \in Instances, Crash(i) PROVE OutcomeInv'
  BY <1>9, OutcomeKept DEF Crash, row
<1>10. CASE UNCHANGED vars
  BY <1>10, OutcomeKept DEF vars, history
<1> QED
  BY <1>1, <1>2, <1>3, <1>4, <1>5, <1>6, <1>7, <1>8, <1>9, <1>10
  DEF Next, Dispatcher, Executor

\* The outcome an operator reads is true with every fault, overrun leases
\* included: SENT was accepted by the provider, FAILED was refused for good or
\* tried MaxAttempts times.
THEOREM AuditIsHonest == Spec => []OutcomeIsTrue
<1>1. OutcomeInv => OutcomeIsTrue
  BY DEF OutcomeInv
<1> QED
  BY <1>1, InitTypeOK, StepTypeOK, InitOutcomeInv, StepOutcomeInv, PTL DEF Spec

-----------------------------------------------------------------------------
(* One holder at a time, while batches are worked within their lease *)

\* A copy in hand is the only one and up to date: its row is PENDING, counts the
\* same attempts and is not due.  Rows do not exist before their turn.
HoldInv ==
    /\ ExclusiveAttempt
    /\ \A w \in work : status[w.d] = "PENDING" /\ attempts[w.d] = w.n /\ next[w.d] # "past"
    /\ \A n \in Notifications : home[n] = None => todo[n] = {}
    /\ \A n \in Notifications, c \in Channels :
           home[n] = None \/ c \in todo[n] => status[<<n, c>>] = "none"
    /\ \A d \in Deliveries : status[d] = "none" => attempts[d] = 0

LEMMA InitHoldInv == Init => HoldInv
  BY DEF Init, HoldInv, ExclusiveAttempt, Deliveries

\* Steps that leave the rows alone, put copies back and begin no channel.
LEMMA HoldKept ==
  ASSUME TypeOK, HoldInv, UNCHANGED <<home, row>>, work' \subseteq work,
         \A n \in Notifications : todo'[n] \subseteq todo[n]
  PROVE  HoldInv'
  BY DEF HoldInv, ExclusiveAttempt, row

\* Writing a copy and putting it back.
LEMMA HoldWritten ==
  ASSUME TypeOK, HoldInv, NEW w \in work, updateStatus(w), work' = work \ {w},
         UNCHANGED home, \A n \in Notifications : todo'[n] \subseteq todo[n]
  PROVE  HoldInv'
<1>1. w.d \in Deliveries /\ status[w.d] # "none"
  BY DEF TypeOK, Item
<1>2. settled(w) # "none"
  BY DEF settled
<1>3. \A d \in Deliveries : d # w.d => /\ status'[d] = status[d]
                                    /\ attempts'[d] = attempts[d]
                                    /\ next'[d] = next[d]
  BY DEF TypeOK, updateStatus
<1>4. status'[w.d] = settled(w)
  BY <1>1 DEF TypeOK, updateStatus
<1>5. \A v \in work' : v \in work /\ v.d # w.d /\ v.d \in Deliveries
  BY DEF HoldInv, ExclusiveAttempt, TypeOK, Item
<1>6. \A n \in Notifications, c \in Channels :
         status[<<n, c>>] = "none" => status'[<<n, c>>] = "none"
  BY <1>1, <1>3 DEF Deliveries
<1> QED
  BY <1>1, <1>2, <1>3, <1>4, <1>5, <1>6 DEF HoldInv, ExclusiveAttempt

\* What the INSERT of a delivery leaves true of the other rows and of the copies.
RowsInserted(n, c) ==
    /\ \A m \in Notifications : home'[m] = None => todo'[m] = {}
    /\ \A m \in Notifications, e \in Channels :
           home'[m] = None \/ e \in todo'[m] => status'[<<m, e>>] = "none"
    /\ \A d \in Deliveries : status'[d] = "none" => attempts'[d] = 0
    /\ \A w \in work : /\ w.d # <<n, c>> /\ status'[w.d] = "PENDING"
                       /\ attempts'[w.d] = w.n /\ next'[w.d] # "past"
    /\ status'[<<n, c>>] = "PENDING" /\ attempts'[<<n, c>>] = 0 /\ next'[<<n, c>>] = "null"

LEMMA StepHoldInv ==
  ASSUME "slow" \notin Faults, TypeOK, HoldInv, [Next]_vars
  PROVE  HoldInv'
<1>1. ASSUME NEW n \in Notifications, NEW i \in Instances, NEW C \in SUBSET Channels \ {{}},
             Dispatch(n, i, C)
      PROVE  HoldInv'
  BY <1>1, InstancesAssumption DEF Dispatch, HoldInv, ExclusiveAttempt, TypeOK, row
<1>2. ASSUME NEW n \in Notifications, NEW i \in Instances, DispatchFails(n, i) PROVE HoldInv'
  BY <1>2, InstancesAssumption DEF DispatchFails, HoldInv, ExclusiveAttempt, TypeOK, row
<1>3. ASSUME NEW n \in Notifications, NEW c \in Channels, insert(<<n, c>>), c \in todo[n],
             UNCHANGED home,
             \A m \in Notifications : todo'[m] \subseteq todo[m], c \notin todo'[n]
      PROVE  RowsInserted(n, c)
  <2>1. <<n, c>> \in Deliveries /\ status[<<n, c>>] = "none" /\ home[n] # None
    BY <1>3 DEF Deliveries, HoldInv
  <2>2. \A d \in Deliveries : d # <<n, c>> => status'[d] = status[d]
    BY <1>3 DEF insert, TypeOK
  <2>3. status'[<<n, c>>] = "PENDING"
    BY <1>3, <2>1 DEF insert, TypeOK
  <2>4. \A w \in work : w.d \in Deliveries /\ w.d # <<n, c>>
    BY <2>1 DEF HoldInv, TypeOK, Item
  <2>5. \A m \in Notifications, e \in Channels :
           home'[m] = None \/ e \in todo'[m] => <<m, e>> # <<n, c>>
    BY <1>3, <2>1 DEF HoldInv
  <2>6. \A m \in Notifications, e \in Channels : <<m, e>> \in Deliveries
    BY DEF Deliveries
  <2>7. next[<<n, c>>] = "null"
    BY <2>1 DEF TypeOK
  <2> QED
    BY <1>3, <2>1, <2>2, <2>3, <2>4, <2>5, <2>6, <2>7 DEF HoldInv, insert, RowsInserted
<1>4. ASSUME NEW n \in Notifications, NEW c \in Channels, CreateDelivery(n, c) PROVE HoldInv'
  <2> DEFINE new == [by |-> n, d |-> <<n, c>>, n |-> 0, step |-> "call"]
  <2>1. work' = work \cup {new} /\ new.d = <<n, c>> /\ new.n = 0
    BY <1>4 DEF CreateDelivery
  <2>2. (\A m \in Notifications : todo'[m] \subseteq todo[m]) /\ c \notin todo'[n]
    BY <1>4 DEF CreateDelivery, TypeOK
  <2>3. insert(<<n, c>>) /\ c \in todo[n] /\ UNCHANGED home
    BY <1>4 DEF CreateDelivery
  <2> QED
    <3>1. RowsInserted(n, c)
      BY <1>3, <2>2, <2>3
    <3> HIDE DEF new
    <3> QED
      BY <2>1, <3>1 DEF HoldInv, ExclusiveAttempt, RowsInserted
<1>5. ASSUME NEW n \in Notifications, NEW c \in Channels, CreateFails(n, c) PROVE HoldInv'
  <2>1. (\A m \in Notifications : todo'[m] \subseteq todo[m]) /\ c \notin todo'[n]
    BY <1>5 DEF CreateFails, TypeOK
  <2>2. UNCHANGED <<home, work>> /\ c \in todo[n]
    BY <1>5 DEF CreateFails
  <2>3. CASE UNCHANGED row
    BY <2>1, <2>2, <2>3, HoldKept
  <2>4. CASE insert(<<n, c>>)
    <3>1. RowsInserted(n, c)
      BY <1>3, <2>1, <2>2, <2>4
    <3> QED
      BY <2>2, <3>1 DEF HoldInv, ExclusiveAttempt, RowsInserted
  <2> QED
    BY <1>5, <2>3, <2>4 DEF CreateFails
<1>6. ASSUME NEW i \in Instances, NEW S \in SUBSET Due, Claim(i, S) PROVE HoldInv'
  <2>1. \A v \in work : v.d \notin S /\ v.d \in Deliveries
    BY DEF HoldInv, Due, TypeOK, Item
  <2>2. \A v \in copies(i, S) : /\ v.d \in S /\ status[v.d] = "PENDING"
                               /\ attempts[v.d] = v.n /\ v.d \in Deliveries
    BY DEF copies, Due
  <2>3. \A v, w \in copies(i, S) : v.d = w.d => v = w
    BY DEF copies
  <2>4. \A d \in Deliveries : next'[d] = IF d \in S THEN "future" ELSE next[d]
    BY <1>6 DEF Claim, leased
  <2> QED
    BY <1>6, <2>1, <2>2, <2>3, <2>4 DEF Claim, HoldInv, ExclusiveAttempt
<1>7. ASSUME NEW w \in work, NEW o \in Outcomes, Deliver(w, o) PROVE HoldInv'
  <2> DEFINE new == [w EXCEPT !.step = o]
  <2>1. new.d = w.d /\ new.n = w.n
    BY DEF TypeOK, Item
  <2>2. work' = (work \ {w}) \cup {new} /\ UNCHANGED <<home, todo, status, attempts, next>>
    BY <1>7 DEF Deliver, row
  <2> HIDE DEF new
  <2> QED
    BY <2>1, <2>2 DEF HoldInv, ExclusiveAttempt
<1>8. ASSUME NEW w \in work, Update(w) PROVE HoldInv'
  BY <1>8, HoldWritten DEF Update
<1>9. ASSUME NEW w \in work, UpdateFails(w) PROVE HoldInv'
  <2>1. \A n \in Notifications : todo'[n] \subseteq todo[n]
    BY <1>9 DEF UpdateFails
  <2> QED
    BY <1>9, <2>1, HoldWritten, HoldKept DEF UpdateFails
<1>10. ASSUME NEW d \in Deliveries, FallDue(d) PROVE HoldInv'
  <2>1. \A w \in work : w.d # d /\ w.d \in Deliveries
    BY <1>10 DEF FallDue, TypeOK, Item
  <2>2. \A e \in Deliveries : e # d => next'[e] = next[e]
    BY <1>10 DEF FallDue, TypeOK
  <2> QED
    BY <1>10, <2>1, <2>2 DEF FallDue, HoldInv, ExclusiveAttempt
<1>11. ASSUME NEW i \in Instances, Crash(i) PROVE HoldInv'
  <2>1. \A n \in Notifications : todo'[n] \subseteq todo[n]
    BY <1>11 DEF Crash
  <2> QED
    BY <1>11, <2>1, HoldKept DEF Crash
<1>12. CASE UNCHANGED vars
  BY <1>12, HoldKept DEF vars, row
<1> QED
  BY <1>1, <1>2, <1>4, <1>5, <1>6, <1>7, <1>8, <1>9, <1>10, <1>11, <1>12
  DEF Next, Dispatcher, Executor

\* "multiple instances never dispatch the same delivery simultaneously", nor do
\* a dispatch and a worker, if batches are worked within their lease.
THEOREM OneHolder == ASSUME "slow" \notin Faults PROVE Spec => []ExclusiveAttempt
<1>1. TypeOK /\ HoldInv /\ [Next]_vars => HoldInv'
  BY StepHoldInv
<1>2. HoldInv => ExclusiveAttempt
  BY DEF HoldInv
<1> QED
  BY <1>1, <1>2, InitTypeOK, StepTypeOK, InitHoldInv, PTL DEF Spec

-----------------------------------------------------------------------------
(* The rows live the documented life *)

\* Writing the one copy of a PENDING row is a step of the state machine.
LEMMA WrittenIsAllowed ==
  ASSUME TypeOK, HoldInv, NEW w \in work, w.step \in Outcomes, updateStatus(w)
  PROVE  \E d \in Deliveries : Lifecycle!Send(d) \/ Lifecycle!Reschedule(d) \/ Lifecycle!GiveUp(d)
<1>1. w.d \in Deliveries /\ status[w.d] = "PENDING" /\ attempts[w.d] = w.n
  BY DEF TypeOK, Item, HoldInv
<1>2. w.n \in Nat
  BY DEF TypeOK, Item
<1>3. CASE w.step = "ok"
  <2>1. Lifecycle!Send(w.d)
    BY <1>1, <1>3 DEF updateStatus, settled, tried, Lifecycle!Send, TypeOK
  <2> QED
    BY <1>1, <2>1
<1>4. CASE w.step # "ok" /\ final(w)
  <2>1. Lifecycle!GiveUp(w.d)
    BY <1>1, <1>4 DEF updateStatus, settled, tried, Lifecycle!GiveUp
  <2> QED
    BY <1>1, <2>1
<1>5. CASE w.step # "ok" /\ ~ final(w)
  <2>1. w.n + 1 < MaxAttempts
    BY <1>2, <1>5, BoundsAssumption DEF final
  <2>2. Lifecycle!Reschedule(w.d)
    BY <1>1, <1>5, <2>1 DEF updateStatus, settled, tried, Lifecycle!Reschedule, TypeOK
  <2> QED
    BY <1>1, <2>2
<1> QED
  BY <1>3, <1>4, <1>5

LEMMA StepIsAllowed ==
  ASSUME TypeOK, HoldInv, [Next]_vars
  PROVE  [Lifecycle!Next]_<<status, attempts>>
<1>1. ASSUME NEW n \in Notifications, NEW c \in Channels, c \in todo[n], insert(<<n, c>>)
      PROVE  Lifecycle!Next
  <2>1. <<n, c>> \in Deliveries /\ status[<<n, c>>] = "none"
    BY <1>1 DEF HoldInv, Deliveries
  <2>2. Lifecycle!Insert(<<n, c>>)
    BY <1>1, <2>1 DEF insert, Lifecycle!Insert
  <2> QED
    BY <2>1, <2>2 DEF Lifecycle!Next
<1>2. ASSUME NEW n \in Notifications, Dispatcher(n) PROVE [Lifecycle!Next]_<<status, attempts>>
  BY <1>1, <1>2 DEF Dispatcher, Dispatch, DispatchFails, CreateDelivery, CreateFails, row
<1>3. ASSUME NEW w \in work, Update(w) \/ UpdateFails(w)
      PROVE  [Lifecycle!Next]_<<status, attempts>>
  BY <1>3, WrittenIsAllowed DEF Update, UpdateFails, Lifecycle!Next, row
<1>4. ASSUME \/ \E i \in Instances, S \in SUBSET Due : Claim(i, S)
             \/ \E w \in work, o \in Outcomes : Deliver(w, o)
             \/ \E d \in Deliveries : FallDue(d)
             \/ \E i \in Instances : Crash(i)
             \/ UNCHANGED vars
      PROVE  UNCHANGED <<status, attempts>>
  BY <1>4 DEF Claim, Deliver, FallDue, Crash, vars, row
<1> QED
  BY <1>2, <1>3, <1>4 DEF Next, Executor

\* Although updateStatus has no guard, rows live the documented life: attempts
\* are counted one by one up to the limit, SENT and FAILED are final.
THEOREM DeliveriesLiveTheLifecycle == ASSUME "slow" \notin Faults PROVE Spec => LifecycleSpec
<1>1. Init => Lifecycle!Init
  BY DEF Init, Lifecycle!Init
<1>2. TypeOK /\ HoldInv /\ [Next]_vars => HoldInv' /\ [Lifecycle!Next]_<<status, attempts>>
  BY StepHoldInv, StepIsAllowed
<1> QED
  BY <1>1, <1>2, InitTypeOK, StepTypeOK, InitHoldInv, PTL
  DEF Spec, LifecycleSpec, Lifecycle!Spec

-----------------------------------------------------------------------------
(* The calls of a provider are budgeted *)

\* A call is paid for by an attempt on record, by the outcome about to be
\* written, or by a mishap.
BudgetInv ==
    /\ CallsAreBudgeted
    /\ \A d \in Deliveries : status[d] = "none" => calls[d] = 0
    /\ \A d \in Deliveries : status[d] = "PENDING" => attempts[d] < MaxAttempts
    /\ \A d \in Deliveries :
          status[d] = "PENDING" /\ (\A w \in work : w.d = d => w.step = "call")
              => calls[d] <= attempts[d] + mishaps
    /\ \A w \in work : w.step \in Outcomes => calls[w.d] <= w.n + 1 + mishaps
LEMMA InitBudgetInv == Init => BudgetInv
  BY BoundsAssumption DEF Init, BudgetInv, CallsAreBudgeted

\* Steps that touch neither calls, rows nor copies.
LEMMA BudgetKept ==
  ASSUME TypeOK, BudgetInv, UNCHANGED <<calls, status, attempts, work>>,
         mishaps' \in {mishaps, mishaps + 1}
  PROVE  BudgetInv'
<1>1. /\ mishaps \in Nat /\ MaxAttempts \in Nat
      /\ \A d \in Deliveries : calls[d] \in Nat /\ attempts[d] \in Nat
      /\ \A w \in work : w.d \in Deliveries /\ w.n \in Nat
  BY BoundsAssumption DEF TypeOK, Item
<1> QED
  BY <1>1 DEF BudgetInv, CallsAreBudgeted

\* The first row of a delivery, with nobody or its dispatch about to call.
LEMMA BudgetInserted ==
  ASSUME TypeOK, HoldInv, BudgetInv,
         NEW n \in Notifications, NEW c \in Channels, c \in todo[n], insert(<<n, c>>),
         UNCHANGED calls, mishaps' \in {mishaps, mishaps + 1},
         work \subseteq work', \A w \in work' : w \in work \/ w.step = "call"
  PROVE  BudgetInv'
<1>1. /\ mishaps \in Nat /\ MaxAttempts \in Nat \ {0}
      /\ \A d \in Deliveries : calls[d] \in Nat /\ attempts[d] \in Nat
      /\ \A w \in work : w.d \in Deliveries /\ w.n \in Nat
  BY BoundsAssumption DEF TypeOK, Item
<1>2. /\ <<n, c>> \in Deliveries /\ status[<<n, c>>] = "none"
      /\ attempts[<<n, c>>] = 0 /\ calls[<<n, c>>] = 0
  BY DEF Deliveries, HoldInv, BudgetInv
<1>3. \A d \in Deliveries : d # <<n, c>> => status'[d] = status[d]
  BY DEF insert, TypeOK
<1>4. status'[<<n, c>>] = "PENDING" /\ UNCHANGED attempts
  BY <1>2 DEF insert, TypeOK
<1>5. \A w \in work' : w.step \in Outcomes => w \in work
  BY DEF Outcomes
<1>6. CallsAreBudgeted'
  BY <1>1 DEF BudgetInv, CallsAreBudgeted
<1>7. \A d \in Deliveries : status'[d] = "none" => calls'[d] = 0
  BY <1>3, <1>4 DEF BudgetInv
<1>8. \A d \in Deliveries : status'[d] = "PENDING" => attempts'[d] < MaxAttempts
  BY <1>1, <1>2, <1>3, <1>4 DEF BudgetInv
<1>9. ASSUME NEW d \in Deliveries, status'[d] = "PENDING",
             \A w \in work' : w.d = d => w.step = "call"
      PROVE  calls'[d] <= attempts'[d] + mishaps'
  BY <1>1, <1>2, <1>3, <1>4, <1>9 DEF BudgetInv
<1>10. \A w \in work' : w.step \in Outcomes => calls'[w.d] <= w.n + 1 + mishaps'
  BY <1>1, <1>5 DEF BudgetInv
<1> QED
  BY <1>6, <1>7, <1>8, <1>9, <1>10 DEF BudgetInv

\* Writing the copy of a row that was called once for it.
LEMMA BudgetWritten ==
  ASSUME TypeOK, HoldInv, BudgetInv, NEW w \in work, w.step \in Outcomes, updateStatus(w),
         work' = work \ {w}, UNCHANGED calls, mishaps' \in {mishaps, mishaps + 1}
  PROVE  BudgetInv'
<1>1. /\ mishaps \in Nat /\ MaxAttempts \in Nat \ {0}
      /\ \A d \in Deliveries : calls[d] \in Nat /\ attempts[d] \in Nat
      /\ \A v \in work : v.d \in Deliveries /\ v.n \in Nat
  BY BoundsAssumption DEF TypeOK, Item
<1>2. calls[w.d] <= w.n + 1 + mishaps
  BY DEF BudgetInv
<1>3. \A d \in Deliveries : d # w.d => status'[d] = status[d] /\ attempts'[d] = attempts[d]
  BY DEF TypeOK, updateStatus
<1>4. status'[w.d] = settled(w) /\ attempts'[w.d] = tried(w)
  BY <1>1 DEF TypeOK, updateStatus
<1>5. settled(w) # "none"
  BY DEF settled
<1>6. settled(w) = "PENDING" => tried(w) = w.n + 1 /\ w.n + 1 < MaxAttempts
  BY <1>1 DEF settled, tried, final
<1>7. CallsAreBudgeted'
  BY <1>1 DEF BudgetInv, CallsAreBudgeted
<1>8. \A d \in Deliveries : status'[d] = "none" => calls'[d] = 0
  BY <1>3, <1>4, <1>5 DEF BudgetInv
<1>9. \A d \in Deliveries : status'[d] = "PENDING" => attempts'[d] < MaxAttempts
  BY <1>1, <1>3, <1>4, <1>6 DEF BudgetInv
<1>10. ASSUME NEW d \in Deliveries, status'[d] = "PENDING",
              \A v \in work' : v.d = d => v.step = "call"
       PROVE  calls'[d] <= attempts'[d] + mishaps'
  <2>1. CASE d = w.d
    BY <1>1, <1>2, <1>4, <1>6, <1>10, <2>1
  <2>2. CASE d # w.d
    BY <1>1, <1>3, <1>10, <2>2 DEF BudgetInv
  <2> QED
    BY <2>1, <2>2
<1>11. \A v \in work' : v.step \in Outcomes => calls'[v.d] <= v.n + 1 + mishaps'
  BY <1>1 DEF BudgetInv
<1> QED
  BY <1>7, <1>8, <1>9, <1>10, <1>11 DEF BudgetInv

\* Copies that are lost, each after at most one call, cost one mishap.
LEMMA BudgetLost ==
  ASSUME TypeOK, HoldInv, BudgetInv, UNCHANGED <<calls, status, attempts>>,
         work' \subseteq work, mishaps' = mishaps + 1
  PROVE  BudgetInv'
<1>1. /\ mishaps \in Nat /\ MaxAttempts \in Nat
      /\ \A d \in Deliveries : calls[d] \in Nat /\ attempts[d] \in Nat
      /\ \A w \in work : w.d \in Deliveries /\ w.n \in Nat /\ attempts[w.d] = w.n
      /\ \A w \in work : w.step \in {"call"} \cup Outcomes
  BY BoundsAssumption DEF TypeOK, Item, HoldInv
<1>2. ASSUME NEW d \in Deliveries, status[d] = "PENDING" PROVE calls[d] <= attempts[d] + mishaps + 1
  <2>1. CASE \A w \in work : w.d = d => w.step = "call"
    BY <1>1, <1>2, <2>1 DEF BudgetInv
  <2>2. ASSUME NEW w \in work, w.d = d, w.step # "call"
        PROVE  calls[d] <= attempts[d] + mishaps + 1
    BY <1>1, <2>2 DEF BudgetInv
  <2> QED
    BY <2>1, <2>2
<1> QED
  BY <1>1, <1>2 DEF BudgetInv, CallsAreBudgeted

\* The call of a provider, for the one copy of a PENDING row.
LEMMA BudgetCalled ==
  ASSUME TypeOK, HoldInv, BudgetInv, NEW w \in work, NEW o \in Outcomes, Deliver(w, o)
  PROVE  BudgetInv'
<1> DEFINE new == [w EXCEPT !.step = o]
<1>1. /\ mishaps \in Nat /\ MaxAttempts \in Nat
      /\ \A d \in Deliveries : calls[d] \in Nat /\ attempts[d] \in Nat
      /\ \A v \in work : v.d \in Deliveries /\ v.n \in Nat
  BY BoundsAssumption DEF TypeOK, Item
<1>2. new.d = w.d /\ new.n = w.n /\ new.step = o
  BY DEF TypeOK, Item
<1>3. work' = (work \ {w}) \cup {new} /\ UNCHANGED <<status, attempts, mishaps>> /\ w.step = "call"
  BY DEF Deliver, row
<1>4. calls'[w.d] = calls[w.d] + 1 /\ \A d \in Deliveries : d # w.d => calls'[d] = calls[d]
  BY <1>1 DEF Deliver, TypeOK
<1> HIDE DEF new
<1>5. \A v \in work : v # w => v.d # w.d
  BY DEF HoldInv, ExclusiveAttempt
<1>6. status[w.d] = "PENDING" /\ attempts[w.d] = w.n /\ attempts[w.d] < MaxAttempts
  BY <1>1 DEF HoldInv, BudgetInv
<1>7. calls[w.d] <= w.n + mishaps
  BY <1>1, <1>3, <1>5, <1>6 DEF BudgetInv
<1>8. CallsAreBudgeted'
  BY <1>1, <1>3, <1>4, <1>6, <1>7 DEF BudgetInv, CallsAreBudgeted
<1>9. \A d \in Deliveries : status'[d] = "none" => calls'[d] = 0
  BY <1>3, <1>4, <1>6 DEF BudgetInv
<1>10. \A d \in Deliveries : status'[d] = "PENDING" => attempts'[d] < MaxAttempts
  BY <1>3 DEF BudgetInv
<1>11. ASSUME NEW d \in Deliveries, status'[d] = "PENDING",
              \A v \in work' : v.d = d => v.step = "call"
       PROVE  calls'[d] <= attempts'[d] + mishaps'
  <2>1. d # w.d
    BY <1>2, <1>3, <1>11 DEF Outcomes
  <2>2. \A v \in work : v.d = d => v.step = "call"
    BY <1>3, <1>11
  <2> QED
    BY <1>3, <1>4, <1>11, <2>1, <2>2 DEF BudgetInv
<1>12. \A v \in work' : v.step \in Outcomes => calls'[v.d] <= v.n + 1 + mishaps'
  <2>1. calls'[new.d] <= new.n + 1 + mishaps'
    BY <1>1, <1>2, <1>3, <1>4, <1>7
  <2>2. ASSUME NEW v \in work, v # w, v.step \in Outcomes
        PROVE  calls'[v.d] <= v.n + 1 + mishaps'
    BY <1>1, <1>3, <1>4, <1>5, <2>2 DEF BudgetInv
  <2> QED
    BY <1>3, <2>1, <2>2
<1> QED
  BY <1>8, <1>9, <1>10, <1>11, <1>12 DEF BudgetInv

LEMMA StepBudgetInv ==
  ASSUME TypeOK, HoldInv, BudgetInv, [Next]_vars
  PROVE  BudgetInv'
<1>1. ASSUME NEW n \in Notifications, NEW i \in Instances,
             (\E C \in SUBSET Channels \ {{}} : Dispatch(n, i, C)) \/ DispatchFails(n, i)
      PROVE  BudgetInv'
  BY <1>1, BudgetKept DEF Dispatch, DispatchFails, Mishap, row, history
<1>2. ASSUME NEW n \in Notifications, NEW c \in Channels, CreateDelivery(n, c) PROVE BudgetInv'
  BY <1>2, BudgetInserted DEF CreateDelivery, history
<1>3. ASSUME NEW n \in Notifications, NEW c \in Channels, CreateFails(n, c) PROVE BudgetInv'
  BY <1>3, BudgetInserted, BudgetKept DEF CreateFails, Mishap, row, history
<1>4. ASSUME NEW i \in Instances, NEW S \in SUBSET Due, Claim(i, S) PROVE BudgetInv'
  <2>1. \A w \in work' : w.step \in Outcomes => w \in work
    BY <1>4 DEF Claim, copies, Outcomes
  <2>2. work \subseteq work' /\ UNCHANGED <<calls, status, attempts, mishaps>>
    BY <1>4 DEF Claim, history
  <2> QED
    BY <2>1, <2>2 DEF BudgetInv, CallsAreBudgeted
<1>5. ASSUME NEW w \in work, NEW o \in Outcomes, Deliver(w, o) PROVE BudgetInv'
  BY <1>5, BudgetCalled
<1>6. ASSUME NEW w \in work, Update(w) PROVE BudgetInv'
  BY <1>6, BudgetWritten DEF Update, history
<1>7. ASSUME NEW w \in work, UpdateFails(w) PROVE BudgetInv'
  BY <1>7, BudgetWritten, BudgetLost DEF UpdateFails, Mishap, row, history
<1>8. ASSUME NEW d \in Deliveries, FallDue(d) PROVE BudgetInv'
  BY <1>8, BudgetKept DEF FallDue, history
<1>9. ASSUME NEW i \in Instances, Crash(i) PROVE BudgetInv'
  BY <1>9, BudgetLost DEF Crash, Mishap, row, history
<1>10. CASE UNCHANGED vars
  BY <1>10, BudgetKept DEF vars
<1> QED
  BY <1>1, <1>2, <1>3, <1>4, <1>5, <1>6, <1>7, <1>8, <1>9, <1>10
  DEF Next, Dispatcher, Executor

\* "bounded retries": a provider is called for a delivery at most MaxAttempts
\* times, plus once for each crash or lost UPDATE.
THEOREM RetriesAreBounded == ASSUME "slow" \notin Faults PROVE Spec => []CallsAreBudgeted
<1>1. TypeOK /\ HoldInv /\ BudgetInv /\ [Next]_vars => HoldInv' /\ BudgetInv'
  BY StepHoldInv, StepBudgetInv
<1>2. BudgetInv => CallsAreBudgeted
  BY DEF BudgetInv
<1> QED
  BY <1>1, <1>2, InitTypeOK, StepTypeOK, InitHoldInv, InitBudgetInv, PTL DEF Spec

-----------------------------------------------------------------------------
(* Only first attempts can be lost *)

\* A row is inserted once, before it counts attempts.
OnceInv ==
    /\ \A n \in Notifications : home[n] = None => todo[n] = {}
    /\ \A n \in Notifications, c \in Channels :
           home[n] = None \/ c \in todo[n] => status[<<n, c>>] = "none"
    /\ \A d \in Deliveries : status[d] = "none" => attempts[d] = 0

ScheduleInv == OnceInv /\ RetryIsScheduled

\* A row somebody is at has somebody at it afterwards, or there was a mishap.
HandsKept == mishaps' = 0 => mishaps = 0 /\ \A w \in work : \E v \in work' : v.d = w.d

\* Steps that write no row and begin no channel.
LEMMA ScheduleKept ==
  ASSUME TypeOK, ScheduleInv, UNCHANGED <<home, status, attempts>>, HandsKept,
         \A d \in Deliveries : next'[d] = "null" => next[d] = "null",
         \A n \in Notifications : todo'[n] \subseteq todo[n]
  PROVE  ScheduleInv'
<1>1. OnceInv'
  BY DEF ScheduleInv, OnceInv
<1>2. RetryIsScheduled'
  BY DEF ScheduleInv, RetryIsScheduled, HandsKept
<1> QED
  BY <1>1, <1>2 DEF ScheduleInv

\* Writing a copy: a row that stays PENDING is rescheduled.
LEMMA ScheduleWritten ==
  ASSUME TypeOK, ScheduleInv, NEW w \in work, updateStatus(w), UNCHANGED home,
         work' = work \ {w}, mishaps' = 0 => mishaps = 0,
         \A n \in Notifications : todo'[n] \subseteq todo[n]
  PROVE  ScheduleInv'
<1>1. w.d \in Deliveries /\ status[w.d] # "none"
  BY DEF TypeOK, Item
<1>2. /\ \A d \in Deliveries : d # w.d => /\ status'[d] = status[d]
                                       /\ attempts'[d] = attempts[d]
                                       /\ next'[d] = next[d]
      /\ status'[w.d] = settled(w) /\ next'[w.d] = rescheduled(w)
  BY <1>1 DEF TypeOK, updateStatus
<1>3. settled(w) # "none" /\ (settled(w) = "PENDING" => rescheduled(w) # "null")
  BY DEF settled, rescheduled
<1>4. OnceInv'
  <2>1. \A n \in Notifications, c \in Channels :
           status[<<n, c>>] = "none" => status'[<<n, c>>] = "none"
    BY <1>1, <1>2 DEF Deliveries
  <2> QED
    BY <1>1, <1>2, <1>3, <2>1 DEF ScheduleInv, OnceInv
<1>5. RetryIsScheduled'
  <2> SUFFICES ASSUME NEW d \in Deliveries, status'[d] = "PENDING", next'[d] = "null"
               PROVE  attempts'[d] = 0 /\ (mishaps' = 0 => \E v \in work' : v.d = d)
    BY DEF RetryIsScheduled
  <2>1. d # w.d
    BY <1>2, <1>3
  <2> QED
    BY <1>2, <2>1 DEF ScheduleInv, RetryIsScheduled
<1> QED
  BY <1>4, <1>5 DEF ScheduleInv

\* The INSERT of a delivery, by a dispatch that goes on with it or fails.
LEMMA ScheduleInserted ==
  ASSUME TypeOK, ScheduleInv, NEW n \in Notifications, NEW c \in todo[n], insert(<<n, c>>),
         UNCHANGED home, todo' = [todo EXCEPT ![n] = todo'[n]],
         todo'[n] \subseteq todo[n] \ {c}, work \subseteq work',
         mishaps' = 0 => mishaps = 0 /\ \E w \in work' : w.d = <<n, c>>
  PROVE  ScheduleInv'
<1>1. c \in Channels /\ <<n, c>> \in Deliveries /\ status[<<n, c>>] = "none"
  BY DEF TypeOK, Deliveries, ScheduleInv, OnceInv
<1>2. /\ \A d \in Deliveries : d # <<n, c>> => status'[d] = status[d]
      /\ status'[<<n, c>>] = "PENDING" /\ UNCHANGED <<attempts, next>>
  BY <1>1 DEF insert, TypeOK
<1>3. OnceInv'
  <2>1. \A m \in Notifications : todo'[m] \subseteq todo[m] /\ c \notin todo'[n]
    BY DEF TypeOK
  <2>2. \A m \in Notifications, e \in Channels :
           /\ <<m, e>> \in Deliveries
           /\ home[m] = None \/ e \in todo'[m] => <<m, e>> # <<n, c>>
    BY <1>1, <2>1 DEF Deliveries, ScheduleInv, OnceInv
  <2> QED
    BY <1>2, <2>1, <2>2 DEF ScheduleInv, OnceInv
<1>4. RetryIsScheduled'
  BY <1>1, <1>2 DEF ScheduleInv, OnceInv, RetryIsScheduled
<1> QED
  BY <1>3, <1>4 DEF ScheduleInv

LEMMA ScheduleStep == TypeOK /\ ScheduleInv /\ [Next]_vars => ScheduleInv'
<1> SUFFICES ASSUME TypeOK, ScheduleInv, [Next]_vars PROVE ScheduleInv'
  OBVIOUS
<1>0. /\ mishaps \in Nat
      /\ \A kind : Mishap(kind) => mishaps' # 0
  BY DEF TypeOK, Mishap
<1>1. ASSUME NEW n \in Notifications, NEW i \in Instances,
             (\E C \in SUBSET Channels \ {{}} : Dispatch(n, i, C)) \/ DispatchFails(n, i)
      PROVE  ScheduleInv'
  <2>1. /\ home[n] = None /\ home' = [home EXCEPT ![n] = i]
        /\ UNCHANGED <<row, work>> /\ (mishaps' = 0 => mishaps = 0)
        /\ \A m \in Notifications \ {n} : todo'[m] = todo[m]
        /\ todo'[n] \subseteq Channels
    BY <1>0, <1>1 DEF Dispatch, DispatchFails, TypeOK
  <2>2. OnceInv'
    BY <2>1, InstancesAssumption DEF ScheduleInv, OnceInv, TypeOK, row
  <2>3. RetryIsScheduled'
    BY <2>1 DEF ScheduleInv, RetryIsScheduled, row
  <2> QED
    BY <2>2, <2>3 DEF ScheduleInv
<1>2. ASSUME NEW n \in Notifications, NEW c \in Channels, CreateDelivery(n, c) PROVE ScheduleInv'
  <2>1. [by |-> n, d |-> <<n, c>>, n |-> 0, step |-> "call"].d = <<n, c>>
    OBVIOUS
  <2>2. \E w \in work' : w.d = <<n, c>>
    BY <1>2, <2>1 DEF CreateDelivery
  <2>3. /\ insert(<<n, c>>) /\ c \in todo[n] /\ UNCHANGED <<home, mishaps>>
        /\ todo' = [todo EXCEPT ![n] = todo[n] \ {c}] /\ work \subseteq work'
    BY <1>2 DEF CreateDelivery
  <2>4. todo'[n] = todo[n] \ {c}
    BY <2>3 DEF TypeOK
  <2> QED
    BY <2>2, <2>3, <2>4, ScheduleInserted
<1>3. ASSUME NEW n \in Notifications, NEW c \in Channels, CreateFails(n, c) PROVE ScheduleInv'
  <2>1. /\ insert(<<n, c>>) \/ UNCHANGED row
        /\ c \in todo[n] /\ UNCHANGED <<home, work>> /\ mishaps' # 0
        /\ todo' = [todo EXCEPT ![n] = {}]
    BY <1>0, <1>3 DEF CreateFails
  <2>2. todo'[n] = {} /\ \A m \in Notifications : todo'[m] \subseteq todo[m]
    BY <2>1 DEF TypeOK
  <2>3. CASE insert(<<n, c>>)
    BY <2>1, <2>2, <2>3, ScheduleInserted
  <2>4. CASE UNCHANGED row
    BY <2>1, <2>2, <2>4, ScheduleKept DEF row, HandsKept
  <2> QED
    BY <2>1, <2>3, <2>4
<1>4. ASSUME NEW i \in Instances, NEW S \in SUBSET Due, Claim(i, S) PROVE ScheduleInv'
  <2>1. \A d \in Deliveries : next'[d] = "null" => next[d] = "null"
    BY <1>4 DEF Claim, leased
  <2>2. HandsKept
    BY <1>4 DEF Claim, HandsKept
  <2> QED
    BY <1>4, <2>1, <2>2, ScheduleKept DEF Claim
<1>5. ASSUME NEW w \in work, NEW o \in Outcomes, Deliver(w, o) PROVE ScheduleInv'
  <2>1. [w EXCEPT !.step = o].d = w.d
    BY DEF TypeOK, Item
  <2>2. HandsKept
    BY <1>5, <2>1 DEF Deliver, HandsKept
  <2> QED
    BY <1>5, <2>2, ScheduleKept DEF Deliver, row
<1>6. ASSUME NEW w \in work, Update(w) PROVE ScheduleInv'
  BY <1>6, ScheduleWritten DEF Update
<1>7. ASSUME NEW w \in work, UpdateFails(w) PROVE ScheduleInv'
  <2>1. mishaps' # 0 /\ \A n \in Notifications : todo'[n] \subseteq todo[n]
    BY <1>0, <1>7 DEF UpdateFails
  <2>2. UNCHANGED row => ScheduleInv'
    BY <1>7, <2>1, ScheduleKept DEF UpdateFails, HandsKept, row
  <2> QED
    BY <1>7, <2>1, <2>2, ScheduleWritten DEF UpdateFails
<1>8. ASSUME NEW d \in Deliveries, FallDue(d) PROVE ScheduleInv'
  BY <1>8, ScheduleKept DEF FallDue, HandsKept, TypeOK
<1>9. ASSUME NEW i \in Instances, Crash(i) PROVE ScheduleInv'
  <2>1. mishaps' # 0 /\ \A n \in Notifications : todo'[n] \subseteq todo[n]
    BY <1>0, <1>9 DEF Crash
  <2> QED
    BY <1>9, <2>1, ScheduleKept DEF Crash, HandsKept, row
<1>10. CASE UNCHANGED vars
  BY <1>10, ScheduleKept DEF vars, row, HandsKept
<1> QED
  BY <1>1, <1>2, <1>3, <1>4, <1>5, <1>6, <1>7, <1>8, <1>9, <1>10
  DEF Next, Dispatcher, Executor

\* Whatever fails, dies or overruns its lease: a delivery that has an attempt on record stays on
\* the schedule until it is settled, and one that has none is in somebody's hands as long
\* as there was no database error and no crash.
THEOREM RetriesStayScheduled == Spec => []RetryIsScheduled
<1>1. Init => ScheduleInv
  BY DEF Init, ScheduleInv, OnceInv, RetryIsScheduled, Deliveries
<1>2. ScheduleInv => RetryIsScheduled
  BY DEF ScheduleInv
<1> QED
  BY <1>1, <1>2, ScheduleStep, InitTypeOK, StepTypeOK, PTL DEF Spec
=============================================================================
