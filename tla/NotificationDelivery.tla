------------------------ MODULE NotificationDelivery ------------------------
(***************************************************************************)
(* Delivery of notifications through channels (apps/notification-service): *)
(*                                                                         *)
(*   NotificationDispatcherService   inserts the notification of a user,   *)
(*                                   then, one channel after the other, a  *)
(*                                   delivery row and its first attempt    *)
(*   DeliveryRetryWorker             claims due rows under a lease, works  *)
(*                                   them one after the other              *)
(*   DeliveryExecutor                one attempt: calls the provider, then *)
(*                                   writes the outcome to the row         *)
(*                                                                         *)
(* Time is an action: a backoff or a lease may be over at any moment.      *)
(***************************************************************************)
EXTENDS Naturals, FiniteSets

CONSTANTS
    Instances,      \* processes of the service, each with its retry worker
    Notifications,  \* one per user and alarm
    Channels,       \* channels with a configured provider
    MaxAttempts,    \* NOTIF_MAX_DELIVERY_ATTEMPTS
    BatchSize,      \* NOTIF_RETRY_WORKER_BATCH_SIZE
    MaxMishaps,     \* bound: database errors and crashes in a behaviour
    None,           \* no instance
    Faults          \* kinds of trouble the environment may cause

\* db: an INSERT or UPDATE fails, committed or not; crash: an instance dies and
\* restarts; slow: a lease runs out while its batch is still being worked.
FaultKinds == {"db", "crash", "slow"}

ASSUME InstancesAssumption ==
    None \notin Instances /\ Instances \cap Notifications = {}
ASSUME BoundsAssumption ==
    MaxAttempts \in Nat \ {0} /\ BatchSize \in Nat \ {0} /\ MaxMishaps \in Nat
ASSUME FaultsAssumption == Faults \subseteq FaultKinds

Deliveries == Notifications \X Channels
Actors == Instances \cup Notifications   \* retry workers, and dispatches
Outcomes == {"ok", "permanent", "transient"}

VARIABLES
    home,      \* home[n]: instance that inserted notification n
    todo,      \* todo[n]: channels its dispatch has still to begin
    status,    \* status[d]: "none" before the INSERT, then the row's status
    attempts,  \* attempts[d]: the row's attempts
    next,      \* next[d]: next_attempt_at is NULL, in the future or past
    work,      \* copies of rows in the hands of dispatches and workers
    calls,     \* calls[d]: calls of the provider (history)
    answers,   \* answers[d]: what the provider ever answered (history)
    mishaps    \* database errors and crashes so far

row == <<status, attempts, next>>
history == <<calls, answers>>
vars == <<home, todo, status, attempts, next, work, calls, answers, mishaps>>

\* A copy of a row: who has it, its attempts when read, and how far the attempt
\* is; "call" until the provider has answered.
Item == [by: Actors, d: Deliveries, n: Nat, step: {"call"} \cup Outcomes]

HandOf(a) == {w \in work : w.by = a}
Due == {d \in Deliveries : status[d] = "PENDING" /\ next[d] = "past"}

Mishap(kind) ==
    /\ kind \in Faults /\ mishaps < MaxMishaps
    /\ mishaps' = mishaps + 1

-----------------------------------------------------------------------------
(* NotificationDispatcherService *)

\* dispatchToRecipient up to the INSERT of the notification.  A second dispatch
\* of n meets the unique constraint and returns, as one whose INSERT fails does.
Dispatch(n, i, C) ==
    /\ home[n] = None
    /\ home' = [home EXCEPT ![n] = i]
    /\ todo' = [todo EXCEPT ![n] = C]
    /\ UNCHANGED <<row, work, history, mishaps>>

\* NotificationRepository.create returns false on any error: the dispatch ends,
\* here after an INSERT that was committed.
DispatchFails(n, i) ==
    /\ home[n] = None /\ Mishap("db")
    /\ home' = [home EXCEPT ![n] = i]
    /\ UNCHANGED <<todo, row, work, history>>

\* The INSERT of a delivery: PENDING, no attempts, next_attempt_at NULL.
insert(d) ==
    /\ status' = [status EXCEPT ![d] = "PENDING"]
    /\ UNCHANGED <<attempts, next>>

\* The next channel of the loop; its first attempt begins at once.
CreateDelivery(n, c) ==
    /\ c \in todo[n] /\ HandOf(n) = {}
    /\ insert(<<n, c>>)
    /\ todo' = [todo EXCEPT ![n] = @ \ {c}]
    /\ work' = work \cup {[by |-> n, d |-> <<n, c>>, n |-> 0, step |-> "call"]}
    /\ UNCHANGED <<home, history, mishaps>>

\* An error of the INSERT, committed or not, ends the loop over the channels.
CreateFails(n, c) ==
    /\ c \in todo[n] /\ HandOf(n) = {} /\ Mishap("db")
    /\ insert(<<n, c>>) \/ UNCHANGED row
    /\ todo' = [todo EXCEPT ![n] = {}]
    /\ UNCHANGED <<home, work, history>>

-----------------------------------------------------------------------------
(* DeliveryRetryWorker and DeliveryExecutor *)

\* The copies a claim hands out.
copies(i, S) == {[by |-> i, d |-> d, n |-> attempts[d], step |-> "call"] : d \in S}

\* A faulty variant: claiming a row does not push its next attempt.
leased_Not(S) == next

\* A faulty variant: claiming a row takes it out of the schedule.
leased_ForGood(S) == [d \in Deliveries |-> IF d \in S THEN "null" ELSE next[d]]

\* The lease: next_attempt_at of the claimed rows is pushed past it.
leased(S) == [d \in Deliveries |-> IF d \in S THEN "future" ELSE next[d]]

\* tick: sweeps never overlap; claimDueDeliveries takes due rows up to the
\* batch size and pushes their next_attempt_at past the lease.
Claim(i, S) ==
    /\ HandOf(i) = {}
    /\ S \subseteq Due /\ S # {} /\ Cardinality(S) <= BatchSize
    /\ Cardinality(S) < BatchSize => S = Due
    /\ next' = leased(S)
    /\ work' = work \cup copies(i, S)
    /\ UNCHANGED <<home, todo, status, attempts, history, mishaps>>

\* execute: the provider is called, one item of a batch at a time, and answers.
\* An unclassified error counts as transient.
Deliver(w, o) ==
    /\ w.step = "call"
    /\ \A v \in HandOf(w.by) : v.step = "call"
    /\ work' = (work \ {w}) \cup {[w EXCEPT !.step = o]}
    /\ calls' = [calls EXCEPT ![w.d] = @ + 1]
    /\ answers' = [answers EXCEPT ![w.d] = @ \cup {o}]
    /\ UNCHANGED <<home, todo, row, mishaps>>

\* Faulty variants: the last attempt is recognised too late, or too early.
final_Late(w) == w.step = "permanent" \/ w.n + 1 > MaxAttempts
final_Early(w) == w.step = "permanent" \/ w.n + 2 >= MaxAttempts

\* A faulty variant: the attempt is counted before its outcome is known.
tried_Before(w) == w.n + 1

\* markFailed: no more attempts for the copy w.
final(w) == w.step = "permanent" \/ w.n + 1 >= MaxAttempts

\* markSent and markFailed on the copy w.
settled(w) == IF w.step = "ok" THEN "SENT" ELSE IF final(w) THEN "FAILED" ELSE "PENDING"
tried(w) == IF w.step = "ok" THEN w.n ELSE w.n + 1

\* Backoff for a further attempt, none for a settled row.
rescheduled(w) == IF settled(w) = "PENDING" THEN "future" ELSE "null"

\* updateStatus writes the whole copy, WHERE id = ? and nothing else.
updateStatus(w) ==
    /\ status' = [status EXCEPT ![w.d] = settled(w)]
    /\ attempts' = [attempts EXCEPT ![w.d] = tried(w)]
    /\ next' = [next EXCEPT ![w.d] = rescheduled(w)]

Update(w) ==
    /\ w.step \in Outcomes
    /\ updateStatus(w)
    /\ work' = work \ {w}
    /\ UNCHANGED <<home, todo, history, mishaps>>

\* An error of the UPDATE, committed or not: the worker goes on with its batch,
\* a dispatch ends and leaves its other channels alone.
UpdateFails(w) ==
    /\ w.step \in Outcomes /\ Mishap("db")
    /\ updateStatus(w) \/ UNCHANGED row
    /\ work' = work \ {w}
    /\ todo' = [n \in Notifications |-> IF n = w.by THEN {} ELSE todo[n]]
    /\ UNCHANGED <<home, history>>

-----------------------------------------------------------------------------
(* Time and crashes *)

\* A backoff or a lease is over.  A lease outlives the work on its batch
\* unless that is slow.
FallDue(d) ==
    /\ next[d] = "future"
    /\ (\E w \in work : w.d = d) => "slow" \in Faults
    /\ next' = [next EXCEPT ![d] = "past"]
    /\ UNCHANGED <<home, todo, status, attempts, work, history, mishaps>>

\* What instance i had in memory is gone: its batch and its dispatches.
Crash(i) ==
    /\ Mishap("crash")
    /\ work' = {w \in work : w.by # i /\ ~ \E n \in Notifications : w.by = n /\ home[n] = i}
    /\ todo' = [n \in Notifications |-> IF home[n] = i THEN {} ELSE todo[n]]
    /\ UNCHANGED <<home, row, history>>

-----------------------------------------------------------------------------
Init ==
    /\ home = [n \in Notifications |-> None]
    /\ todo = [n \in Notifications |-> {}]
    /\ status = [d \in Deliveries |-> "none"]
    /\ attempts = [d \in Deliveries |-> 0]
    /\ next = [d \in Deliveries |-> "null"]
    /\ work = {}
    /\ calls = [d \in Deliveries |-> 0]
    /\ answers = [d \in Deliveries |-> {}]
    /\ mishaps = 0

Dispatcher(n) ==
    \/ \E i \in Instances, C \in SUBSET Channels \ {{}} : Dispatch(n, i, C)
    \/ \E i \in Instances : DispatchFails(n, i)
    \/ \E c \in Channels : CreateDelivery(n, c) \/ CreateFails(n, c)

Executor ==
    \E w \in work : (\E o \in Outcomes : Deliver(w, o)) \/ Update(w) \/ UpdateFails(w)

Next ==
    \/ \E n \in Notifications : Dispatcher(n)
    \/ \E i \in Instances, S \in SUBSET Due : Claim(i, S)
    \/ Executor
    \/ \E d \in Deliveries : FallDue(d)
    \/ \E i \in Instances : Crash(i)

Spec == Init /\ [][Next]_vars

\* The sweep timer of an instance keeps firing, providers answer or fail, the
\* database answers, time passes.  Nothing is assumed of new dispatches.
Fairness ==
    /\ \A i \in Instances : WF_vars(\E S \in SUBSET Due : Claim(i, S))
    /\ \A a \in Actors : WF_vars(\E w \in HandOf(a) :
                                    Update(w) \/ \E o \in Outcomes : Deliver(w, o))
    /\ \A d \in Deliveries : WF_vars(FallDue(d))

FairSpec == Spec /\ Fairness

-----------------------------------------------------------------------------
(* Properties *)

\* The variables have their types; only a PENDING row has a next attempt, and
\* whoever works on a row has its INSERT behind it.
TypeOK ==
    /\ home \in [Notifications -> Instances \cup {None}]
    /\ todo \in [Notifications -> SUBSET Channels]
    /\ status \in [Deliveries -> {"none", "PENDING", "SENT", "FAILED"}]
    /\ attempts \in [Deliveries -> Nat]
    /\ next \in [Deliveries -> {"null", "future", "past"}]
    /\ work \subseteq Item
    /\ calls \in [Deliveries -> Nat]
    /\ answers \in [Deliveries -> SUBSET Outcomes]
    /\ mishaps \in Nat
    /\ \A d \in Deliveries : next[d] # "null" => status[d] = "PENDING"
    /\ \A w \in work : status[w.d] # "none"

\* "multiple instances never dispatch the same delivery simultaneously"
\* (delivery-retry-worker.ts): no two dispatches or workers hold one row, as
\* long as batches are worked within their lease.
ExclusiveAttempt == \A v, w \in work : v.d = w.d => v = w

\* However often rows are claimed again after a crash or a lost UPDATE, a
\* provider is called at most MaxAttempts times, and once more per mishap.
CallsAreBudgeted == \A d \in Deliveries : calls[d] <= MaxAttempts + mishaps

\* The audit trail is honest, whichever copies of a row were written in which
\* order: SENT rows were accepted by the provider, FAILED rows were refused for
\* good or tried MaxAttempts times.
OutcomeIsTrue ==
    \A d \in Deliveries :
        /\ status[d] = "SENT" => "ok" \in answers[d]
        /\ status[d] = "FAILED" => "permanent" \in answers[d] \/ calls[d] >= MaxAttempts

\* What a retry is owed: a PENDING row is on the schedule of the sweeps, unless its
\* first attempt is not on record; and then somebody is at it, unless a database
\* error or a crash has intervened.
RetryIsScheduled ==
    \A d \in Deliveries : status[d] = "PENDING" /\ next[d] = "null" =>
        attempts[d] = 0 /\ (mishaps = 0 => \E w \in work : w.d = d)

\* The unguarded updateStatus lets a row live only the life of the documented
\* state machine: SENT and FAILED are final, attempts are counted one by one.
Lifecycle == INSTANCE DeliveryLifecycle
    WITH Deliveries <- Deliveries, MaxAttempts <- MaxAttempts, status <- status,
         attempts <- attempts
LifecycleSpec == Lifecycle!Spec

\* A row that is scheduled for a retry is sent or given up, although instances
\* crash and updates fail: an unfinished claim is claimed again.
RetriesSettle ==
    \A d \in Deliveries : next[d] # "null" ~> status[d] \in {"SENT", "FAILED"}

-----------------------------------------------------------------------------
(* What the documents promise and the code does not keep *)

\* "PENDING --transient fail--> PENDING (next_attempt_at, exp. backoff)": a
\* delivery whose provider failed, and that nobody works on, is scheduled.
FailureIsRetried ==
    \A d \in Deliveries :
        (status[d] = "PENDING" /\ "transient" \in answers[d] /\ \A w \in work : w.d # d)
            => next[d] # "null"
=============================================================================
