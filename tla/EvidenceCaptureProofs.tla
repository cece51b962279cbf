------------------------- MODULE EvidenceCaptureProofs -------------------------
(***************************************************************************)
(* Proofs about EvidenceCapture: its type invariant, that a photo an       *)
(* operator is offered is there, that the device is asked for it once,     *)
(* that a row shows the photo of its own alarm or one that its unit        *)
(* uploaded under a name like it, and that no row is stranded while it is  *)
(* being fetched.                                                          *)
(***************************************************************************)
EXTENDS EvidenceCapture, FiniteSetTheorems, SequenceTheorems, TLAPS

-----------------------------------------------------------------------------
(* The types *)

WorkerRows == [pc : {"idle", "ask", "link", "fail"}, queue : Seq(Rows)]
AckRows == {NoAck} \cup [pc : {"acked", "failed", "find", "ready", "name", "fail"},
                         row : Rows, msg : Messages]

\* A worker between two ticks has no rows, one in a tick has some; an answer being
\* handled has found its row.
PcInv ==
    /\ \A w \in Workers : worker[w].pc = "idle" \/ worker[w].queue # <<>>
    /\ ack.pc # "idle" => ack.row \in Rows /\ ack.msg \in Messages

\* The tasks whose files are in a set.
TasksOf(files) ==
    [at : Workers, files : Seq(files) \ {<<>>}, step : {"name", "stem"}, again : BOOLEAN]

\* What an instance keeps or attaches has been uploaded.
KeptInv == unmatched \in [Workers -> Seq(uploaded)] /\ handling \subseteq TasksOf(uploaded)

TypeInv == TypeOK /\ PcInv /\ KeptInv

\* TypeOK without the files in hand, for which there is KeptInv.
Parts ==
    /\ status \in [Rows -> Statuses]
    /\ name \in [Rows -> Rows \cup {None}] /\ photo \in [Rows -> Rows \cup {None}]
    /\ linked \subseteq Rows
    /\ worker \in [Workers -> WorkerRows]
    /\ issued \in Seq(Rows) /\ open \subseteq Rows /\ answered \subseteq Rows
    /\ wire \subseteq Messages /\ ack \in AckRows
    /\ uploaded \subseteq Rows
    /\ habits \in HabitSets

LEMMA SeqOfMore ==
  ASSUME NEW S, NEW T, S \subseteq T PROVE Seq(S) \subseteq Seq(T)
<1> SUFFICES ASSUME NEW s \in Seq(S) PROVE s \in Seq(T)
  OBVIOUS
<1>1. Len(s) \in Nat /\ s \in [1 .. Len(s) -> S]
  OBVIOUS
<1>2. s \in [1 .. Len(s) -> T]
  BY <1>1
<1> QED
  BY <1>1, <1>2, SeqDef

LEMMA TasksOfMore ==
  ASSUME NEW S, NEW T, S \subseteq T PROVE TasksOf(S) \subseteq TasksOf(T)
<1>1. Seq(S) \subseteq Seq(T)
  BY SeqOfMore
<1> QED
  BY <1>1 DEF TasksOf

LEMMA Typed == TypeInv <=> Parts /\ PcInv /\ KeptInv
<1>1. TypeOK => Parts
  BY Zenon DEF TypeOK, Parts, WorkerRows, AckRows
<1>2. ASSUME Parts, KeptInv PROVE TypeOK
  <2>1. uploaded \subseteq Rows
    BY <1>2 DEF Parts
  <2>2. Seq(uploaded) \subseteq Seq(Rows) /\ TasksOf(uploaded) \subseteq TasksOf(Rows)
    BY <2>1, SeqOfMore, TasksOfMore
  <2>3. unmatched \in [Workers -> Seq(Rows)]
    BY ONLY <1>2, <2>2 DEF KeptInv
  <2>4. handling \subseteq Tasks
    BY ONLY <1>2, <2>2 DEF KeptInv, Tasks, TasksOf
  <2> QED
    BY <1>2, <2>3, <2>4, Zenon DEF TypeOK, Parts, WorkerRows, AckRows
<1> QED
  BY <1>1, <1>2 DEF TypeInv

LEMMA TypedNext == TypeInv' <=> Parts' /\ PcInv' /\ KeptInv'
<1>1. TypeOK' => Parts'
  BY Zenon DEF TypeOK, Parts, WorkerRows, AckRows
<1>2. ASSUME Parts', KeptInv' PROVE TypeOK'
  <2>1. uploaded' \subseteq Rows
    BY <1>2 DEF Parts
  <2>2. Seq(uploaded') \subseteq Seq(Rows) /\ TasksOf(uploaded') \subseteq TasksOf(Rows)
    BY <2>1, SeqOfMore, TasksOfMore
  <2>3. unmatched' \in [Workers -> Seq(Rows)]
    BY ONLY <1>2, <2>2 DEF KeptInv
  <2>4. handling' \subseteq Tasks
    BY ONLY <1>2, <2>2 DEF KeptInv, Tasks, TasksOf
  <2> QED
    BY <1>2, <2>3, <2>4, Zenon DEF TypeOK, Parts, WorkerRows, AckRows
<1> QED
  BY <1>1, <1>2 DEF TypeInv

LEMMA TypeInit == Init => TypeInv
<1> SUFFICES ASSUME Init PROVE TypeInv
  OBVIOUS
<1> USE DEF Init, Resting
<1>1. Parts
  BY DEF Parts, Statuses, WorkerRows, AckRows
<1>2. PcInv
  BY DEF PcInv, NoAck
<1>3. KeptInv
  BY DEF KeptInv
<1> QED
  BY <1>1, <1>2, <1>3, Typed

-----------------------------------------------------------------------------
(* Who changes what *)

LEMMA InsertFrame ==
  ASSUME NEW r \in Rows, Insert(r)
  PROVE  UNCHANGED <<photo, linked, worker, issued, open, answered, wire, ack, unmatched,
                     handling, uploaded, habits>>
  BY Zenon DEF Insert, commands, device, ftp

LEMMA DeviceFrame ==
  ASSUME NEW r \in Rows, Answer(r) \/ Expire(r)
  PROVE  /\ UNCHANGED <<status, name, photo, linked, worker, issued, ack, unmatched, handling,
                        uploaded, habits>>
         /\ Answer(r) => UNCHANGED open
         /\ Expire(r) => UNCHANGED <<answered, wire>>
  BY DEF Answer, Expire, evidence, commands, device, ftp

LEMMA TickFrame ==
  ASSUME NEW w \in Workers, Tick(w) \/ TickFails(w)
  PROVE  UNCHANGED <<name, photo, answered, wire, ack, unmatched, handling, uploaded, habits>>
  BY DEF Tick, TickFails, Claim, Ask, AskFails, Link, LinkFails, MarkFailed, evidence, commands,
         device, ftp

LEMMA CrashFrame ==
  ASSUME NEW w \in Workers, Crash(w)
  PROVE  /\ "crash" \in habits /\ worker' = [worker EXCEPT ![w] = Resting]
         /\ UNCHANGED <<status, name, photo, linked, issued, open, answered, uploaded, habits>>
         /\ UNCHANGED <<ack, wire>> \/ (ack # NoAck /\ ack' = NoAck /\ wire' = wire \cup {ack.msg})
  BY Zenon DEF Crash, evidence, commands

LEMMA ConsumeFrame ==
  ASSUME Consume
  PROVE  UNCHANGED <<linked, worker, issued, answered, unmatched, handling, uploaded, habits>>
  BY DEF Consume, Receive, CloseCommand, FindByCommand, MarkReady, MarkReadyByName, Attach,
         FailByCommand, Swallow, evidence, commands, device, ftp

\* The consumer up to the row's statements.
LEMMA ReceiveFrame ==
  ASSUME (\E m \in wire : Receive(m)) \/ CloseCommand \/ FindByCommand \/ Swallow
  PROVE  UNCHANGED <<status, name, photo>>
  BY DEF Receive, CloseCommand, FindByCommand, Swallow, evidence, commands, device, ftp

\* What FtpPhotoIngest does.
Ftp == \/ \E w \in Workers : Splice(w) \/ \E f \in Rows : Upload(w, f)
       \/ \E f \in Rows : Ingest(f)

\* File f is attached to the rows it is taken to be of.
AttachAlike(f) == \E names \in {{f}, Alike[f]} : Attach(Waiting(names), f)

LEMMA TaskFile ==
  ASSUME NEW S, NEW t \in TasksOf(S) PROVE File(t) \in S
<1>1. t.files \in Seq(S) /\ t.files # <<>>
  BY DEF TasksOf
<1> QED
  BY <1>1, HeadTailProperties DEF File

LEMMA IngestFrame ==
  ASSUME TypeInv, NEW t \in handling, AttachByName(t) \/ AttachByStem(t) \/ AttachFails(t)
  PROVE  /\ UNCHANGED <<name, linked, worker, issued, open, answered, wire, ack, uploaded, habits>>
         /\ UNCHANGED <<status, photo>> \/ AttachAlike(File(t))
         /\ File(t) \in uploaded
         /\ AttachFails(t) => "store" \in habits
<1>1. File(t) \in uploaded
  BY TaskFile DEF TypeInv, KeptInv
<1>2. AttachFails(t) => UNCHANGED <<status, photo, name, linked>> /\ "store" \in habits
  BY DEF AttachFails, evidence
<1>3. AttachByName(t) => Attach(Waiting({File(t)}), File(t))
  BY DEF AttachByName
<1>4. AttachByStem(t) => Attach(Waiting(Alike[File(t)]), File(t))
  BY DEF AttachByStem
<1>5. UNCHANGED <<worker, issued, open, answered, wire, ack, uploaded, habits>>
  BY Zenon DEF AttachByName, AttachByStem, AttachFails, commands, device
<1>6. UNCHANGED <<name, linked>>
  BY <1>2, <1>3, <1>4 DEF Attach
<1>7. UNCHANGED <<status, photo>> \/ AttachAlike(File(t))
  BY <1>2, <1>3, <1>4 DEF AttachAlike
<1> QED
  BY <1>1, <1>2, <1>5, <1>6, <1>7

LEMMA FtpFrame ==
  ASSUME TypeInv, Ftp
  PROVE  /\ UNCHANGED <<name, linked, worker, issued, open, answered, wire, ack, habits>>
         /\ uploaded \subseteq uploaded'
         /\ UNCHANGED <<status, photo>> \/ \E f \in uploaded : AttachAlike(f)
<1>1. ASSUME NEW w \in Workers, NEW f \in Rows, Upload(w, f)
      PROVE  /\ UNCHANGED <<name, linked, worker, issued, open, answered, wire, ack, habits>>
             /\ UNCHANGED <<status, photo>> /\ uploaded \subseteq uploaded'
  BY <1>1 DEF Upload, evidence, commands, device
<1>2. ASSUME NEW w \in Workers, Splice(w)
      PROVE  /\ UNCHANGED <<name, linked, worker, issued, open, answered, wire, ack, habits>>
             /\ UNCHANGED <<status, photo>> /\ uploaded \subseteq uploaded'
  BY <1>2 DEF Splice, evidence, commands, device
<1>3. CASE \E f \in Rows : Ingest(f)
  <2>1. PICK t \in handling : AttachByName(t) \/ AttachByStem(t) \/ AttachFails(t)
    BY <1>3 DEF Ingest
  <2> QED
    BY <2>1, IngestFrame
<1> QED
  BY <1>1, <1>2, <1>3 DEF Ftp

-----------------------------------------------------------------------------
(* Type correctness *)

\* The rows of a batch are claimable rows, each once.
LEMMA BatchOfRows ==
  ASSUME NEW q \in Batches
  PROVE  /\ q \in Seq(Rows)
         /\ \A i \in 1 .. Len(q) : q[i] \in claimable
         /\ \A i, j \in 1 .. Len(q) : i # j => q[i] # q[j]
<1> DEFINE oldest == {r \in claimable : Cardinality({p \in claimable : p < r}) < BatchSize}
<1>1. /\ oldest \subseteq claimable /\ claimable \subseteq Rows /\ IsFiniteSet(oldest)
      /\ Cardinality(oldest) \in Nat
  BY RowsAssumption, FS_Subset, FS_CardinalityType DEF claimable
<1>2. q \in [1 .. Cardinality(oldest) -> oldest]
      /\ \A i, j \in DOMAIN q : i < j => q[i] < q[j]
  BY DEF Batches
<1> HIDE DEF oldest
<1>3. q \in Seq(oldest) /\ Len(q) = Cardinality(oldest)
  BY <1>1, <1>2
<1>4. q \in Seq(Rows) /\ \A i \in 1 .. Len(q) : q[i] \in claimable
  BY <1>1, <1>2, <1>3
<1>5. ASSUME NEW i \in 1 .. Len(q), NEW j \in 1 .. Len(q), i # j PROVE q[i] # q[j]
  <2>1. q[i] \in Nat /\ q[j] \in Nat
    BY <1>1, <1>4, RowsAssumption
  <2>2. i < j \/ j < i
    BY <1>5
  <2> QED
    BY <1>2, <1>3, <2>1, <2>2
<1> QED
  BY <1>4, <1>5

LEMMA LongerQueue ==
  ASSUME NEW S, NEW q \in Seq(S), q # <<>>, Len(q) # 1
  PROVE  Tail(q) \in Seq(S) /\ Tail(q) # <<>>
<1>1. Len(q) \in Nat /\ Len(q) # 0
  OBVIOUS
<1>2. Tail(q) \in Seq(S) /\ Len(Tail(q)) = Len(q) - 1
  BY HeadTailProperties
<1>3. Len(Tail(q)) # 0
  BY ONLY <1>1, <1>2, Len(q) # 1
<1>4. Tail(q) # <<>>
  BY ONLY <1>3, EmptySeq
<1> QED
  BY <1>2, <1>4

\* The worker turns to the next row of its batch.
LEMMA RestType ==
  ASSUME TypeInv, NEW w \in Workers, worker[w].pc # "idle", Rest(w)
  PROVE  /\ worker' \in [Workers -> WorkerRows]
         /\ \A v \in Workers : worker'[v].pc = "idle" \/ worker'[v].queue # <<>>
<1>1. /\ worker \in [Workers -> WorkerRows]
      /\ \A v \in Workers : worker[v].pc = "idle" \/ worker[v].queue # <<>>
  BY Typed DEF Parts, PcInv
<1>2. worker[w].queue \in Seq(Rows) /\ worker[w].queue # <<>>
  BY <1>1 DEF WorkerRows
<1> DEFINE next == IF Len(worker[w].queue) = 1 THEN Resting
                   ELSE [pc |-> "ask", queue |-> Tail(worker[w].queue)]
<1>3. worker' = [worker EXCEPT ![w] = next]
  BY DEF Rest
<1>4. /\ next \in WorkerRows
      /\ next.pc = "idle" \/ next.queue # <<>>
  <2>1. CASE Len(worker[w].queue) = 1
    BY <2>1 DEF Resting, WorkerRows
  <2>2. CASE Len(worker[w].queue) # 1
    <3>1. Tail(worker[w].queue) \in Seq(Rows) /\ Tail(worker[w].queue) # <<>>
      BY <1>2, <2>2, LongerQueue
    <3> QED
      BY <2>2, <3>1 DEF WorkerRows
  <2> QED
    BY <2>1, <2>2
<1> HIDE DEF next
<1> QED
  BY ONLY <1>1, <1>3, <1>4, w \in Workers

\* A photo goes to rows that wait for it.
LEMMA AttachType ==
  ASSUME TypeInv, NEW rows, NEW f \in Rows, Attach(rows, f)
  PROVE  /\ status' \in [Rows -> Statuses] /\ photo' \in [Rows -> Rows \cup {None}]
         /\ UNCHANGED <<name, linked>>
<1>1. status \in [Rows -> Statuses] /\ photo \in [Rows -> Rows \cup {None}]
  BY Typed DEF Parts
<1> QED
  BY <1>1 DEF Attach, Statuses

\* A worker goes on to pc with the batch it has.
LEMMA TurnType ==
  ASSUME TypeInv, NEW w \in Workers, worker[w].pc # "idle",
         NEW pc \in {"ask", "link", "fail"}, worker' = [worker EXCEPT ![w].pc = pc]
  PROVE  /\ worker' \in [Workers -> WorkerRows]
         /\ \A v \in Workers : worker'[v].pc = "idle" \/ worker'[v].queue # <<>>
<1>1. /\ worker \in [Workers -> WorkerRows]
      /\ \A v \in Workers : worker[v].pc = "idle" \/ worker[v].queue # <<>>
  BY Typed DEF Parts, PcInv
<1>2. worker' \in [Workers -> WorkerRows]
  BY ONLY <1>1, worker' = [worker EXCEPT ![w].pc = pc] DEF WorkerRows
<1>3. ASSUME NEW v \in Workers PROVE worker'[v].pc = "idle" \/ worker'[v].queue # <<>>
  <2>1. CASE v = w
    BY ONLY <1>1, <2>1, worker[w].pc # "idle", w \in Workers,
            worker' = [worker EXCEPT ![w].pc = pc] DEF WorkerRows
  <2>2. CASE v # w
    BY <1>1, <2>2
  <2> QED
    BY <2>1, <2>2
<1> QED
  BY <1>2, <1>3

\* A worker drops its batch.
LEMMA RestingType ==
  ASSUME TypeInv, NEW w \in Workers, worker' = [worker EXCEPT ![w] = Resting]
  PROVE  /\ worker' \in [Workers -> WorkerRows]
         /\ \A v \in Workers : worker'[v].pc = "idle" \/ worker'[v].queue # <<>>
<1>1. /\ worker \in [Workers -> WorkerRows]
      /\ \A v \in Workers : worker[v].pc = "idle" \/ worker[v].queue # <<>>
  BY Typed DEF Parts, PcInv
<1>2. Resting \in WorkerRows /\ Resting.pc = "idle"
  BY DEF Resting, WorkerRows
<1> QED
  BY ONLY <1>1, <1>2, worker' = [worker EXCEPT ![w] = Resting], w \in Workers

\* The next file of a batch is one of the same files.
LEMMA TurnKept ==
  ASSUME TypeInv, NEW t \in handling, Turn(t)
  PROVE  handling' \subseteq TasksOf(uploaded)
<1>1. t \in TasksOf(uploaded) /\ handling \subseteq TasksOf(uploaded)
  BY DEF TypeInv, KeptInv
<1>2. t.files \in Seq(uploaded) /\ t.files # <<>>
  BY <1>1 DEF TasksOf
<1>3. CASE Len(t.files) = 1
  BY <1>1, <1>3 DEF Turn
<1>4. CASE Len(t.files) # 1
  <2>1. Tail(t.files) \in Seq(uploaded) \ {<<>>}
    BY <1>2, <1>4, LongerQueue
  <2>2. [t EXCEPT !.files = Tail(@), !.step = "name"] \in TasksOf(uploaded)
    BY ONLY <1>1, <2>1 DEF TasksOf
  <2>3. handling' = (handling \ {t}) \cup {[t EXCEPT !.files = Tail(@), !.step = "name"]}
    BY ONLY <1>4, Turn(t) DEF Turn
  <2> QED
    BY ONLY <1>1, <2>2, <2>3
<1> QED
  BY <1>3, <1>4

LEMMA UnfoundKept ==
  ASSUME TypeInv, NEW t \in handling, Unfound(t), UNCHANGED uploaded PROVE KeptInv'
<1>1. unmatched \in [Workers -> Seq(uploaded)] /\ t \in TasksOf(uploaded)
  BY DEF TypeInv, KeptInv
<1>2. handling' \subseteq TasksOf(uploaded)
  BY TurnKept DEF Unfound, Keep
<1>3. CASE UNCHANGED unmatched
  BY <1>1, <1>2, <1>3 DEF KeptInv
<1>4. CASE Keep(t)
  <2>1. File(t) \in uploaded /\ t.at \in Workers
    BY <1>1, TaskFile DEF TasksOf
  <2> DEFINE q == unmatched[t.at]
             kept == Append(IF ~t.again /\ Len(q) >= MaxUnmatched THEN Tail(q) ELSE q, File(t))
  <2>2. q \in Seq(uploaded)
    BY <1>1, <2>1
  <2>3. unmatched' = [unmatched EXCEPT ![t.at] = kept]
    BY <1>4 DEF Keep
  <2>4. Len(q) >= MaxUnmatched => Tail(q) \in Seq(uploaded)
    <3>1. Len(q) >= MaxUnmatched => q # <<>>
      BY <2>2, UnmatchedAssumption, EmptySeq
    <3> QED
      BY <2>2, <3>1, HeadTailProperties
  <2>5. kept \in Seq(uploaded)
    <3>1. (IF ~t.again /\ Len(q) >= MaxUnmatched THEN Tail(q) ELSE q) \in Seq(uploaded)
      BY <2>2, <2>4
    <3> QED
      BY <2>1, <3>1
  <2> HIDE DEF kept
  <2>6. unmatched' \in [Workers -> Seq(uploaded)]
    BY ONLY <1>1, <2>1, <2>3, <2>5
  <2> QED
    BY <1>2, <2>6 DEF KeptInv
<1> QED
  BY <1>3, <1>4 DEF Unfound

LEMMA IngestKept ==
  ASSUME TypeInv, NEW t \in handling, AttachByName(t) \/ AttachByStem(t) \/ AttachFails(t)
  PROVE  KeptInv'
<1>1. /\ unmatched \in [Workers -> Seq(uploaded)] /\ handling \subseteq TasksOf(uploaded)
      /\ t \in TasksOf(uploaded)
  BY DEF TypeInv, KeptInv
<1>2. UNCHANGED uploaded
  BY IngestFrame
<1>3. CASE Unfound(t)
  BY <1>2, <1>3, UnfoundKept
<1>4. CASE Turn(t) /\ UNCHANGED unmatched
  BY <1>1, <1>2, <1>4, TurnKept DEF KeptInv
<1>5. CASE UNCHANGED unmatched /\ handling' = (handling \ {t}) \cup {[t EXCEPT !.step = "stem"]}
  <2>1. [t EXCEPT !.step = "stem"] \in TasksOf(uploaded)
    BY ONLY <1>1 DEF TasksOf
  <2> QED
    BY <1>1, <1>2, <1>5, <2>1 DEF KeptInv
<1>6. AttachByName(t) => \/ Turn(t) /\ UNCHANGED unmatched
                         \/ UNCHANGED unmatched
                            /\ handling' = (handling \ {t}) \cup {[t EXCEPT !.step = "stem"]}
  BY DEF AttachByName
<1>7. AttachByStem(t) \/ AttachFails(t) => Unfound(t) \/ (Turn(t) /\ UNCHANGED unmatched)
  BY DEF AttachByStem, AttachFails
<1> QED
  BY <1>3, <1>4, <1>5, <1>6, <1>7

LEMMA FtpKept ==
  ASSUME TypeInv, Ftp PROVE uploaded' \subseteq Rows /\ KeptInv'
<1>0. /\ unmatched \in [Workers -> Seq(uploaded)] /\ handling \subseteq TasksOf(uploaded)
      /\ uploaded \subseteq Rows
  BY DEF TypeInv, TypeOK, KeptInv
<1>1. ASSUME NEW w \in Workers, NEW f \in Rows, Upload(w, f)
      PROVE  uploaded' \subseteq Rows /\ KeptInv'
  <2>1. /\ uploaded' = uploaded \cup {f} /\ UNCHANGED unmatched
        /\ handling' = handling \cup
             {[at |-> w, files |-> <<f>>, step |-> "name", again |-> FALSE]}
    BY <1>1 DEF Upload
  <2>2. Seq(uploaded) \subseteq Seq(uploaded') /\ TasksOf(uploaded) \subseteq TasksOf(uploaded')
    BY <2>1, SeqOfMore, TasksOfMore
  <2>3. [at |-> w, files |-> <<f>>, step |-> "name", again |-> FALSE] \in TasksOf(uploaded')
    <3>1. <<f>> \in Seq(uploaded') /\ <<f>> # <<>>
      BY <2>1
    <3> QED
      BY ONLY <3>1, w \in Workers DEF TasksOf
  <2>4. unmatched \in [Workers -> Seq(uploaded')]
    BY ONLY <1>0, <2>2
  <2>5. handling' \subseteq TasksOf(uploaded')
    BY ONLY <1>0, <2>1, <2>2, <2>3
  <2>6. uploaded' \subseteq Rows
    BY ONLY <1>0, <2>1, f \in Rows
  <2> QED
    BY <2>1, <2>4, <2>5, <2>6 DEF KeptInv
<1>2. ASSUME NEW w \in Workers, Splice(w) PROVE uploaded' \subseteq Rows /\ KeptInv'
  <2>1. /\ uploaded' = uploaded /\ unmatched[w] # <<>>
        /\ unmatched' = [unmatched EXCEPT ![w] = <<>>]
        /\ handling' = handling \cup
             {[at |-> w, files |-> unmatched[w], step |-> "name", again |-> TRUE]}
    BY <1>2 DEF Splice
  <2>2. [at |-> w, files |-> unmatched[w], step |-> "name", again |-> TRUE] \in TasksOf(uploaded)
    <3>1. unmatched[w] \in Seq(uploaded) \ {<<>>}
      BY <1>0, <2>1
    <3> QED
      BY ONLY <3>1, w \in Workers DEF TasksOf
  <2>3. unmatched' \in [Workers -> Seq(uploaded)]
    BY <1>0, <2>1
  <2> QED
    BY <1>0, <2>1, <2>2, <2>3 DEF KeptInv
<1>3. CASE \E f \in Rows : Ingest(f)
  <2>1. PICK t \in handling : AttachByName(t) \/ AttachByStem(t) \/ AttachFails(t)
    BY <1>3 DEF Ingest
  <2> QED
    BY <1>0, <2>1, IngestFrame, IngestKept
<1> QED
  BY <1>1, <1>2, <1>3 DEF Ftp

LEMMA TypeStep == TypeInv /\ [Next]_vars => TypeInv'
<1> SUFFICES ASSUME TypeInv, [Next]_vars PROVE TypeInv'
  OBVIOUS
<1>a. Parts /\ PcInv /\ KeptInv
  BY Typed
<1>b. Parts' /\ PcInv' /\ KeptInv' => TypeInv'
  BY TypedNext
<1>c. ASSUME UNCHANGED <<unmatched, handling, uploaded>> PROVE KeptInv'
  BY <1>a, <1>c DEF KeptInv
<1> USE RowsAssumption
<1>1. ASSUME NEW r \in Rows, Insert(r) PROVE TypeInv'
  <2>1. \/ status' = [status EXCEPT ![r] = "PENDING"]
        \/ status' = [status EXCEPT ![r] = "SKIPPED_COOLDOWN"]
        \/ status' = [status EXCEPT ![r] = "PHOTO_MISSING"]
    BY <1>1, Zenon DEF Insert
  <2>2. name' = [name EXCEPT ![r] = r] \/ name' = name
    BY <1>1, Zenon DEF Insert
  <2>3. status \in [Rows -> Statuses] /\ name \in [Rows -> Rows \cup {None}]
    BY <1>a DEF Parts
  <2>4. status' \in [Rows -> Statuses] /\ name' \in [Rows -> Rows \cup {None}]
    BY ONLY <2>1, <2>2, <2>3, r \in Rows DEF Statuses
  <2>5. UNCHANGED <<photo, linked, worker, issued, open, answered, wire, ack, unmatched,
                    handling, uploaded, habits>>
    BY <1>1, InsertFrame
  <2>6. Parts' /\ PcInv'
    BY <1>a, <2>4, <2>5 DEF Parts, PcInv
  <2> QED
    BY <1>b, <1>c, <2>5, <2>6
<1>2. ASSUME NEW r \in Rows, Answer(r) PROVE TypeInv'
  <2>1. PICK kind \in {"photo", "error", "rejected"} :
          wire' = wire \cup {[row |-> r, kind |-> kind]}
    BY <1>2 DEF Answer
  <2>2. wire' \subseteq Messages
    BY <1>a, <2>1 DEF Parts, Messages
  <2>3. answered' \subseteq Rows
    BY <1>2, <1>a DEF Answer, Parts
  <2>4. UNCHANGED <<status, name, photo, linked, worker, issued, open, ack, unmatched, handling,
                    uploaded, habits>>
    BY <1>2, DeviceFrame
  <2>5. Parts' /\ PcInv'
    BY <1>a, <2>2, <2>3, <2>4 DEF Parts, PcInv
  <2> QED
    BY <1>b, <1>c, <2>4, <2>5
<1>3. ASSUME NEW r \in Rows, Expire(r) PROVE TypeInv'
  <2>1. UNCHANGED <<status, name, photo, linked, worker, issued, answered, wire, ack, unmatched,
                    handling, uploaded, habits>>
    BY <1>3, DeviceFrame
  <2>2. open' \subseteq Rows
    BY <1>3, <1>a DEF Expire, Parts
  <2>3. Parts' /\ PcInv'
    BY <1>a, <2>1, <2>2 DEF Parts, PcInv
  <2> QED
    BY <1>b, <1>c, <2>1, <2>3
<1>4. ASSUME Ftp PROVE TypeInv'
  <2>1. UNCHANGED <<name, linked, worker, issued, open, answered, wire, ack, habits>>
    BY <1>4, FtpFrame
  <2>2. status' \in [Rows -> Statuses] /\ photo' \in [Rows -> Rows \cup {None}]
    <3>1. CASE UNCHANGED <<status, photo>>
      BY <1>a, <3>1 DEF Parts
    <3>2. CASE \E f \in uploaded : AttachAlike(f)
      <4>1. PICK f \in uploaded : AttachAlike(f)
        BY <3>2
      <4>2. f \in Rows
        BY <1>a DEF Parts
      <4> QED
        BY <4>1, <4>2, AttachType DEF AttachAlike
    <3> QED
      BY <1>4, <3>1, <3>2, FtpFrame
  <2>3. uploaded' \subseteq Rows /\ KeptInv'
    BY <1>4, FtpKept
  <2>4. Parts' /\ PcInv'
    BY <1>a, <2>1, <2>2, <2>3 DEF Parts, PcInv
  <2> QED
    BY <1>b, <2>3, <2>4
<1>5. ASSUME NEW w \in Workers, worker[w].pc # "idle" PROVE Row(w) \in Rows
  BY <1>5, <1>a, HeadTailProperties DEF Row, Parts, PcInv, WorkerRows
<1>6. ASSUME NEW w \in Workers, Tick(w) \/ TickFails(w) PROVE TypeInv'
  <2>1. UNCHANGED <<name, photo, answered, wire, ack, unmatched, handling, uploaded, habits>>
    BY <1>6, TickFrame
  <2>2. ASSUME /\ status' \in [Rows -> Statuses] /\ linked' \subseteq Rows
               /\ issued' \in Seq(Rows) /\ open' \subseteq Rows
               /\ worker' \in [Workers -> WorkerRows]
               /\ \A v \in Workers : worker'[v].pc = "idle" \/ worker'[v].queue # <<>>
        PROVE  TypeInv'
    <3>1. Parts' /\ PcInv'
      BY <1>a, <2>1, <2>2 DEF Parts, PcInv
    <3> QED
      BY <1>b, <1>c, <2>1, <3>1
  <2>3. CASE Claim(w)
    <3>1. PICK q \in Batches \ {<<>>} :
            /\ worker' = [worker EXCEPT ![w] = [pc |-> "ask", queue |-> q]]
            /\ status' = [r \in Rows |-> IF \E i \in DOMAIN q : q[i] = r THEN "FETCHING"
                                         ELSE status[r]]
      BY <2>3 DEF Claim
    <3>2. q \in Seq(Rows) /\ q # <<>>
      BY BatchOfRows
    <3>3. status' \in [Rows -> Statuses]
      BY <1>a, <3>1 DEF Parts, Statuses
    <3>4. worker' \in [Workers -> WorkerRows]
      BY <1>a, <3>1, <3>2 DEF Parts, WorkerRows
    <3>5. \A v \in Workers : worker'[v].pc = "idle" \/ worker'[v].queue # <<>>
      BY <1>a, <3>1, <3>2 DEF Parts, PcInv
    <3>6. UNCHANGED <<linked, issued, open>>
      BY <2>3 DEF Claim, commands
    <3> QED
      BY <1>a, <2>2, <3>3, <3>4, <3>5, <3>6 DEF Parts
  <2>4. CASE Ask(w)
    <3>1. Row(w) \in Rows
      BY <1>5, <2>4 DEF Ask
    <3>2. issued' \in Seq(Rows) /\ open' \subseteq Rows
      BY <2>4, <1>a, <3>1 DEF Ask, Parts
    <3>3. /\ worker' \in [Workers -> WorkerRows]
          /\ \A v \in Workers : worker'[v].pc = "idle" \/ worker'[v].queue # <<>>
      BY <2>4, TurnType DEF Ask
    <3>4. UNCHANGED <<status, linked>>
      BY <2>4 DEF Ask, evidence
    <3> QED
      BY <1>a, <2>2, <3>2, <3>3, <3>4 DEF Parts
  <2>5. CASE AskFails(w) \/ LinkFails(w)
    <3>1. worker' = [worker EXCEPT ![w].pc = "fail"] /\ worker[w].pc # "idle"
      BY <2>5 DEF AskFails, LinkFails
    <3>2. /\ worker' \in [Workers -> WorkerRows]
          /\ \A v \in Workers : worker'[v].pc = "idle" \/ worker'[v].queue # <<>>
      BY <3>1, TurnType
    <3>3. UNCHANGED <<status, linked, issued, open>>
      BY <2>5 DEF AskFails, LinkFails, evidence, commands
    <3> QED
      BY <1>a, <2>2, <3>2, <3>3 DEF Parts
  <2>6. CASE Link(w) \/ MarkFailed(w)
    <3>1. worker[w].pc # "idle" /\ Rest(w)
      BY <2>6 DEF Link, MarkFailed
    <3>2. Row(w) \in Rows
      BY <1>5, <3>1
    <3>3. status' \in [Rows -> Statuses] /\ linked' \subseteq Rows
      BY <2>6, <1>a, <3>2 DEF Link, MarkFailed, Parts, Statuses
    <3>4. UNCHANGED <<issued, open>>
      BY <2>6 DEF Link, MarkFailed, commands
    <3>5. /\ worker' \in [Workers -> WorkerRows]
          /\ \A v \in Workers : worker'[v].pc = "idle" \/ worker'[v].queue # <<>>
      BY <3>1, RestType
    <3> QED
      BY <1>a, <2>2, <3>3, <3>4, <3>5 DEF Parts
  <2>7. CASE TickFails(w)
    <3>1. worker' = [worker EXCEPT ![w] = Resting] /\ UNCHANGED <<status, linked, issued, open>>
      BY <2>7 DEF TickFails, evidence, commands
    <3> QED
      BY <1>a, <2>2, <3>1, RestingType DEF Parts
  <2> QED
    BY <1>6, <2>3, <2>4, <2>5, <2>6, <2>7 DEF Tick
<1>7. ASSUME NEW w \in Workers, Crash(w) PROVE TypeInv'
  <2>1. /\ UNCHANGED <<status, name, photo, linked, issued, open, answered, uploaded, habits>>
        /\ worker' = [worker EXCEPT ![w] = Resting]
        /\ UNCHANGED <<ack, wire>> \/ (ack # NoAck /\ ack' = NoAck /\ wire' = wire \cup {ack.msg})
    BY <1>7, CrashFrame
  <2>2. ack # NoAck => ack.pc # "idle"
    BY <1>a DEF Parts, AckRows
  <2>3. /\ wire' \subseteq Messages /\ ack' \in AckRows
        /\ ack'.pc # "idle" => ack'.row \in Rows /\ ack'.msg \in Messages
    BY <1>a, <2>1, <2>2 DEF Parts, PcInv, AckRows, NoAck
  <2>4. Parts' /\ PcInv'
    BY <1>a, <2>1, <2>3, RestingType DEF Parts, PcInv
  <2>5. KeptInv'
    BY <1>7, <1>a, <2>1 DEF Crash, KeptInv
  <2> QED
    BY <1>b, <2>4, <2>5
<1>8. CASE Consume
  <2>1. UNCHANGED <<linked, worker, issued, answered, unmatched, handling, uploaded, habits>>
    BY <1>8, ConsumeFrame
  <2>2. ASSUME /\ status' \in [Rows -> Statuses] /\ name' \in [Rows -> Rows \cup {None}]
               /\ photo' \in [Rows -> Rows \cup {None}]
               /\ open' \subseteq Rows /\ wire' \subseteq Messages /\ ack' \in AckRows
        PROVE  TypeInv'
    <3>1. ack'.pc # "idle" => ack'.row \in Rows /\ ack'.msg \in Messages
      BY <2>2 DEF AckRows, NoAck
    <3>2. Parts' /\ PcInv'
      BY <1>a, <2>1, <2>2, <3>1 DEF Parts, PcInv
    <3> QED
      BY <1>b, <1>c, <2>1, <3>2
  <2>3. ack.pc # "idle" => /\ ack \in [pc : {"acked", "failed", "find", "ready", "name", "fail"},
                                       row : Rows, msg : Messages]
                           /\ ack.row \in Rows /\ ack.msg \in Messages /\ ack.msg.row \in Rows
    BY <1>a DEF Parts, AckRows, NoAck, Messages
  <2>4. ack # NoAck => ack.pc # "idle"
    BY <1>a DEF Parts, AckRows
  <2>5. ASSUME ack.pc # "idle", EndAck PROVE wire' \subseteq Messages /\ ack' \in AckRows
    BY <1>a, <2>3, <2>5 DEF EndAck, Parts, AckRows
  <2>6. CASE \E m \in wire : Receive(m)
    <3>1. PICK m \in wire : Receive(m)
      BY <2>6
    <3>2. m \in Messages /\ m.row \in Rows /\ newest \subseteq Rows
      BY <1>a DEF newest, Parts, Messages
    <3>3. latestPendingByCode(m.row) \subseteq Rows /\ latestPendingByCode(None) \subseteq Rows
      BY <1>a, <3>2 DEF latestPendingByCode, Parts
    <3>4. ack' = ack \/ \E row \in Rows :
             ack' = [pc |-> IF m.kind = "photo" THEN "acked" ELSE "failed", row |-> row, msg |-> m]
      BY <3>1, <3>2, <3>3 DEF Receive
    <3>5. ack' \in AckRows /\ wire' \subseteq Messages
      BY <1>a, <3>1, <3>2, <3>4 DEF AckRows, Parts, Receive
    <3>6. UNCHANGED <<status, name, photo, open>>
      BY <3>1 DEF Receive, evidence, commands
    <3> QED
      BY <1>a, <2>2, <3>5, <3>6 DEF Parts
  <2>7. CASE CloseCommand \/ FindByCommand
    <3>1. ack' \in AckRows
      <4>1. PICK pc \in {"find", "fail", "ready", "name"} : ack' = [ack EXCEPT !.pc = pc]
        BY <2>7 DEF CloseCommand, FindByCommand
      <4> QED
        BY <2>3, <2>7, <4>1 DEF CloseCommand, FindByCommand, AckRows
    <3>2. UNCHANGED <<status, name, photo, wire>> /\ open' \subseteq Rows
      BY <1>a, <2>7 DEF CloseCommand, FindByCommand, Parts, evidence, commands, device
    <3> QED
      BY <1>a, <2>2, <3>1, <3>2 DEF Parts
  <2>8. CASE MarkReady
    <3>1. ack.pc = "ready" /\ UNCHANGED <<wire, open>>
      BY <2>8 DEF MarkReady, commands, device
    <3>2. /\ status' \in [Rows -> Statuses] /\ photo' \in [Rows -> Rows \cup {None}]
          /\ name' \in [Rows -> Rows \cup {None}]
      BY <1>a, <2>3, <2>8, <3>1 DEF MarkReady, Parts, Statuses
    <3>3. ack' \in AckRows
      BY <2>3, <2>8, <3>1 DEF MarkReady, AckRows
    <3> QED
      BY <1>a, <2>2, <3>1, <3>2, <3>3 DEF Parts
  <2>9. CASE MarkReadyByName
    <3>1. /\ ack.pc = "name" /\ Attach(Waiting({ack.msg.row}), ack.msg.row) /\ EndAck
          /\ UNCHANGED open
      BY <2>9 DEF MarkReadyByName, commands
    <3>2. /\ status' \in [Rows -> Statuses] /\ photo' \in [Rows -> Rows \cup {None}]
          /\ UNCHANGED name
      BY <2>3, <3>1, AttachType
    <3> QED
      BY <1>a, <2>2, <2>5, <3>1, <3>2 DEF Parts
  <2>10. CASE FailByCommand
    <3>1. ack.pc = "fail" /\ EndAck /\ UNCHANGED <<name, photo, open>>
      BY <2>10 DEF FailByCommand, commands
    <3>2. status' \in [Rows -> Statuses]
      BY <1>a, <2>10 DEF FailByCommand, Parts, Statuses
    <3> QED
      BY <1>a, <2>2, <2>5, <3>1, <3>2 DEF Parts
  <2>11. CASE Swallow
    <3>1. ack # NoAck /\ EndAck /\ UNCHANGED <<status, name, photo, open>>
      BY <2>11 DEF Swallow, evidence, commands
    <3> QED
      BY <1>a, <2>2, <2>4, <2>5, <3>1 DEF Parts
  <2> QED
    BY <1>8, <2>6, <2>7, <2>8, <2>9, <2>10, <2>11 DEF Consume
<1>9. CASE UNCHANGED vars
  <2>1. UNCHANGED <<status, name, photo, linked, worker, issued, open, answered, wire, ack,
                    unmatched, handling, uploaded, habits>>
    BY <1>9 DEF vars, evidence, commands, device, ftp
  <2>2. Parts' /\ PcInv'
    BY <1>a, <2>1 DEF Parts, PcInv
  <2> QED
    BY <1>b, <1>c, <2>1, <2>2
<1> QED
  BY <1>1, <1>2, <1>3, <1>4, <1>6, <1>7, <1>8, <1>9 DEF Next, Ftp

\* Every reachable state is well-typed.
THEOREM TypeCorrect == Spec => []TypeOK
<1>1. TypeInv => TypeOK
  BY DEF TypeInv
<1> QED
  BY <1>1, TypeInit, TypeStep, PTL DEF Spec

-----------------------------------------------------------------------------
(* What an operator is offered *)

Offered(r) == \/ photo[r] # None /\ photo[r] = name[r]
              \/ photo[r] \in uploaded /\ name[r] \in Alike[photo[r]]
ReadyRow(r) == status[r] = "PHOTO_READY" => Offered(r)

LEMMA ReadyStep == TypeInv /\ ReadyHasPhoto /\ [Next]_vars => ReadyHasPhoto'
<1> SUFFICES ASSUME TypeInv, ReadyHasPhoto, [Next]_vars, NEW r \in Rows
             PROVE  ReadyRow(r)'
  BY DEF ReadyHasPhoto, ReadyRow, Offered
<1>0. /\ ReadyRow(r) /\ None \notin Rows
      /\ status \in [Rows -> Statuses] /\ name \in [Rows -> Rows \cup {None}]
      /\ photo \in [Rows -> Rows \cup {None}]
  BY RowsAssumption DEF ReadyHasPhoto, ReadyRow, Offered, TypeInv, TypeOK
<1>1. ASSUME status'[r] = "PHOTO_READY" => status[r] = "PHOTO_READY",
             UNCHANGED <<name, photo>>, uploaded \subseteq uploaded'
      PROVE  ReadyRow(r)'
  BY <1>0, <1>1 DEF ReadyRow, Offered
<1>2. ASSUME NEW q \in Rows, Insert(q) PROVE ReadyRow(r)'
  <2>1. /\ \/ status' = [status EXCEPT ![q] = "PENDING"]
           \/ status' = [status EXCEPT ![q] = "SKIPPED_COOLDOWN"]
           \/ status' = [status EXCEPT ![q] = "PHOTO_MISSING"]
        /\ status[q] = "NONE"
        /\ name' = name \/ name' = [name EXCEPT ![q] = q]
    BY <1>2, Zenon DEF Insert
  <2>2. UNCHANGED <<photo, uploaded>>
    BY <1>2, InsertFrame
  <2> QED
    BY <1>0, <2>1, <2>2 DEF ReadyRow, Offered
<1>3. ASSUME NEW f \in uploaded, AttachAlike(f), uploaded \subseteq uploaded', name' = name
      PROVE  ReadyRow(r)'
  <2>1. PICK names \in {{f}, Alike[f]} : Attach(Waiting(names), f)
    BY <1>3 DEF AttachAlike
  <2>2. f \in Rows
    BY DEF TypeInv, TypeOK
  <2>3. CASE r \in Waiting(names)
    <3>1. photo'[r] = f /\ name'[r] \in names /\ f \in uploaded' /\ f # None
      BY <1>0, <1>3, <2>1, <2>2, <2>3 DEF Attach, Waiting
    <3> QED
      BY <3>1 DEF ReadyRow, Offered
  <2>4. CASE r \notin Waiting(names)
    <3>1. photo'[r] = photo[r] /\ status'[r] = status[r] /\ name'[r] = name[r]
      BY <1>3, <2>1, <2>4 DEF Attach
    <3> QED
      BY <1>0, <1>3, <3>1 DEF ReadyRow, Offered
  <2> QED
    BY <2>3, <2>4
<1>4. ASSUME Ftp PROVE ReadyRow(r)'
  BY <1>1, <1>3, <1>4, FtpFrame
<1>5. ASSUME NEW q \in Rows, Answer(q) \/ Expire(q) PROVE ReadyRow(r)'
  BY <1>1, <1>5, DeviceFrame
<1>6. ASSUME NEW w \in Workers, Tick(w) \/ TickFails(w) PROVE ReadyRow(r)'
  <2>1. status'[r] = "PHOTO_READY" => status[r] = "PHOTO_READY"
    <3>1. CASE Claim(w)
      BY <1>0, <3>1 DEF Claim
    <3>2. CASE Link(w) \/ MarkFailed(w)
      BY <1>0, <3>2 DEF Link, MarkFailed
    <3>3. CASE Ask(w) \/ AskFails(w) \/ LinkFails(w) \/ TickFails(w)
      BY <3>3 DEF Ask, AskFails, LinkFails, TickFails, evidence
    <3> QED
      BY <1>6, <3>1, <3>2, <3>3 DEF Tick
  <2> QED
    BY <1>1, <1>6, <2>1, TickFrame
<1>7. ASSUME NEW w \in Workers, Crash(w) PROVE ReadyRow(r)'
  BY <1>1, <1>7, CrashFrame
<1>8. CASE Consume
  <2>0. uploaded' = uploaded
    BY <1>8, ConsumeFrame
  <2>1. CASE MarkReady
    <3>1. ack.msg.row \in Rows
      BY <2>1 DEF MarkReady, TypeInv, PcInv, Messages
    <3>2. /\ status' = [status EXCEPT ![ack.row] = "PHOTO_READY"]
          /\ photo' = [photo EXCEPT ![ack.row] = ack.msg.row]
          /\ name' = [name EXCEPT ![ack.row] = ack.msg.row]
      BY <2>1 DEF MarkReady
    <3> QED
      BY <1>0, <2>0, <3>1, <3>2 DEF ReadyRow, Offered
  <2>2. CASE MarkReadyByName
    <3>1. ack.msg.row \in Rows /\ Attach(Waiting({ack.msg.row}), ack.msg.row)
      BY <2>2 DEF MarkReadyByName, TypeInv, PcInv, Messages
    <3> QED
      BY <1>0, <2>0, <3>1 DEF Attach, Waiting, ReadyRow, Offered
  <2>3. CASE FailByCommand
    <3>1. UNCHANGED <<name, photo>> /\ (status'[r] = "PHOTO_READY" => status[r] = "PHOTO_READY")
      BY <1>0, <2>3 DEF FailByCommand
    <3> QED
      BY <1>1, <2>0, <3>1
  <2>4. CASE UNCHANGED <<status, name, photo>>
    BY <1>1, <2>0, <2>4
  <2> QED
    BY <1>8, <2>1, <2>2, <2>3, <2>4, ReceiveFrame DEF Consume
<1>9. CASE UNCHANGED vars
  BY <1>1, <1>9 DEF vars, evidence, ftp
<1> QED
  BY <1>2, <1>4, <1>5, <1>6, <1>7, <1>8, <1>9 DEF Next, Ftp

\* Whatever dies, fails, expires or crosses on the way: an operator is never offered a
\* photo that is not there, or one of neither the file the row names nor an upload with
\* whose second and camera that name begins.
THEOREM OfferedPhotoExists == Spec => []ReadyHasPhoto
<1>1. Init => ReadyHasPhoto
  BY DEF Init, ReadyHasPhoto
<1> QED
  BY <1>1, TypeInit, TypeStep, ReadyStep, PTL DEF Spec

-----------------------------------------------------------------------------
(* How often the device is asked *)

Fresh(r) == status[r] \in {"NONE", "PENDING"}
Issued(r) == \E i \in DOMAIN issued : issued[i] = r

\* Whose turn is over: the head of the queue, once its command has been created.
Begun(w, i) == i = 1 /\ worker[w].pc \in {"link", "fail"}

\* A row in a queue is no longer PENDING, it is in one queue once, and its command
\* has not been created before its turn; neither has that of a PENDING row.
QueueInv ==
    /\ \A w \in Workers : \A i \in DOMAIN worker[w].queue :
         /\ ~Fresh(worker[w].queue[i])
         /\ Issued(worker[w].queue[i]) => Begun(w, i)
    /\ \A w, v \in Workers : \A i \in DOMAIN worker[w].queue, j \in DOMAIN worker[v].queue :
         worker[w].queue[i] = worker[v].queue[j] => w = v /\ i = j
    /\ \A r \in Rows : Fresh(r) => ~Issued(r)

\* Queues get shorter from the front, and no row becomes PENDING again.
Recedes ==
    /\ UNCHANGED issued
    /\ \A r \in Rows : Fresh(r)' => Fresh(r)
    /\ \A w \in Workers :
         \/ worker'[w].queue = worker[w].queue /\ (worker'[w].pc = worker[w].pc \/ worker'[w].pc = "fail")
         \/ worker'[w].queue = Tail(worker[w].queue) /\ worker[w].queue # <<>>
         \/ worker'[w].queue = <<>>

LEMMA RecedesStep == TypeInv /\ TypeInv' /\ QueueInv /\ Recedes => QueueInv'
<1> SUFFICES ASSUME TypeInv, TypeInv', QueueInv, Recedes PROVE QueueInv'
  OBVIOUS
<1> DEFINE q(w) == worker[w].queue
<1>1. ASSUME NEW w \in Workers
      PROVE  /\ q(w) \in Seq(Rows) /\ q(w)' \in Seq(Rows)
             /\ \/ q(w)' = q(w) /\ (worker'[w].pc = worker[w].pc \/ worker'[w].pc = "fail")
                \/ \A i \in DOMAIN q(w)' : i + 1 \in DOMAIN q(w) /\ q(w)'[i] = q(w)[i + 1]
  <2>1. q(w) \in Seq(Rows) /\ q(w)' \in Seq(Rows)
    BY DEF TypeInv, TypeOK
  <2>2. CASE q(w)' = Tail(q(w)) /\ q(w) # <<>>
    <3>1. Len(q(w)) \in Nat \ {0}
      BY <2>1, <2>2, EmptySeq
    <3>2. DOMAIN Tail(q(w)) = 1 .. Len(q(w)) - 1 /\ DOMAIN q(w) = 1 .. Len(q(w))
          /\ \A i \in 1 .. Len(q(w)) - 1 : Tail(q(w))[i] = q(w)[i + 1]
      BY <2>1, <3>1
    <3> QED
      BY <2>1, <2>2, <3>1, <3>2
  <2>3. CASE q(w)' = <<>>
    BY <2>1, <2>3
  <2> QED
    BY <2>1, <2>2, <2>3 DEF Recedes
<1> DEFINE shift(w) == IF q(w)' = q(w) /\ (worker'[w].pc = worker[w].pc \/ worker'[w].pc = "fail")
                       THEN 0 ELSE 1
<1>2. ASSUME NEW w \in Workers, NEW i \in DOMAIN q(w)'
      PROVE  /\ i \in Nat \ {0} /\ shift(w) \in {0, 1}
             /\ i + shift(w) \in DOMAIN q(w) /\ q(w)'[i] = q(w)[i + shift(w)]
             /\ Begun(w, i + shift(w)) => Begun(w, i)'
             /\ q(w)'[i] \in Rows
  <2>1. DOMAIN q(w)' = 1 .. Len(q(w)') /\ Len(q(w)') \in Nat
    BY <1>1
  <2>2. i \in Nat \ {0} /\ q(w)'[i] \in Rows
    BY <1>1, <1>2, <2>1
  <2>3. CASE shift(w) = 0
    BY <1>1, <1>2, <2>2, <2>3 DEF Begun
  <2>4. CASE shift(w) = 1
    <3>1. i + 1 \in DOMAIN q(w) /\ q(w)'[i] = q(w)[i + 1] /\ i + 1 # 1
      BY <1>1, <1>2, <2>2, <2>4
    <3> QED
      BY <2>2, <2>4, <3>1 DEF Begun
  <2> QED
    BY <2>3, <2>4
<1> HIDE DEF shift
<1>3. ASSUME NEW w \in Workers, NEW i \in DOMAIN q(w)'
      PROVE  ~Fresh(q(w)[i])' /\ (Issued(q(w)[i])' => Begun(w, i)')
  <2>1. ~Fresh(q(w)[i + shift(w)]) /\ (Issued(q(w)[i + shift(w)]) => Begun(w, i + shift(w)))
    BY <1>2, <1>3 DEF QueueInv
  <2>2. ~Fresh(q(w)[i])'
    BY <1>2, <1>3, <2>1 DEF Recedes, Fresh
  <2>3. Issued(q(w)[i])' => Issued(q(w)[i + shift(w)])
    BY <1>2, <1>3 DEF Recedes, Issued
  <2> QED
    BY <1>2, <1>3, <2>1, <2>2, <2>3
<1>4. ASSUME NEW w \in Workers, NEW v \in Workers, NEW i \in DOMAIN q(w)', NEW j \in DOMAIN q(v)',
             q(w)'[i] = q(v)'[j]
      PROVE  w = v /\ i = j
  <2>1. w = v /\ i + shift(w) = j + shift(v)
    BY <1>2, <1>4 DEF QueueInv
  <2> QED
    BY <1>2, <1>4, <2>1
<1>5. \A r \in Rows : Fresh(r)' => ~Issued(r)'
  BY DEF QueueInv, Recedes, Fresh, Issued
<1> QED
  BY <1>3, <1>4, <1>5 DEF QueueInv

LEMMA RestRecedes ==
  ASSUME TypeInv, NEW w \in Workers, worker[w].pc # "idle", Rest(w), UNCHANGED issued,
         \A r \in Rows : Fresh(r)' => Fresh(r)
  PROVE  Recedes
<1>1. worker[w].queue \in Seq(Rows) /\ worker[w].queue # <<>>
  BY DEF TypeInv, TypeOK, PcInv
<1>2. \/ worker'[w].queue = Tail(worker[w].queue) \/ worker'[w].queue = <<>>
  BY DEF Rest, Resting, TypeInv, TypeOK
<1>3. \A v \in Workers \ {w} : worker'[v] = worker[v]
  BY DEF Rest, TypeInv, TypeOK
<1> QED
  BY <1>1, <1>2, <1>3 DEF Recedes

\* A command is issued when a worker asks, and only then.
LEMMA IssuedFrame ==
  ASSUME TypeInv, [Next]_vars PROVE UNCHANGED issued \/ \E w \in Workers : Ask(w)
<1>1. ASSUME NEW w \in Workers, Tick(w) \/ TickFails(w), ~Ask(w) PROVE UNCHANGED issued
  BY <1>1 DEF Tick, Claim, AskFails, Link, LinkFails, MarkFailed, TickFails, commands
<1>2. CASE UNCHANGED vars
  BY <1>2 DEF vars, commands
<1> QED
  BY <1>1, <1>2, InsertFrame, DeviceFrame, CrashFrame, ConsumeFrame, FtpFrame DEF Next, Ftp

LEMMA QueueStep == TypeInv /\ TypeInv' /\ QueueInv /\ [Next]_vars => QueueInv'
<1> SUFFICES ASSUME TypeInv, TypeInv', QueueInv, [Next]_vars PROVE QueueInv'
  OBVIOUS
<1> USE RowsAssumption
<1>0. status \in [Rows -> Statuses] /\ worker \in [Workers -> WorkerRows]
  BY Typed DEF Parts
<1>1. ASSUME NEW r \in Rows, Insert(r) PROVE Recedes
  <2>1. UNCHANGED <<issued, worker>>
    BY <1>1, InsertFrame
  <2>2. \A q \in Rows : Fresh(q)' => Fresh(q)
    BY <1>0, <1>1 DEF Insert, Fresh
  <2> QED
    BY <2>1, <2>2 DEF Recedes
<1>2. ASSUME NEW r \in Rows, Answer(r) \/ Expire(r) PROVE Recedes
  BY <1>2, DeviceFrame DEF Recedes, Fresh
<1>3. ASSUME Ftp PROVE Recedes
  <2>1. UNCHANGED <<issued, worker>>
    BY <1>3, FtpFrame
  <2>2. \A q \in Rows : Fresh(q)' => Fresh(q)
    <3>1. UNCHANGED status \/ \E f \in uploaded : AttachAlike(f)
      BY <1>3, FtpFrame
    <3> QED
      BY <1>0, <3>1 DEF AttachAlike, Attach, Fresh
  <2> QED
    BY <2>1, <2>2 DEF Recedes
<1>4. ASSUME NEW w \in Workers, Claim(w) PROVE QueueInv'
  <2>1. PICK b \in Batches \ {<<>>} :
          /\ worker' = [worker EXCEPT ![w] = [pc |-> "ask", queue |-> b]]
          /\ status' = [r \in Rows |-> IF \E i \in DOMAIN b : b[i] = r THEN "FETCHING"
                                       ELSE status[r]]
    BY <1>4 DEF Claim
  <2>2. /\ b \in Seq(Rows) /\ DOMAIN b = 1 .. Len(b)
        /\ \A i \in DOMAIN b : b[i] \in Rows /\ status[b[i]] = "PENDING"
        /\ \A i, j \in DOMAIN b : i # j => b[i] # b[j]
    BY BatchOfRows DEF claimable
  <2>3. /\ worker'[w].pc = "ask" /\ worker'[w].queue = b
        /\ \A v \in Workers \ {w} : worker'[v] = worker[v]
        /\ UNCHANGED issued
    BY <1>4, <2>1 DEF Claim, commands, TypeInv, TypeOK
  <2>4. /\ \A i \in DOMAIN b : ~Fresh(b[i])' /\ ~Issued(b[i])'
        /\ \A r \in Rows : Fresh(r)' => Fresh(r)
        /\ \A r \in Rows : Issued(r)' <=> Issued(r)
    <3>1. \A i \in DOMAIN b : status'[b[i]] = "FETCHING"
      BY <2>1, <2>2 DEF TypeInv, TypeOK
    <3>2. \A i \in DOMAIN b : ~Issued(b[i])
      BY <2>2 DEF QueueInv, Fresh
    <3> QED
      BY <2>1, <2>2, <2>3, <3>1, <3>2 DEF Fresh, Issued, TypeInv, TypeOK
  <2>5. \A v \in Workers \ {w} : \A i \in DOMAIN worker[v].queue :
           worker[v].queue[i] \in Rows /\ ~Fresh(worker[v].queue[i])
    BY DEF QueueInv, TypeInv, TypeOK
  <2>6. \A v \in Workers : \A i \in DOMAIN worker'[v].queue :
         /\ ~Fresh(worker[v].queue[i])'
         /\ Issued(worker[v].queue[i])' => Begun(v, i)'
    <3> SUFFICES ASSUME NEW v \in Workers, NEW i \in DOMAIN worker'[v].queue
                 PROVE  /\ ~Fresh(worker[v].queue[i])'
                        /\ Issued(worker[v].queue[i])' => Begun(v, i)'
      OBVIOUS
    <3>1. CASE v = w
      BY <2>3, <2>4, <3>1 DEF Fresh, Issued
    <3>2. CASE v # w
      <4>1. worker'[v] = worker[v]
        BY <2>3, <3>2
      <4>2. /\ worker[v].queue[i] \in Rows /\ ~Fresh(worker[v].queue[i])
            /\ Issued(worker[v].queue[i]) => Begun(v, i)
        BY <2>5, <3>2, <4>1 DEF QueueInv
      <4>3. ~Fresh(worker[v].queue[i])'
        BY <2>4, <4>1, <4>2 DEF Fresh
      <4>4. Issued(worker[v].queue[i])' => Issued(worker[v].queue[i])
        BY <2>4, <4>1, <4>2 DEF Issued
      <4> QED
        BY <4>1, <4>2, <4>3, <4>4 DEF Begun
    <3> QED
      BY <3>1, <3>2
  <2>7. \A i \in DOMAIN b, v \in Workers \ {w} : \A j \in DOMAIN worker[v].queue :
           b[i] # worker[v].queue[j]
    BY <2>2, <2>5 DEF Fresh
  <2>8. \A u, v \in Workers : \A i \in DOMAIN worker'[u].queue, j \in DOMAIN worker'[v].queue :
         worker'[u].queue[i] = worker'[v].queue[j] => u = v /\ i = j
    BY <2>2, <2>3, <2>7 DEF QueueInv
  <2>9. \A r \in Rows : Fresh(r)' => ~Issued(r)'
    BY <2>4 DEF QueueInv
  <2> QED
    BY <2>6, <2>8, <2>9 DEF QueueInv
<1>5. ASSUME NEW w \in Workers, Ask(w) PROVE QueueInv'
  <2>1. /\ Row(w) = worker[w].queue[1] /\ 1 \in DOMAIN worker[w].queue /\ Row(w) \in Rows
    BY <1>5, EmptySeq DEF Ask, Row, TypeInv, TypeOK, PcInv
  <2>2. /\ worker'[w].pc = "link"
        /\ \A v \in Workers : worker'[v].queue = worker[v].queue
        /\ \A v \in Workers \ {w} : worker'[v].pc = worker[v].pc
        /\ UNCHANGED status
    BY <1>5 DEF Ask, evidence, TypeInv, TypeOK
  <2>3. \A r \in Rows : Issued(r)' => r = Row(w) \/ Issued(r)
    BY <1>5, <2>1 DEF Ask, Issued, TypeInv, TypeOK
  <2>4. ASSUME NEW v \in Workers, NEW i \in DOMAIN worker[v].queue
        PROVE  /\ ~Fresh(worker[v].queue[i])'
               /\ Issued(worker[v].queue[i])' => Begun(v, i)'
    <3>1. worker[v].queue[i] \in Rows
      BY DEF TypeInv, TypeOK
    <3>2. CASE worker[v].queue[i] = Row(w)
      BY <2>1, <2>2, <3>2 DEF QueueInv, Fresh, Begun
    <3>3. CASE worker[v].queue[i] # Row(w)
      <4>1. ~Fresh(worker[v].queue[i]) /\ (Issued(worker[v].queue[i]) => Begun(v, i))
        BY DEF QueueInv
      <4>2. ~Fresh(worker[v].queue[i])'
        BY <2>2, <4>1 DEF Fresh
      <4>3. Issued(worker[v].queue[i])' => Issued(worker[v].queue[i])
        BY <2>2, <2>3, <3>1, <3>3 DEF Issued
      <4>4. Begun(v, i) => Begun(v, i)'
        BY <1>5, <2>2 DEF Ask, Begun
      <4> QED
        BY <4>1, <4>2, <4>3, <4>4
    <3> QED
      BY <3>2, <3>3
  <2>5. \A r \in Rows : Fresh(r)' => ~Issued(r)'
    BY <2>1, <2>2, <2>3 DEF QueueInv, Fresh
  <2> QED
    BY <2>2, <2>4, <2>5 DEF QueueInv
<1>6. ASSUME NEW w \in Workers, AskFails(w) \/ LinkFails(w) PROVE Recedes
  <2>1. worker' = [worker EXCEPT ![w].pc = "fail"] /\ UNCHANGED <<status, issued>>
    BY <1>6 DEF AskFails, LinkFails, evidence, commands
  <2>2. \A v \in Workers :
          /\ worker'[v].queue = worker[v].queue
          /\ worker'[v].pc = worker[v].pc \/ worker'[v].pc = "fail"
    BY <2>1 DEF TypeInv, TypeOK
  <2> QED
    BY <2>1, <2>2 DEF Recedes, Fresh
<1>7. ASSUME NEW w \in Workers, Link(w) \/ MarkFailed(w) PROVE Recedes
  <2>1. /\ worker[w].pc # "idle" /\ Rest(w) /\ UNCHANGED issued
        /\ \A r \in Rows : Fresh(r)' => Fresh(r)
    BY <1>7 DEF Link, MarkFailed, Fresh, commands, TypeInv, TypeOK
  <2> QED
    BY <2>1, RestRecedes
<1>8. ASSUME NEW w \in Workers, TickFails(w) \/ Crash(w) PROVE Recedes
  <2>1. worker' = [worker EXCEPT ![w] = Resting] /\ UNCHANGED <<status, issued>>
    BY <1>8, CrashFrame DEF TickFails, evidence, commands
  <2>2. \A v \in Workers : worker'[v] = worker[v] \/ worker'[v].queue = <<>>
    BY <1>0, <2>1 DEF Resting
  <2> QED
    BY <2>1, <2>2 DEF Recedes, Fresh
<1>9. ASSUME Consume PROVE Recedes
  <2>1. UNCHANGED <<issued, worker>>
    BY <1>9, ConsumeFrame
  <2>2. \A q \in Rows : Fresh(q)' => Fresh(q)
    <3>1. CASE MarkReady \/ FailByCommand
      BY <1>0, <3>1 DEF MarkReady, FailByCommand, Fresh
    <3>2. CASE MarkReadyByName
      BY <1>0, <3>2 DEF MarkReadyByName, Attach, Fresh
    <3>3. CASE UNCHANGED status
      BY <3>3 DEF Fresh
    <3> QED
      BY <1>9, <3>1, <3>2, <3>3, ReceiveFrame DEF Consume
  <2> QED
    BY <2>1, <2>2 DEF Recedes
<1>10. ASSUME UNCHANGED vars PROVE Recedes
  <2>1. UNCHANGED <<status, issued, worker>>
    BY <1>10 DEF vars, evidence, commands
  <2> QED
    BY <2>1 DEF Recedes, Fresh
<1> QED
  BY <1>1, <1>2, <1>3, <1>4, <1>5, <1>6, <1>7, <1>8, <1>9, <1>10, RecedesStep
  DEF Next, Tick, Ftp

\* No two commands are of one row.
LEMMA AskedStep ==
  TypeInv /\ QueueInv /\ AskedOnce /\ [Next]_vars => AskedOnce'
<1> SUFFICES ASSUME TypeInv, QueueInv, AskedOnce, [Next]_vars PROVE AskedOnce'
  OBVIOUS
<1>1. CASE UNCHANGED issued
  BY <1>1 DEF AskedOnce
<1>2. ASSUME NEW w \in Workers, Ask(w) PROVE AskedOnce'
  <2>1. Row(w) = worker[w].queue[1] /\ 1 \in DOMAIN worker[w].queue /\ Row(w) \in Rows
    BY <1>2, EmptySeq DEF Ask, Row, TypeInv, TypeOK, PcInv
  <2>2. \A i \in DOMAIN issued : issued[i] # Row(w)
    BY <1>2, <2>1 DEF Ask, QueueInv, Begun, Issued
  <2> QED
    BY <1>2, <2>1, <2>2 DEF Ask, AskedOnce, TypeInv, TypeOK
<1> QED
  BY <1>1, <1>2, IssuedFrame

\* Two instances, a crash and a failed statement together never send the device a
\* second request for a photo.
THEOREM PhotoIsAskedOnce == Spec => []AskedOnce
<1>1. Init => QueueInv /\ AskedOnce
  BY DEF Init, Resting, QueueInv, AskedOnce, Fresh, Issued
<1>2. TypeInv /\ QueueInv /\ AskedOnce /\ [Next]_vars => (TypeInv /\ QueueInv /\ AskedOnce)'
  BY TypeStep, QueueStep, AskedStep
<1> QED
  BY <1>1, <1>2, TypeInit, PTL DEF Spec

-----------------------------------------------------------------------------
(* A row shows the photo of its own alarm *)

Punctual == habits \cap {"error", "expiry", "crash"} = {}

\* Own, if the row's name is its own or none.
RowsOwn == \A r \in Rows : name[r] \in {None, r} /\ photo[r] \in {None} \cup Own(r)

\* A command stays open until its own answer, which is under way at most once, is
\* being handled: so an answer never falls through to another command.
AnswersOwn ==
    /\ ack.pc # "idle" => ack.msg.row = ack.row
    /\ \A i \in DOMAIN issued : issued[i] \in open \cup answered
    /\ \A m \in wire : m.kind # "error" /\ m.row \in open \cap answered
    /\ \A m, n \in wire : m.row = n.row => m = n
    /\ ack.pc \in {"acked", "failed"} =>
         ack.row \in answered /\ \A m \in wire : m.row # ack.row

OwnInv == Punctual => RowsOwn /\ AnswersOwn

LEMMA AnswersStep ==
  ASSUME TypeInv, Punctual, AnswersOwn, [Next]_vars PROVE AnswersOwn'
<1>1. ASSUME UNCHANGED <<issued, open, answered, wire, ack>> PROVE AnswersOwn'
  BY <1>1 DEF AnswersOwn
<1>2. ASSUME NEW w \in Workers, Ask(w) PROVE AnswersOwn'
  <2>1. /\ issued' = Append(issued, Row(w)) /\ open' = open \cup {Row(w)}
        /\ issued \in Seq(Rows) /\ Row(w) \in Rows
    BY <1>2, EmptySeq DEF Ask, Row, TypeInv, TypeOK, PcInv
  <2>2. \A i \in DOMAIN issued' : issued'[i] = Row(w) \/ (i \in DOMAIN issued /\ issued'[i] = issued[i])
    <3>1. /\ issued' \in Seq(Rows) /\ Len(issued') = Len(issued) + 1
          /\ issued'[Len(issued) + 1] = Row(w)
          /\ \A i \in 1 .. Len(issued) : issued'[i] = issued[i]
      BY ONLY <2>1, AppendProperties
    <3> QED
      BY ONLY <2>1, <3>1
  <2>3. UNCHANGED <<answered, wire, ack>>
    BY <1>2, TickFrame DEF Tick
  <2>4. \A i \in DOMAIN issued' : issued'[i] \in open' \cup answered'
    BY <2>1, <2>2, <2>3 DEF AnswersOwn
  <2>5. \A m \in wire' : m.kind # "error" /\ m.row \in open' \cap answered'
    BY <2>1, <2>3 DEF AnswersOwn
  <2> QED
    BY <2>3, <2>4, <2>5 DEF AnswersOwn
<1>3. ASSUME NEW r \in Rows, Answer(r) PROVE AnswersOwn'
  <2>1. /\ r \notin answered /\ answered' = answered \cup {r}
        /\ \E i \in DOMAIN issued : issued[i] = r
        /\ UNCHANGED <<issued, open, ack>>
    BY <1>3 DEF Answer, commands
  <2>2. PICK kind \in {"photo", "rejected"} : wire' = wire \cup {[row |-> r, kind |-> kind]}
    BY <1>3 DEF Answer, Punctual
  <2>3. r \in open /\ \A m \in wire : m.row # r
    BY <2>1 DEF AnswersOwn
  <2>4. ack.pc \in {"acked", "failed"} => ack.row # r
    BY <2>1 DEF AnswersOwn
  <2> QED
    BY <2>1, <2>2, <2>3, <2>4 DEF AnswersOwn
<1>4. ASSUME NEW m \in wire, Receive(m) PROVE AnswersOwn'
  <2>1. /\ wire' = wire \ {m} /\ UNCHANGED <<issued, open, answered>> /\ ack.pc = "idle"
        /\ m.kind \in {"photo", "rejected"} /\ m.row \in open \cap answered
        /\ \A n \in wire \ {m} : n.row # m.row
    BY <1>4 DEF Receive, NoAck, AnswersOwn, TypeInv, TypeOK, Messages, commands
  <2>2. \/ UNCHANGED ack
        \/ m.kind = "photo" /\ ack' = [pc |-> "acked", row |-> m.row, msg |-> m]
        \/ m.kind = "rejected" /\ ack' = [pc |-> "failed", row |-> m.row, msg |-> m]
    BY <1>4, <2>1 DEF Receive, latestPendingByCode
  <2> QED
    BY <2>1, <2>2 DEF AnswersOwn
<1>5. ASSUME CloseCommand PROVE AnswersOwn'
  <2>1. /\ ack.pc \in {"acked", "failed"} /\ open' = open \ {ack.row}
        /\ ack'.pc \in {"find", "fail"} /\ ack'.row = ack.row /\ ack'.msg = ack.msg
        /\ UNCHANGED <<issued, answered, wire>>
    BY <1>5, Typed DEF CloseCommand, Parts, AckRows, NoAck, device
  <2> QED
    BY <2>1 DEF AnswersOwn
<1>6. ASSUME FindByCommand \/ MarkReady PROVE AnswersOwn'
  <2>1. /\ ack.pc \in {"find", "ready"} /\ ack'.pc \in {"ready", "name"}
        /\ ack'.row = ack.row /\ ack'.msg = ack.msg /\ UNCHANGED <<issued, open, answered, wire>>
    BY <1>6, Typed DEF FindByCommand, MarkReady, Parts, AckRows, NoAck, commands, device
  <2> QED
    BY <2>1 DEF AnswersOwn
<1>7. ASSUME MarkReadyByName \/ FailByCommand \/ Swallow PROVE AnswersOwn'
  <2>1. ack'.pc = "idle" /\ UNCHANGED <<issued, open, answered, wire>>
    BY <1>7 DEF MarkReadyByName, FailByCommand, Swallow, EndAck, NoAck, Punctual, commands
  <2> QED
    BY <2>1 DEF AnswersOwn
<1>8. ASSUME NEW r \in Rows, Insert(r) PROVE UNCHANGED <<issued, open, answered, wire, ack>>
  BY <1>8, InsertFrame
<1>9. ASSUME NEW w \in Workers, Tick(w) \/ TickFails(w), ~Ask(w)
      PROVE  UNCHANGED <<issued, open, answered, wire, ack>>
  <2>1. UNCHANGED <<issued, open>>
    BY <1>9 DEF Tick, Claim, AskFails, Link, LinkFails, MarkFailed, TickFails, commands
  <2> QED
    BY <1>9, <2>1, TickFrame
<1>10. ASSUME Ftp PROVE UNCHANGED <<issued, open, answered, wire, ack>>
  BY <1>10, FtpFrame
<1>11. (\A r \in Rows : ~Expire(r)) /\ \A w \in Workers : ~Crash(w)
  BY DEF Expire, Crash, Punctual
<1>12. CASE UNCHANGED vars
  BY <1>1, <1>12 DEF vars, commands, device
<1>13. CASE \E r \in Rows : Insert(r) \/ Answer(r) \/ Expire(r)
  BY ONLY <1>1, <1>3, <1>8, <1>11, <1>13
<1>14. CASE \E w \in Workers : Tick(w) \/ TickFails(w) \/ Crash(w)
  BY ONLY <1>1, <1>2, <1>9, <1>11, <1>14
<1>15. CASE Ftp
  BY ONLY <1>1, <1>10, <1>15
<1>16. CASE Consume
  BY ONLY <1>4, <1>5, <1>6, <1>7, <1>16 DEF Consume
<1> QED
  BY ONLY <1>12, <1>13, <1>14, <1>15, <1>16, [Next]_vars DEF Next, Ftp

\* A file is attached to rows that name it, which are its own, or to rows with a name
\* that begins like it.
LEMMA AttachOwn ==
  ASSUME RowsOwn, NEW f \in Rows, NEW names, Attach(Waiting(names), f),
         names = {f} \/ (names = Alike[f] /\ f \in uploaded), uploaded \subseteq uploaded'
  PROVE  RowsOwn'
<1>1. None \notin Rows /\ Alike[f] \subseteq Rows
  BY RowsAssumption, AlikeAssumption
<1>2. \A r \in Rows : Own(r) \subseteq Own(r)'
  BY DEF Own
<1>3. ASSUME NEW r \in Rows PROVE name'[r] \in {None, r} /\ photo'[r] \in {None} \cup Own(r)'
  <2>1. name'[r] = name[r] /\ name[r] \in {None, r} /\ photo[r] \in {None} \cup Own(r)
    BY DEF RowsOwn, Attach
  <2>2. CASE r \in Waiting(names)
    <3>1. name[r] \in names /\ photo'[r] = f
      BY <2>2 DEF Attach, Waiting
    <3>2. r \in names
      BY <1>1, <2>1, <3>1
    <3>3. f \in Own(r)
      BY <3>2 DEF Own
    <3> QED
      BY <1>2, <2>1, <3>1, <3>3
  <2>3. CASE r \notin Waiting(names)
    <3>1. photo'[r] = photo[r]
      BY <2>3 DEF Attach
    <3> QED
      BY <1>2, <2>1, <3>1
  <2> QED
    BY <2>2, <2>3
<1> QED
  BY <1>3 DEF RowsOwn

LEMMA RowsOwnStep ==
  ASSUME TypeInv, RowsOwn, AnswersOwn, [Next]_vars PROVE RowsOwn'
<1>0. name \in [Rows -> Rows \cup {None}] /\ photo \in [Rows -> Rows \cup {None}]
      /\ uploaded \subseteq Rows
  BY DEF TypeInv, TypeOK
<1>1. ASSUME UNCHANGED <<name, photo, uploaded>> PROVE RowsOwn'
  BY <1>1 DEF RowsOwn, Own
<1>2. ASSUME NEW r \in Rows, Insert(r) PROVE RowsOwn'
  <2>1. UNCHANGED <<photo, uploaded>>
    BY <1>2, InsertFrame
  <2>2. name' = name \/ name' = [name EXCEPT ![r] = r]
    BY <1>2, Zenon DEF Insert
  <2>3. ASSUME NEW q \in Rows PROVE name'[q] \in {None, q} /\ photo'[q] \in {None} \cup Own(q)'
    <3>1. name[q] \in {None, q} /\ photo[q] \in {None} \cup Own(q)
      BY DEF RowsOwn
    <3>2. Own(q)' = Own(q)
      BY <2>1 DEF Own
    <3>3. name'[q] = name[q] \/ name'[q] = q
      BY <1>0, <2>2
    <3> QED
      BY ONLY <2>1, <3>1, <3>2, <3>3
  <2> QED
    BY <2>3 DEF RowsOwn
<1>3. CASE Consume
  <2>0. uploaded' = uploaded
    BY <1>3, ConsumeFrame
  <2>1. CASE MarkReady
    <3>1. /\ ack.row = ack.msg.row
          /\ photo' = [photo EXCEPT ![ack.row] = ack.msg.row]
          /\ name' = [name EXCEPT ![ack.row] = ack.msg.row]
      BY <2>1 DEF MarkReady, AnswersOwn
    <3> QED
      BY <1>0, <2>0, <3>1 DEF RowsOwn, Own
  <2>2. CASE MarkReadyByName
    <3>1. ack.msg.row \in Rows /\ Attach(Waiting({ack.msg.row}), ack.msg.row)
      BY <2>2 DEF MarkReadyByName, TypeInv, PcInv, Messages
    <3> QED
      BY <2>0, <3>1, AttachOwn
  <2>3. CASE FailByCommand
    BY <1>1, <2>0, <2>3 DEF FailByCommand
  <2> QED
    BY <1>1, <1>3, <2>0, <2>1, <2>2, <2>3, ReceiveFrame DEF Consume
<1>4. CASE Ftp
  <2>1. UNCHANGED name /\ uploaded \subseteq uploaded'
        /\ (UNCHANGED photo \/ \E f \in uploaded : AttachAlike(f))
    BY <1>4, FtpFrame
  <2>2. CASE UNCHANGED photo
    BY <2>1, <2>2 DEF RowsOwn, Own
  <2>3. CASE \E f \in uploaded : AttachAlike(f)
    <3>1. PICK f \in uploaded : \E names \in {{f}, Alike[f]} : Attach(Waiting(names), f)
      BY <2>3 DEF AttachAlike
    <3> QED
      BY <1>0, <2>1, <3>1, AttachOwn
  <2> QED
    BY <2>1, <2>2, <2>3
<1>5. ASSUME NEW r \in Rows, Answer(r) \/ Expire(r) PROVE UNCHANGED <<name, photo, uploaded>>
  BY <1>5, DeviceFrame
<1>6. ASSUME NEW w \in Workers, Tick(w) \/ TickFails(w) \/ Crash(w)
      PROVE  UNCHANGED <<name, photo, uploaded>>
  BY <1>6, TickFrame, CrashFrame
<1>7. CASE UNCHANGED vars
  BY <1>1, <1>7 DEF vars, evidence, ftp
<1> QED
  BY <1>1, <1>2, <1>3, <1>4, <1>5, <1>6, <1>7 DEF Next, Ftp

LEMMA HabitsKept == ASSUME TypeInv, [Next]_vars PROVE habits' = habits
<1>1. CASE UNCHANGED vars
  BY <1>1 DEF vars
<1> QED
  BY <1>1, InsertFrame, DeviceFrame, TickFrame, CrashFrame, ConsumeFrame, FtpFrame DEF Next, Ftp

\* If every answer finds its command open, carries its file and comes once, an operator
\* sees on a row the photo of its own alarm or an upload with whose second and camera
\* that photo's name begins: whoever brings it, the device's answer or its uploads, in
\* whatever order, and whatever statement fails on the way.
THEOREM RowsShowTheirOwn == Spec => []ShowsItsOwn
<1>1. Init => OwnInv
  BY DEF Init, NoAck, OwnInv, RowsOwn, AnswersOwn
<1>2. TypeInv /\ OwnInv /\ [Next]_vars => OwnInv'
  BY AnswersStep, RowsOwnStep, HabitsKept DEF OwnInv, Punctual
<1>3. OwnInv => ShowsItsOwn
  BY DEF OwnInv, Punctual, RowsOwn, ShowsItsOwn
<1> QED
  BY <1>1, <1>2, <1>3, TypeInit, TypeStep, PTL DEF Spec

-----------------------------------------------------------------------------
(* No row is stranded *)

Undisturbed == habits \cap {"crash", "store", "expiry", "error", "quick"} = {}

InHand(r) == \E w \in Workers : \E i \in DOMAIN worker[w].queue : worker[w].queue[i] = r

\* The answer to the command of a row is yet to come, under way or being handled.
Underway(r) ==
    \/ r \notin answered
    \/ \E m \in wire : m.row = r
    \/ ack.pc # "idle" /\ ack.row = r

Commanded(r) == r \in linked /\ Issued(r) /\ Underway(r)

Worked(r) == status[r] = "FETCHING" => InHand(r) \/ Commanded(r)

\* The row about to be linked has a command, and no answer can be faster than the link.
LinkInv ==
    /\ \A r \in answered : Issued(r)
    /\ \A w \in Workers : worker[w].pc = "link" => Issued(Row(w)) /\ Row(w) \notin answered

\* A row that is or may be worked on names its file, so the answer finds it by name.
NamedInv == \A r \in Rows : status[r] \in {"PENDING", "FETCHING"} \/ InHand(r) => name[r] = r

WorkInv == LinkInv /\ NamedInv /\ \A r \in Rows : Worked(r)

\* Only the head of the queue leaves it, and its worker has then nothing to link.
LEMMA RestHands ==
  ASSUME TypeInv, NEW w \in Workers, worker[w].pc # "idle", Rest(w)
  PROVE  /\ \A r \in Rows : InHand(r)' => InHand(r)
         /\ \A r \in Rows : InHand(r) /\ r # Row(w) => InHand(r)'
         /\ \A v \in Workers : worker'[v].pc = "link" => worker'[v] = worker[v]
<1> DEFINE q == worker[w].queue
<1>1. q \in Seq(Rows) /\ q # <<>> /\ Row(w) = Head(q)
  BY DEF TypeInv, TypeOK, PcInv, Row
<1>2. Len(q) \in Nat \ {0} /\ DOMAIN q = 1 .. Len(q) /\ Row(w) = q[1]
  BY <1>1, EmptySeq
<1>3. \A v \in Workers \ {w} : worker'[v] = worker[v]
  BY DEF Rest, TypeInv, TypeOK
<1>4. worker'[w] = IF Len(q) = 1 THEN Resting ELSE [pc |-> "ask", queue |-> Tail(q)]
  BY DEF Rest, TypeInv, TypeOK
<1>5. worker'[w].pc # "link"
  BY <1>4 DEF Resting
<1>6. \A i \in DOMAIN worker'[w].queue : i + 1 \in DOMAIN q /\ worker'[w].queue[i] = q[i + 1]
  <2>1. CASE Len(q) = 1
    BY <1>4, <2>1 DEF Resting
  <2>2. CASE Len(q) # 1
    <3>1. /\ DOMAIN Tail(q) = 1 .. Len(q) - 1
          /\ \A i \in 1 .. Len(q) - 1 : Tail(q)[i] = q[i + 1]
      BY <1>1, <1>2, <2>2
    <3> QED
      BY <1>2, <1>4, <2>2, <3>1
  <2> QED
    BY <2>1, <2>2
<1>7. \A i \in DOMAIN q : i # 1 => i - 1 \in DOMAIN worker'[w].queue
                                   /\ worker'[w].queue[i - 1] = q[i]
  <2>1. CASE Len(q) = 1
    BY <1>2, <2>1
  <2>2. CASE Len(q) # 1
    <3>1. /\ DOMAIN Tail(q) = 1 .. Len(q) - 1
          /\ \A i \in 1 .. Len(q) - 1 : Tail(q)[i] = q[i + 1]
      BY <1>1, <1>2, <2>2
    <3> QED
      BY <1>2, <1>4, <2>2, <3>1
  <2> QED
    BY <2>1, <2>2
<1> HIDE DEF q
<1>8. ASSUME NEW r \in Rows, InHand(r)' PROVE InHand(r)
  <2>1. PICK v \in Workers : \E i \in DOMAIN worker'[v].queue : worker'[v].queue[i] = r
    BY <1>8 DEF InHand
  <2>2. CASE v = w
    BY <1>6, <2>1, <2>2 DEF InHand, q
  <2>3. CASE v # w
    BY <1>3, <2>1, <2>3 DEF InHand
  <2> QED
    BY <2>2, <2>3
<1>9. ASSUME NEW r \in Rows, InHand(r), r # Row(w) PROVE InHand(r)'
  <2>1. PICK v \in Workers : \E i \in DOMAIN worker[v].queue : worker[v].queue[i] = r
    BY <1>9 DEF InHand
  <2>2. CASE v = w
    <3>1. PICK i \in DOMAIN q : q[i] = r
      BY <2>1, <2>2 DEF q
    <3>2. i - 1 \in DOMAIN worker'[w].queue /\ worker'[w].queue[i - 1] = r
      BY <1>2, <1>7, <1>9, <3>1
    <3> QED
      BY <3>2 DEF InHand
  <2>3. CASE v # w
    BY <1>3, <2>1, <2>3 DEF InHand
  <2> QED
    BY <2>2, <2>3
<1> QED
  BY <1>3, <1>5, <1>8, <1>9

\* An action that leaves the queues alone.
LEMMA SameHands ==
  ASSUME \A w \in Workers : worker'[w].queue = worker[w].queue
  PROVE  \A r \in Rows : InHand(r)' <=> InHand(r)
  BY DEF InHand

\* A claim takes PENDING rows into the hands of a worker that had none.
LEMMA ClaimHands ==
  ASSUME TypeInv, NEW w \in Workers, Claim(w)
  PROVE  /\ \A r \in Rows : InHand(r)' => InHand(r) \/ status[r] = "PENDING"
         /\ \A r \in Rows : InHand(r) => InHand(r)'
         /\ \A r \in Rows : status'[r] = status[r] \/ (status'[r] = "FETCHING" /\ InHand(r)')
         /\ \A v \in Workers : worker'[v].pc = "link" => worker'[v] = worker[v]
<1>1. PICK b \in Batches \ {<<>>} :
        /\ worker' = [worker EXCEPT ![w] = [pc |-> "ask", queue |-> b]]
        /\ status' = [r \in Rows |-> IF \E i \in DOMAIN b : b[i] = r THEN "FETCHING"
                                     ELSE status[r]]
  BY DEF Claim
<1>2. DOMAIN b = 1 .. Len(b) /\ \A i \in DOMAIN b : b[i] \in Rows /\ status[b[i]] = "PENDING"
  BY BatchOfRows DEF claimable
<1>3. /\ worker'[w].pc = "ask" /\ worker'[w].queue = b
      /\ \A v \in Workers \ {w} : worker'[v] = worker[v]
      /\ worker[w].queue = <<>>
  BY <1>1 DEF Claim, Resting, TypeInv, TypeOK
<1>4. ASSUME NEW r \in Rows, InHand(r)' PROVE InHand(r) \/ status[r] = "PENDING"
  <2>1. PICK v \in Workers : \E i \in DOMAIN worker'[v].queue : worker'[v].queue[i] = r
    BY <1>4 DEF InHand
  <2> QED
    BY <1>2, <1>3, <2>1 DEF InHand
<1>5. ASSUME NEW r \in Rows, InHand(r) PROVE InHand(r)'
  <2>1. PICK v \in Workers : \E i \in DOMAIN worker[v].queue : worker[v].queue[i] = r
    BY <1>5 DEF InHand
  <2>2. v # w
    BY <1>3, <2>1
  <2> QED
    BY <1>3, <2>1, <2>2 DEF InHand
<1>6. ASSUME NEW r \in Rows, \E i \in DOMAIN b : b[i] = r PROVE InHand(r)'
  BY <1>3, <1>6 DEF InHand
<1>7. \A r \in Rows : status'[r] = status[r] \/ (status'[r] = "FETCHING" /\ InHand(r)')
  BY <1>1, <1>6
<1> QED
  BY <1>3, <1>4, <1>5, <1>7

\* What a step does to the queues: who is in hand comes from a claim, and who leaves
\* is linked, has failed, or was dropped with the batch.
LEMMA HandsStep ==
  ASSUME TypeInv, [Next]_vars
  PROVE  /\ \A r \in Rows : InHand(r)' => InHand(r) \/ status[r] = "PENDING"
         /\ \A w \in Workers : worker'[w].pc = "link" =>
              worker'[w] = worker[w] \/ Ask(w)
<1>1. ASSUME UNCHANGED worker
      PROVE  /\ \A r \in Rows : InHand(r)' => InHand(r) \/ status[r] = "PENDING"
             /\ \A w \in Workers : worker'[w].pc = "link" => worker'[w] = worker[w]
  BY <1>1 DEF InHand
<1>2. ASSUME NEW w \in Workers, Ask(w) \/ AskFails(w) \/ LinkFails(w)
      PROVE  /\ \A v \in Workers : worker'[v].queue = worker[v].queue
             /\ \A v \in Workers : worker'[v].pc = "link" => worker'[v] = worker[v] \/ Ask(v)
  <2>1. PICK pc \in {"link", "fail"} :
          worker' = [worker EXCEPT ![w].pc = pc] /\ (pc = "link" => Ask(w))
    BY <1>2 DEF Ask, AskFails, LinkFails
  <2>2. worker \in [Workers -> WorkerRows]
    BY Typed DEF Parts
  <2>3. /\ worker'[w].pc = pc /\ worker'[w].queue = worker[w].queue
        /\ \A v \in Workers \ {w} : worker'[v] = worker[v]
    BY ONLY <2>1, <2>2, w \in Workers DEF WorkerRows
  <2> QED
    BY <2>1, <2>3
<1>3. ASSUME NEW w \in Workers, Link(w) \/ MarkFailed(w) PROVE worker[w].pc # "idle" /\ Rest(w)
  BY <1>3 DEF Link, MarkFailed
<1>4. ASSUME NEW w \in Workers, TickFails(w) \/ Crash(w)
      PROVE  /\ \A r \in Rows : InHand(r)' => InHand(r)
             /\ \A v \in Workers : worker'[v].pc = "link" => worker'[v] = worker[v]
  <2>1. /\ worker'[w].pc = "idle" /\ worker'[w].queue = <<>>
        /\ \A v \in Workers \ {w} : worker'[v] = worker[v]
    BY <1>4 DEF TickFails, Crash, Resting, TypeInv, TypeOK
  <2> QED
    BY <2>1 DEF InHand
<1>5. CASE UNCHANGED worker
  BY <1>1, <1>5
<1>6. CASE \E w \in Workers : Tick(w) \/ TickFails(w) \/ Crash(w)
  BY <1>2, <1>3, <1>4, <1>6, SameHands, RestHands, ClaimHands DEF Tick
<1>7. CASE UNCHANGED vars
  BY <1>5, <1>7 DEF vars
<1> QED
  BY <1>5, <1>6, <1>7, InsertFrame, DeviceFrame, ConsumeFrame, FtpFrame DEF Next, Ftp

\* The commands there are stay, and a new one is that of the row a worker asks for.
LEMMA IssuedStep ==
  ASSUME TypeInv, [Next]_vars
  PROVE  /\ \A r \in Rows : Issued(r) => Issued(r)'
         /\ \A w \in Workers : Ask(w) => Row(w) \in Rows /\ Row(w)' = Row(w) /\ Issued(Row(w))'
<1>1. ASSUME UNCHANGED issued PROVE \A r \in Rows : Issued(r) => Issued(r)'
  BY <1>1 DEF Issued
<1>2. ASSUME NEW w \in Workers, Ask(w)
      PROVE  /\ \A r \in Rows : Issued(r) => Issued(r)'
             /\ Row(w) \in Rows /\ Row(w)' = Row(w) /\ Issued(Row(w))'
  <2>1. /\ issued' = Append(issued, Row(w)) /\ issued \in Seq(Rows) /\ Row(w) \in Rows
        /\ Row(w)' = Row(w)
    BY <1>2, EmptySeq DEF Ask, Row, TypeInv, TypeOK, PcInv
  <2>2. /\ issued' \in Seq(Rows) /\ Len(issued') = Len(issued) + 1
        /\ issued'[Len(issued) + 1] = Row(w)
        /\ \A i \in 1 .. Len(issued) : issued'[i] = issued[i]
    BY ONLY <2>1, AppendProperties
  <2>3. DOMAIN issued = 1 .. Len(issued) /\ DOMAIN issued' = 1 .. Len(issued')
        /\ Len(issued) \in Nat
    BY ONLY <2>1, <2>2
  <2> QED
    BY <2>1, <2>2, <2>3 DEF Issued
<1> QED
  BY <1>1, <1>2, IssuedFrame

LEMMA LinkStep ==
  ASSUME TypeInv, TypeInv', QueueInv, Undisturbed, LinkInv, [Next]_vars PROVE LinkInv'
<1>1. /\ answered \subseteq Rows /\ answered' \subseteq Rows
      /\ \A w \in Workers : worker[w].pc = "link" => Row(w) \in Rows
  BY EmptySeq DEF TypeInv, TypeOK, PcInv, Row
<1>2. answered' = answered \/ \E r \in Rows : Answer(r)
  <2>1. CASE UNCHANGED vars
    BY <2>1 DEF vars, device
  <2> QED
    BY <2>1, InsertFrame, DeviceFrame, TickFrame, CrashFrame, ConsumeFrame, FtpFrame
    DEF Next, Ftp
<1>3. ASSUME NEW r \in Rows, Answer(r)
      PROVE  /\ answered' = answered \cup {r} /\ Issued(r) /\ UNCHANGED worker
             /\ \A w \in Workers : worker[w].pc = "link" => Row(w) # r
  BY <1>3 DEF Answer, Linking, Issued, Undisturbed
<1>4. \A r \in answered' : Issued(r)'
  BY <1>1, <1>2, <1>3, IssuedStep DEF LinkInv
<1>5. ASSUME NEW w \in Workers, worker'[w].pc = "link"
      PROVE  Issued(Row(w))' /\ Row(w)' \notin answered'
  <2>1. CASE Ask(w)
    <3>1. Issued(Row(w))' /\ Row(w)' = Row(w)
      BY <2>1, IssuedStep
    <3>2. /\ worker[w].pc = "ask" /\ 1 \in DOMAIN worker[w].queue
          /\ Row(w) = worker[w].queue[1] /\ answered' = answered
      BY <2>1, EmptySeq DEF Ask, Row, TypeInv, TypeOK, PcInv, device
    <3>3. ~Issued(Row(w))
      BY <3>2 DEF QueueInv, Begun
    <3> QED
      BY <3>1, <3>2, <3>3 DEF LinkInv
  <2>2. CASE worker'[w] = worker[w]
    <3>1. Row(w)' = Row(w) /\ worker[w].pc = "link"
      BY <1>5, <2>2 DEF Row
    <3>2. Row(w) \in Rows /\ Issued(Row(w)) /\ Row(w) \notin answered
      BY <1>1, <3>1 DEF LinkInv
    <3>3. Issued(Row(w))'
      BY <3>1, <3>2, IssuedStep DEF Issued
    <3>4. Row(w) \notin answered'
      BY <1>2, <1>3, <3>1, <3>2
    <3> QED
      BY <3>1, <3>3, <3>4
  <2> QED
    BY <1>5, <2>1, <2>2, HandsStep
<1> QED
  BY <1>4, <1>5 DEF LinkInv

\* A row that names its file goes on naming it.
LEMMA NameStays ==
  ASSUME TypeInv, AnswersOwn, [Next]_vars, NEW r \in Rows, name[r] = r PROVE name'[r] = r
<1>1. ASSUME NEW q \in Rows, Insert(q) PROVE name'[r] = r
  <2>1. name' = name \/ name' = [name EXCEPT ![q] = q]
    BY <1>1, Zenon DEF Insert
  <2> QED
    BY <2>1 DEF TypeInv, TypeOK
<1>2. CASE Consume
  <2>1. CASE MarkReady
    <3>1. name' = [name EXCEPT ![ack.row] = ack.msg.row] /\ ack.msg.row = ack.row
      BY <2>1 DEF MarkReady, AnswersOwn
    <3> QED
      BY <3>1 DEF TypeInv, TypeOK
  <2>2. CASE MarkReadyByName \/ FailByCommand
    BY <2>2 DEF MarkReadyByName, FailByCommand, Attach
  <2> QED
    BY <1>2, <2>1, <2>2, ReceiveFrame DEF Consume
<1>3. CASE UNCHANGED vars
  BY <1>3 DEF vars, evidence
<1> QED
  BY <1>1, <1>2, <1>3, DeviceFrame, TickFrame, CrashFrame, FtpFrame DEF Next, Ftp

\* A row becomes PENDING when it is inserted, and then names its file; FETCHING when it
\* is PENDING or in hand.
LEMMA StatusStep ==
  ASSUME TypeInv, [Next]_vars, NEW r \in Rows, status'[r] \in {"PENDING", "FETCHING"}
  PROVE  status[r] \in {"PENDING", "FETCHING"} \/ InHand(r) \/ name'[r] = r
<1>0. status \in [Rows -> Statuses] /\ name \in [Rows -> Rows \cup {None}]
  BY DEF TypeInv, TypeOK
<1>1. CASE status' = status
  BY <1>1
<1>2. ASSUME NEW q \in Rows, Insert(q)
      PROVE  status[r] \in {"PENDING", "FETCHING"} \/ name'[r] = r
  <2>1. \/ /\ status' = [status EXCEPT ![q] = "PENDING"]
           /\ name' = [name EXCEPT ![q] = q]
        \/ status' = [status EXCEPT ![q] = "SKIPPED_COOLDOWN"]
        \/ status' = [status EXCEPT ![q] = "PHOTO_MISSING"]
    BY <1>2, Zenon DEF Insert
  <2> QED
    BY <1>0, <2>1
<1>3. ASSUME NEW rows, NEW f, Attach(rows, f) PROVE status[r] \in {"PENDING", "FETCHING"}
  BY <1>3 DEF Attach
<1>4. ASSUME NEW w \in Workers, Claim(w) PROVE status[r] \in {"PENDING", "FETCHING"}
  <2>1. PICK b \in Batches \ {<<>>} :
          status' = [p \in Rows |-> IF \E i \in DOMAIN b : b[i] = p THEN "FETCHING"
                                    ELSE status[p]]
    BY <1>4 DEF Claim
  <2>2. DOMAIN b = 1 .. Len(b) /\ \A i \in DOMAIN b : status[b[i]] = "PENDING"
    BY BatchOfRows DEF claimable
  <2> QED
    BY <2>1, <2>2
<1>5. ASSUME NEW w \in Workers, Link(w) PROVE status[r] \in {"PENDING", "FETCHING"} \/ InHand(r)
  <2>1. status' = [status EXCEPT ![Row(w)] = "FETCHING"]
        /\ 1 \in DOMAIN worker[w].queue /\ Row(w) = worker[w].queue[1]
    BY <1>5, EmptySeq DEF Link, Row, TypeInv, TypeOK, PcInv
  <2> QED
    BY <1>0, <2>1 DEF InHand
<1>6. ASSUME NEW w \in Workers, MarkFailed(w) PROVE status[r] \in {"PENDING", "FETCHING"}
  BY <1>0, <1>6 DEF MarkFailed
<1>7. ASSUME MarkReady \/ FailByCommand PROVE status[r] \in {"PENDING", "FETCHING"}
  BY <1>0, <1>7 DEF MarkReady, FailByCommand
<1>8. ASSUME NEW w \in Workers, Ask(w) \/ AskFails(w) \/ LinkFails(w) \/ TickFails(w)
      PROVE  status' = status
  BY <1>8 DEF Ask, AskFails, LinkFails, TickFails, evidence
<1>9. CASE \E q \in Rows : Insert(q) \/ Answer(q) \/ Expire(q)
  BY <1>1, <1>2, <1>9, DeviceFrame
<1>10. CASE \E w \in Workers : Tick(w) \/ TickFails(w) \/ Crash(w)
  BY <1>1, <1>4, <1>5, <1>6, <1>8, <1>10, CrashFrame DEF Tick
<1>11. CASE Ftp
  BY <1>1, <1>3, <1>11, FtpFrame DEF AttachAlike
<1>12. CASE Consume
  BY <1>1, <1>3, <1>7, <1>12, ReceiveFrame DEF Consume, MarkReadyByName
<1>13. CASE UNCHANGED vars
  BY <1>1, <1>13 DEF vars, evidence
<1> QED
  BY ONLY <1>9, <1>10, <1>11, <1>12, <1>13, [Next]_vars DEF Next, Ftp

LEMMA NamedStep == TypeInv /\ AnswersOwn /\ NamedInv /\ [Next]_vars => NamedInv'
<1> SUFFICES ASSUME TypeInv, AnswersOwn, NamedInv, [Next]_vars, NEW r \in Rows,
                    status'[r] \in {"PENDING", "FETCHING"} \/ InHand(r)'
             PROVE  name'[r] = r
  BY DEF NamedInv
<1>1. status[r] \in {"PENDING", "FETCHING"} \/ InHand(r) \/ name'[r] = r
  BY StatusStep, HandsStep
<1> QED
  BY <1>1, NameStays DEF NamedInv

\* A row in FETCHING stays in hand until it is linked or has failed, and commanded until
\* the handling of its answer has taken it out of FETCHING.
LEMMA WorkedStep ==
  ASSUME TypeInv, Undisturbed, AnswersOwn, WorkInv, [Next]_vars, NEW r \in Rows
  PROVE  Worked(r)'
<1>0. Worked(r) /\ LinkInv /\ NamedInv /\ status \in [Rows -> Statuses]
  BY DEF WorkInv, TypeInv, TypeOK
<1>1. ASSUME status'[r] = "FETCHING" => status[r] = "FETCHING", InHand(r) => InHand(r)',
             Issued(r) => Issued(r)', linked \subseteq linked', Underway(r) => Underway(r)'
      PROVE  Worked(r)'
  BY <1>0, <1>1 DEF Worked, Commanded
<1>2. ASSUME status'[r] = "FETCHING" => status[r] = "FETCHING",
             UNCHANGED <<linked, worker, issued, answered, wire, ack>>
      PROVE  Worked(r)'
  BY <1>1, <1>2 DEF InHand, Issued, Underway
<1>3. ASSUME NEW q \in Rows, Insert(q) PROVE Worked(r)'
  <2>1. \/ status' = [status EXCEPT ![q] = "PENDING"]
        \/ status' = [status EXCEPT ![q] = "SKIPPED_COOLDOWN"]
        \/ status' = [status EXCEPT ![q] = "PHOTO_MISSING"]
    BY <1>3, Zenon DEF Insert
  <2>2. status'[r] = "FETCHING" => status[r] = "FETCHING"
    BY <1>0, <2>1
  <2> QED
    BY <1>2, <1>3, <2>2, InsertFrame
<1>4. CASE Ftp
  <2>1. status'[r] = "FETCHING" => status[r] = "FETCHING"
    BY <1>4, FtpFrame DEF AttachAlike, Attach
  <2> QED
    BY <1>2, <1>4, <2>1, FtpFrame
<1>5. ASSUME NEW q \in Rows, Answer(q) PROVE Worked(r)'
  <2>1. PICK kind \in {"photo", "error", "rejected"} :
          wire' = wire \cup {[row |-> q, kind |-> kind]}
    BY <1>5 DEF Answer
  <2>2. answered' = answered \cup {q} /\ UNCHANGED <<status, linked, worker, issued, ack>>
    BY <1>5, DeviceFrame DEF Answer
  <2>3. [row |-> q, kind |-> kind] \in wire' /\ wire \subseteq wire'
    BY <2>1
  <2>4. r = q => \E m \in wire' : m.row = r
    BY ONLY <2>3
  <2>5. Underway(r) => Underway(r)'
    BY <2>2, <2>3, <2>4 DEF Underway
  <2> QED
    BY <1>1, <2>2, <2>5 DEF InHand, Issued
<1>6. ASSUME NEW w \in Workers, Claim(w) PROVE Worked(r)'
  <2>1. UNCHANGED <<linked, issued, answered, wire, ack>>
    BY <1>6 DEF Claim, commands, device
  <2>2. /\ InHand(r) => InHand(r)'
        /\ status'[r] = status[r] \/ InHand(r)'
    BY <1>6, ClaimHands
  <2>3. CASE InHand(r)'
    BY <2>3 DEF Worked
  <2>4. CASE status'[r] = status[r]
    BY <1>1, <2>1, <2>2, <2>4 DEF Issued, Underway
  <2> QED
    BY <2>2, <2>3, <2>4
<1>7. ASSUME NEW w \in Workers, Ask(w) \/ AskFails(w) \/ LinkFails(w) PROVE Worked(r)'
  <2>1. UNCHANGED <<status, linked, answered, wire, ack>>
    BY <1>7 DEF Ask, AskFails, LinkFails, evidence, device
  <2>2. \A v \in Workers : worker'[v].queue = worker[v].queue
    <3>1. PICK pc \in {"link", "fail"} : worker' = [worker EXCEPT ![w].pc = pc]
      BY <1>7 DEF Ask, AskFails, LinkFails
    <3>2. worker \in [Workers -> WorkerRows]
      BY Typed DEF Parts
    <3> QED
      BY ONLY <3>1, <3>2, w \in Workers DEF WorkerRows
  <2>3. Issued(r) => Issued(r)'
    BY IssuedStep
  <2> QED
    BY <1>1, <2>1, <2>2, <2>3, SameHands DEF Underway
<1>8. ASSUME NEW w \in Workers, Link(w) \/ MarkFailed(w) PROVE Worked(r)'
  <2>1. worker[w].pc # "idle" /\ Rest(w) /\ UNCHANGED <<issued, answered, wire, ack>>
    BY <1>8 DEF Link, MarkFailed, commands, device
  <2>2. CASE r # Row(w)
    <3>1. status'[r] = status[r] /\ linked \subseteq linked'
      BY <1>0, <1>8, <2>2 DEF Link, MarkFailed
    <3>2. InHand(r) => InHand(r)'
      BY <2>1, <2>2, RestHands
    <3> QED
      BY <1>1, <2>1, <3>1, <3>2 DEF Issued, Underway
  <2>3. CASE r = Row(w) /\ Link(w)
    <3>1. worker[w].pc = "link" /\ r \in linked'
      BY <2>3 DEF Link
    <3>2. Issued(r) /\ r \notin answered
      BY <1>0, <2>3, <3>1 DEF LinkInv
    <3> QED
      BY <2>1, <3>1, <3>2 DEF Worked, Commanded, Issued, Underway
  <2>4. CASE r = Row(w) /\ MarkFailed(w)
    BY <1>0, <2>4 DEF MarkFailed, Worked
  <2> QED
    BY <1>8, <2>2, <2>3, <2>4
<1>9. /\ \A w \in Workers : ~Crash(w) /\ ~TickFails(w)
      /\ \A q \in Rows : ~Expire(q)
      /\ ~Swallow
  BY DEF Crash, TickFails, Expire, Swallow, Undisturbed
<1>10. ASSUME NEW m \in wire, Receive(m) PROVE Worked(r)'
  <2>1. /\ wire' = wire \ {m} /\ UNCHANGED <<status, linked, worker, issued, answered>>
        /\ ack.pc = "idle" /\ m.kind \in {"photo", "rejected"} /\ m.row \in open
    BY <1>10 DEF Receive, NoAck, AnswersOwn, TypeInv, TypeOK, Messages, evidence, commands
  <2>2. ack'.pc # "idle" /\ ack'.row = m.row
    BY <1>10, <2>1 DEF Receive, latestPendingByCode, Undisturbed
  <2>3. Underway(r) => Underway(r)'
    BY <2>1, <2>2 DEF Underway
  <2> QED
    BY <1>1, <2>1, <2>3 DEF InHand, Issued
<1>11. ASSUME CloseCommand \/ FindByCommand \/ MarkReady PROVE Worked(r)'
  <2>1. /\ ack'.pc # "idle" /\ ack'.row = ack.row
        /\ UNCHANGED <<linked, worker, issued, answered, wire>>
    BY <1>11, Typed DEF CloseCommand, FindByCommand, MarkReady, Parts, AckRows, NoAck, evidence,
                        commands, device
  <2>2. status'[r] = "FETCHING" => status[r] = "FETCHING"
    BY <1>0, <1>11 DEF CloseCommand, FindByCommand, MarkReady, evidence
  <2> QED
    BY <1>1, <2>1, <2>2 DEF InHand, Issued, Underway
<1>12. ASSUME MarkReadyByName \/ FailByCommand
       PROVE  UNCHANGED <<linked, worker, issued, answered, wire>>
  BY <1>12 DEF MarkReadyByName, FailByCommand, Attach, EndAck, Undisturbed, commands
<1>13. ASSUME MarkReadyByName PROVE Worked(r)'
  <2>1. ack.pc = "name" /\ ack.msg.row = ack.row /\ Attach(Waiting({ack.msg.row}), ack.msg.row)
    BY <1>13 DEF MarkReadyByName, AnswersOwn
  <2>2. status'[r] = "FETCHING" => status[r] = "FETCHING" /\ r \notin Waiting({ack.msg.row})
    BY <1>0, <2>1 DEF Attach
  <2>3. status'[r] = "FETCHING" => ack.row # r
    BY <1>0, <2>1, <2>2 DEF NamedInv, Waiting, PHOTO_ATTACHABLE_STATUSES
  <2>4. ack.row # r /\ Underway(r) => Underway(r)'
    BY <1>12, <1>13 DEF Underway
  <2> QED
    BY <1>0, <1>12, <1>13, <2>2, <2>3, <2>4 DEF Worked, Commanded, InHand, Issued
<1>14. ASSUME FailByCommand PROVE Worked(r)'
  <2>1. status' = IF ack.row \in linked THEN [status EXCEPT ![ack.row] = "PHOTO_FAILED"]
                  ELSE status
    BY <1>14 DEF FailByCommand
  <2>2. status'[r] = "FETCHING" => status[r] = "FETCHING" /\ (r \in linked => ack.row # r)
    BY <1>0, <2>1
  <2>3. ack.row # r /\ Underway(r) => Underway(r)'
    BY <1>12, <1>14 DEF Underway
  <2> QED
    BY <1>0, <1>12, <1>14, <2>2, <2>3 DEF Worked, Commanded, InHand, Issued
<1>15. CASE UNCHANGED vars
  BY <1>2, <1>15 DEF vars, evidence, commands, device
<1>16. CASE \E q \in Rows : Insert(q) \/ Answer(q) \/ Expire(q)
  BY ONLY <1>3, <1>5, <1>9, <1>16
<1>17. CASE \E w \in Workers : Tick(w) \/ TickFails(w) \/ Crash(w)
  BY ONLY <1>6, <1>7, <1>8, <1>9, <1>17 DEF Tick
<1>18. CASE Consume
  BY ONLY <1>9, <1>10, <1>11, <1>13, <1>14, <1>18 DEF Consume
<1> QED
  BY ONLY <1>4, <1>15, <1>16, <1>17, <1>18, [Next]_vars DEF Next, Ftp

\* If no instance dies, no statement fails that finishes a row, every answer finds its
\* command open and none precedes the link to it, then a row is never left in FETCHING
\* with nobody to take it further: not by two instances, a rejection, an upload that
\* crosses the answer, or a request that fails.
THEOREM FetchingStaysWorked == Spec => []FetchingIsWorked
<1> DEFINE Inv == TypeInv /\ QueueInv /\ OwnInv /\ (Undisturbed => WorkInv)
<1>1. Init => QueueInv /\ OwnInv /\ WorkInv
  <2> SUFFICES ASSUME Init PROVE QueueInv /\ OwnInv /\ WorkInv
    OBVIOUS
  <2>1. QueueInv /\ OwnInv
    BY DEF Init, Resting, NoAck, QueueInv, Fresh, Issued, OwnInv, RowsOwn, AnswersOwn
  <2>2. LinkInv /\ NamedInv /\ \A r \in Rows : Worked(r)
    BY DEF Init, Resting, LinkInv, NamedInv, InHand, Worked
  <2> QED
    BY <2>1, <2>2 DEF WorkInv
<1>2. Inv /\ [Next]_vars => Inv'
  <2> SUFFICES ASSUME Inv, [Next]_vars PROVE Inv'
    OBVIOUS
  <2>1. TypeInv' /\ QueueInv'
    BY TypeStep, QueueStep
  <2>2. OwnInv'
    BY AnswersStep, RowsOwnStep, HabitsKept DEF OwnInv, Punctual
  <2>3. ASSUME Undisturbed' PROVE WorkInv'
    <3>1. Undisturbed /\ WorkInv /\ LinkInv /\ NamedInv
      BY <2>3, HabitsKept DEF Undisturbed, WorkInv
    <3>2. AnswersOwn
      BY <3>1 DEF OwnInv, Punctual, Undisturbed
    <3> QED
      BY <2>1, <3>1, <3>2, LinkStep, NamedStep, WorkedStep DEF WorkInv
  <2> QED
    BY <2>1, <2>2, <2>3
<1>3. Inv => FetchingIsWorked
  BY DEF Undisturbed, WorkInv, Worked, InHand, Commanded, Issued, Underway, FetchingIsWorked
<1> QED
  BY <1>1, <1>2, <1>3, TypeInit, PTL DEF Spec
===============================================================================
