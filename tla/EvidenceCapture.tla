---------------------------- MODULE EvidenceCapture ----------------------------
(***************************************************************************)
(* The photo of an alarm of one device, from the evidence row to the bytes *)
(* an operator sees:                                                       *)
(*                                                                         *)
(*   AlarmEvidenceService      inserts the row, PENDING or not             *)
(*   EvidenceCaptureWorker     claims rows, asks the device (D00)          *)
(*   CommandAckConsumer        matches an answer with an open command and  *)
(*                             stores the photo                            *)
(*   FtpPhotoIngest            stores what the device uploads by itself    *)
(*                                                                         *)
(* Every statement on the row is a step.  The command of a row is named by *)
(* the row, and so is the file it asks for; how commands reach the device  *)
(* is the subject of CommandPipeline.  The video of a row is fetched by    *)
(* the same worker in the same way, and is left out.                       *)
(***************************************************************************)
EXTENDS Naturals, Sequences, FiniteSets

CONSTANTS
    Rows,       \* evidence rows of the device, oldest first
    Workers,    \* instances of fleet-management-service
    BatchSize,  \* rows of one claim
    Alike,      \* Alike[f]: the files whose names begin with f's second and camera
    MaxUnmatched,   \* MAX_UNMATCHED
    HabitSets,  \* the sets of habits to consider
    None        \* no file, no row, no message

\* error: the device may answer that it has no such photo; reject: the gateway
\* may reject a command; quick: the answer may precede the end of the request;
\* expiry: the TTL of a command may pass before its answer; upload: the device
\* uploads photos; crash: an instance dies, or an answer that it handled comes
\* again, its offset not committed; db: asking for a row's photo fails; store: a
\* statement fails that closes a command or finishes a row, or finds either.
HabitKinds == {"error", "reject", "quick", "expiry", "upload", "crash", "db", "store"}

\* The file of row r, if its alarm names one, is r as well.  A file that no row
\* names is one whose name the unit has given a suffix; Alike[f] is {} if f's name
\* does not begin with a second and a camera.
ASSUME RowsAssumption == Rows \subseteq Nat /\ IsFiniteSet(Rows) /\ None \notin Rows
ASSUME BatchAssumption == BatchSize \in Nat \ {0}
ASSUME AlikeAssumption == Alike \in [Rows -> SUBSET Rows]
ASSUME UnmatchedAssumption == MaxUnmatched \in Nat \ {0}
ASSUME HabitsAssumption == HabitSets \subseteq SUBSET HabitKinds

VARIABLES
    status,     \* status[r]: the row's status, "NONE" before the insert
    name,       \* name[r]: photo_name, the file of row name[r]
    photo,      \* photo[r]: photo_bytes, the file of row photo[r]
    linked,     \* rows with a command_id
    worker,     \* worker[w]: where the tick of an instance is
    issued,     \* the rows of the D00 commands, in the order they were issued
    open,       \* commands QUEUED or SENT
    answered,   \* commands the device or the gateway has answered
    wire,       \* answers under way to the ack consumer
    ack,        \* where the ack consumer is
    unmatched,  \* unmatched[w]: uploads that have found no row yet, oldest first
    handling,   \* uploads being attached, new ones and batches of unmatched ones
    uploaded,   \* files the device has uploaded
    habits      \* what may happen in this behaviour

evidence == <<status, name, photo, linked>>
commands == <<issued, open>>
device == <<answered, wire>>
ftp == <<unmatched, handling, uploaded>>
vars == <<evidence, worker, commands, device, ack, ftp, habits>>

Statuses == {"NONE", "PENDING", "FETCHING", "PHOTO_READY", "PHOTO_MISSING",
             "PHOTO_FAILED", "SKIPPED_COOLDOWN"}
PHOTO_ATTACHABLE_STATUSES == {"PENDING", "FETCHING", "PHOTO_FAILED", "SKIPPED_COOLDOWN"}

Resting == [pc |-> "idle", queue |-> <<>>]
NoAck == [pc |-> "idle", row |-> None, msg |-> None]

Messages == [row : Rows, kind : {"photo", "error", "rejected"}]

\* again: the files are from unmatched; they are attached one after the other, by
\* name first, then by stem.
Tasks == [at : Workers, files : Seq(Rows) \ {<<>>}, step : {"name", "stem"}, again : BOOLEAN]

TypeOK ==
    /\ status \in [Rows -> Statuses]
    /\ name \in [Rows -> Rows \cup {None}] /\ photo \in [Rows -> Rows \cup {None}]
    /\ linked \subseteq Rows
    /\ worker \in [Workers -> [pc : {"idle", "ask", "link", "fail"}, queue : Seq(Rows)]]
    /\ issued \in Seq(Rows) /\ open \subseteq Rows /\ answered \subseteq Rows
    /\ wire \subseteq Messages
    /\ ack \in {NoAck} \cup [pc : {"acked", "failed", "find", "ready", "name", "fail"},
                            row : Rows, msg : Messages]
    /\ unmatched \in [Workers -> Seq(Rows)] /\ handling \subseteq Tasks
    /\ uploaded \subseteq Rows
    /\ habits \in HabitSets

-----------------------------------------------------------------------------
(* AlarmEvidenceService.enqueueForDeviceAlarm *)

Insert(r) ==
    /\ status[r] = "NONE" /\ \A q \in Rows : q < r => status[q] # "NONE"
    /\ \/ /\ status' = [status EXCEPT ![r] = "PENDING"]
          /\ name' = [name EXCEPT ![r] = r]
       \/ /\ \E q \in Rows : q < r   \* a capture of the last minute
          /\ status' = [status EXCEPT ![r] = "SKIPPED_COOLDOWN"]
          /\ \/ name' = [name EXCEPT ![r] = r]
             \/ UNCHANGED name
       \/ /\ status' = [status EXCEPT ![r] = "PHOTO_MISSING"]
          /\ UNCHANGED name
    /\ UNCHANGED <<photo, linked, worker, commands, device, ack, ftp, habits>>

-----------------------------------------------------------------------------
(* EvidenceCaptureWorker.processPhotos *)

\* A faulty variant: what is being fetched is claimed again.
claimable_Unfinished == {r \in Rows : status[r] \in {"PENDING", "FETCHING"}}

claimable == {r \in Rows : status[r] = "PENDING"}

\* The oldest rows that are due, in order.
Batches ==
    LET oldest == {r \in claimable : Cardinality({q \in claimable : q < r}) < BatchSize}
    IN  {q \in [1 .. Cardinality(oldest) -> oldest] :
          \A i, j \in DOMAIN q : i < j => q[i] < q[j]}

\* claimPending: one transaction, FOR UPDATE SKIP LOCKED.
Claim(w) ==
    /\ worker[w] = Resting
    /\ \E batch \in Batches \ {<<>>} :
         /\ worker' = [worker EXCEPT ![w] = [pc |-> "ask", queue |-> batch]]
         /\ status' = [r \in Rows |-> IF \E i \in DOMAIN batch : batch[i] = r THEN "FETCHING"
                                      ELSE status[r]]
    /\ UNCHANGED <<name, photo, linked, commands, device, ack, ftp, habits>>

Row(w) == Head(worker[w].queue)

\* The worker turns to the next row of its batch.
Rest(w) ==
    worker' = [worker EXCEPT ![w] = IF Len(@.queue) = 1 THEN Resting
                                    ELSE [pc |-> "ask", queue |-> Tail(@.queue)]]

\* DeviceCommandService.create.
Ask(w) ==
    /\ worker[w].pc = "ask"
    /\ issued' = Append(issued, Row(w))
    /\ open' = open \cup {Row(w)}
    /\ worker' = [worker EXCEPT ![w].pc = "link"]
    /\ UNCHANGED <<evidence, device, ack, ftp, habits>>

\* create throws: the device is not ACTIVE, or Kafka is down.
AskFails(w) ==
    /\ worker[w].pc = "ask" /\ "db" \in habits
    /\ worker' = [worker EXCEPT ![w].pc = "fail"]
    /\ UNCHANGED <<evidence, commands, device, ack, ftp, habits>>

\* markFetchingWithCommand: whatever became of the row meanwhile.
Link(w) ==
    /\ worker[w].pc = "link"
    /\ status' = [status EXCEPT ![Row(w)] = "FETCHING"]
    /\ linked' = linked \cup {Row(w)}
    /\ Rest(w)
    /\ UNCHANGED <<name, photo, commands, device, ack, ftp, habits>>

LinkFails(w) ==
    /\ worker[w].pc = "link" /\ "db" \in habits
    /\ worker' = [worker EXCEPT ![w].pc = "fail"]
    /\ UNCHANGED <<evidence, commands, device, ack, ftp, habits>>

\* A faulty variant: the row is left as it is.
MarkFailed_Not(w) ==
    /\ worker[w].pc = "fail"
    /\ Rest(w)
    /\ UNCHANGED <<evidence, commands, device, ack, ftp, habits>>

MarkFailed(w) ==
    /\ worker[w].pc = "fail"
    /\ status' = [status EXCEPT ![Row(w)] = "PHOTO_FAILED"]
    /\ Rest(w)
    /\ UNCHANGED <<name, photo, linked, commands, device, ack, ftp, habits>>

\* markFailed throws: the tick ends, and what is left of the batch stays FETCHING.
TickFails(w) ==
    /\ worker[w].pc = "fail" /\ "store" \in habits
    /\ worker' = [worker EXCEPT ![w] = Resting]
    /\ UNCHANGED <<evidence, commands, device, ack, ftp, habits>>

\* An instance dies: its batch stays FETCHING, the uploads it has are gone, and an
\* answer that it was handling comes again.
Crash(w) ==
    /\ "crash" \in habits
    /\ worker' = [worker EXCEPT ![w] = Resting]
    /\ unmatched' = [unmatched EXCEPT ![w] = <<>>]
    /\ handling' = {t \in handling : t.at # w}
    /\ \/ UNCHANGED <<ack, wire>>
       \/ ack # NoAck /\ ack' = NoAck /\ wire' = wire \cup {ack.msg}
    /\ UNCHANGED <<evidence, commands, answered, uploaded, habits>>

-----------------------------------------------------------------------------
(* The device and the gateway *)

Linking(r) == \E w \in Workers : worker[w].pc = "link" /\ Row(w) = r

Answer(r) ==
    /\ (\E i \in DOMAIN issued : issued[i] = r) /\ r \notin answered
    /\ "quick" \in habits \/ ~Linking(r)
    /\ answered' = answered \cup {r}
    /\ \E kind \in {"photo"} \cup (IF "error" \in habits THEN {"error"} ELSE {})
                             \cup (IF "reject" \in habits THEN {"rejected"} ELSE {}) :
         wire' = wire \cup {[row |-> r, kind |-> kind]}
    /\ UNCHANGED <<evidence, worker, commands, ack, ftp, habits>>

\* expireStale.
Expire(r) ==
    /\ r \in open /\ "expiry" \in habits
    /\ open' = open \ {r}
    /\ UNCHANGED <<evidence, worker, issued, device, ack, ftp, habits>>

-----------------------------------------------------------------------------
(* CommandAckConsumer: handleRejected, handleDeviceAck *)

newest ==
    {issued[i] : i \in {j \in DOMAIN issued :
        issued[j] \in open /\ \A k \in DOMAIN issued : k > j => issued[k] \notin open}}

\* A faulty variant: the newest command, whatever file it asked for.
latestPendingByCode_Newest(file) == newest

\* The open command that asked for the file, else the newest open one, if any.
latestPendingByCode(file) == IF file \in open THEN {file} ELSE newest

\* A rejection names its command, a photo its file, an error neither.
Receive(m) ==
    LET file == IF m.kind = "photo" THEN m.row ELSE None
        rows == IF m.kind = "rejected" THEN {m.row} ELSE latestPendingByCode(file)
    IN  /\ ack = NoAck
        /\ wire' = wire \ {m}
        /\ \/ /\ rows = {} \/ "store" \in habits
              /\ UNCHANGED ack
           \/ \E row \in rows :
                ack' = [pc |-> IF m.kind = "photo" THEN "acked" ELSE "failed",
                        row |-> row, msg |-> m]
        /\ UNCHANGED <<evidence, worker, commands, answered, ftp, habits>>

\* eachMessage is over.
EndAck ==
    /\ ack' = NoAck
    /\ UNCHANGED wire \/ ("crash" \in habits /\ wire' = wire \cup {ack.msg})

\* Whatever statement of the handler throws, the error is logged and the consumer
\* goes on with the next message.
Swallow ==
    /\ ack # NoAck /\ "store" \in habits
    /\ EndAck
    /\ UNCHANGED <<evidence, worker, commands, answered, ftp, habits>>

\* markAcked, markFailed: guarded UPDATEs of the command.
CloseCommand ==
    /\ ack.pc \in {"acked", "failed"}
    /\ open' = open \ {ack.row}
    /\ ack' = [ack EXCEPT !.pc = IF @ = "acked" THEN "find" ELSE "fail"]
    /\ UNCHANGED <<evidence, worker, issued, device, ftp, habits>>

\* completeEvidencePhoto: findByCommandId, markPhotoReady, markPhotoReadyByName.
FindByCommand ==
    /\ ack.pc = "find"
    /\ ack' = [ack EXCEPT !.pc = IF ack.row \in linked THEN "ready" ELSE "name"]
    /\ UNCHANGED <<evidence, worker, commands, device, ftp, habits>>

MarkReady ==
    /\ ack.pc = "ready"
    /\ status' = [status EXCEPT ![ack.row] = "PHOTO_READY"]
    /\ photo' = [photo EXCEPT ![ack.row] = ack.msg.row]
    /\ name' = [name EXCEPT ![ack.row] = ack.msg.row]
    /\ ack' = [ack EXCEPT !.pc = "name"]
    /\ UNCHANGED <<linked, worker, commands, device, ftp, habits>>

\* A faulty variant: rows spared by the cooldown are not waiting.
Waiting_Asked(names) == {r \in Rows : name[r] \in names /\ status[r] \in {"FETCHING", "PENDING"}}

\* The unfinished rows that name one of the files.
Waiting(names) == {r \in Rows : name[r] \in names /\ status[r] \in PHOTO_ATTACHABLE_STATUSES}

Attach(rows, file) ==
    /\ status' = [r \in Rows |-> IF r \in rows THEN "PHOTO_READY" ELSE status[r]]
    /\ photo' = [r \in Rows |-> IF r \in rows THEN file ELSE photo[r]]
    /\ UNCHANGED <<name, linked>>

MarkReadyByName ==
    /\ ack.pc = "name"
    /\ Attach(Waiting({ack.msg.row}), ack.msg.row)
    /\ EndAck
    /\ UNCHANGED <<worker, commands, answered, ftp, habits>>

\* markFailedByCommandId: any row of that command.
FailByCommand ==
    /\ ack.pc = "fail"
    /\ status' = IF ack.row \in linked THEN [status EXCEPT ![ack.row] = "PHOTO_FAILED"]
                 ELSE status
    /\ EndAck
    /\ UNCHANGED <<name, photo, linked, worker, commands, answered, ftp, habits>>

-----------------------------------------------------------------------------
(* FtpPhotoIngest *)

File(t) == Head(t.files)

\* onFile; the FTP server has told the device that it has the file.
Upload(w, f) ==
    /\ "upload" \in habits /\ f \notin uploaded
    /\ uploaded' = uploaded \cup {f}
    /\ handling' = handling \cup {[at |-> w, files |-> <<f>>, step |-> "name", again |-> FALSE]}
    /\ UNCHANGED <<evidence, worker, commands, device, ack, unmatched, habits>>

\* retryUnmatched takes all there is; an earlier batch may still be in hand.
Splice(w) ==
    /\ unmatched[w] # <<>>
    /\ unmatched' = [unmatched EXCEPT ![w] = <<>>]
    /\ handling' = handling \cup
           {[at |-> w, files |-> unmatched[w], step |-> "name", again |-> TRUE]}
    /\ UNCHANGED <<evidence, worker, commands, device, ack, uploaded, habits>>

\* The next file of the batch, if there is one.
Turn(t) ==
    handling' = (handling \ {t}) \cup
        IF Len(t.files) = 1 THEN {} ELSE {[t EXCEPT !.files = Tail(@), !.step = "name"]}

\* A new upload that finds MaxUnmatched others takes the place of the oldest.
Keep(t) ==
    /\ Turn(t)
    /\ unmatched' = [unmatched EXCEPT ![t.at] =
           Append(IF ~t.again /\ Len(@) >= MaxUnmatched THEN Tail(@) ELSE @, File(t))]

\* No row waits for the file: it is kept, or dropped on a retry after its window.
Unfound(t) == Keep(t) \/ (t.again /\ Turn(t) /\ UNCHANGED unmatched)

AttachByName(t) ==
    /\ t.step = "name"
    /\ Attach(Waiting({File(t)}), File(t))
    /\ IF Waiting({File(t)}) # {} THEN Turn(t)
       ELSE handling' = (handling \ {t}) \cup {[t EXCEPT !.step = "stem"]}
    /\ UNCHANGED <<worker, commands, device, ack, unmatched, uploaded, habits>>

AttachByStem(t) ==
    /\ t.step = "stem"
    /\ Attach(Waiting(Alike[File(t)]), File(t))
    /\ IF Waiting(Alike[File(t)]) # {} THEN Turn(t) /\ UNCHANGED unmatched
       ELSE Unfound(t)
    /\ UNCHANGED <<worker, commands, device, ack, uploaded, habits>>

\* The device is not found, or an UPDATE fails: a new upload is lost, one that is
\* retried has found no row.
AttachFails(t) ==
    /\ "store" \in habits
    /\ IF t.again THEN Unfound(t) ELSE Turn(t) /\ UNCHANGED unmatched
    /\ UNCHANGED <<evidence, worker, commands, device, ack, uploaded, habits>>

-----------------------------------------------------------------------------
Init ==
    /\ status = [r \in Rows |-> "NONE"]
    /\ name = [r \in Rows |-> None] /\ photo = [r \in Rows |-> None]
    /\ linked = {} /\ issued = <<>> /\ open = {}
    /\ worker = [w \in Workers |-> Resting]
    /\ answered = {} /\ wire = {}
    /\ ack = NoAck
    /\ unmatched = [w \in Workers |-> <<>>] /\ handling = {} /\ uploaded = {}
    /\ habits \in HabitSets

Tick(w) == Claim(w) \/ Ask(w) \/ AskFails(w) \/ Link(w) \/ LinkFails(w) \/ MarkFailed(w)
Consume == (\E m \in wire : Receive(m)) \/ CloseCommand \/ FindByCommand \/ MarkReady
           \/ MarkReadyByName \/ FailByCommand \/ Swallow
Ingest(f) == \E t \in {u \in handling : File(u) = f} :
                AttachByName(t) \/ AttachByStem(t) \/ AttachFails(t)

Next ==
    \/ \E r \in Rows : Insert(r) \/ Answer(r) \/ Expire(r) \/ Ingest(r)
    \/ \E w \in Workers : Tick(w) \/ TickFails(w) \/ Crash(w) \/ Splice(w)
    \/ \E w \in Workers, f \in Rows : Upload(w, f)
    \/ Consume

Spec == Init /\ [][Next]_vars

\* The ticks, the consumer and the retries run, awaits return, and what was asked
\* is answered.
FairSpec ==
    /\ Spec
    /\ WF_vars(Consume)
    /\ \A w \in Workers : WF_vars(Tick(w)) /\ WF_vars(Splice(w))
    /\ \A r \in Rows : WF_vars(Answer(r)) /\ WF_vars(Ingest(r))

-----------------------------------------------------------------------------
(* Properties *)

\* The device is asked for a photo once, whatever worker claims the row.
AskedOnce == \A i, j \in DOMAIN issued : issued[i] = issued[j] => i = j

\* A row shows the photo of its own alarm, or an upload with whose second and camera
\* the name of that photo begins, if every answer finds its command open, carries its
\* file and comes once.
Own(r) == {r} \cup {f \in uploaded : r \in Alike[f]}
ShowsItsOwn ==
    habits \cap {"error", "expiry", "crash"} = {} =>
        \A r \in Rows : photo[r] \in {None} \cup Own(r)

\* Whatever happens, what an operator is offered is there: the file the row names, or
\* an upload with whose second and camera that name begins.
ReadyHasPhoto ==
    \A r \in Rows : status[r] = "PHOTO_READY" =>
        \/ photo[r] # None /\ photo[r] = name[r]
        \/ photo[r] \in uploaded /\ name[r] \in Alike[photo[r]]

\* A row is never stranded in FETCHING: a worker has it, or its command has been
\* created and its answer is yet to come, under way or being handled; if no instance
\* dies, no statement fails that finishes a row, every answer finds its command open,
\* and none precedes the link to it.
FetchingIsWorked ==
    habits \cap {"crash", "store", "expiry", "error", "quick"} = {} =>
        \A r \in Rows : status[r] = "FETCHING" =>
            \/ \E w \in Workers : \E i \in DOMAIN worker[w].queue : worker[w].queue[i] = r
            \/ /\ r \in linked /\ \E i \in DOMAIN issued : issued[i] = r
               /\ \/ r \notin answered
                  \/ \E m \in wire : m.row = r
                  \/ ack.pc # "idle" /\ ack.row = r

\* A row is worked to its end, if no instance dies, no statement fails that finishes
\* it, every answer finds its command open, and none precedes the link to its command.
Settles ==
    \A r \in Rows :
        /\ status[r] \in {"PENDING", "FETCHING"}
        /\ habits \cap {"crash", "store", "expiry", "error", "quick"} = {}
        ~> status[r] \in {"PHOTO_READY", "PHOTO_FAILED"}

\* An upload that waits for its row, spared by the cooldown or not, is attached to it
\* if the row named its file before another photo: as long as the instance lives, no
\* statement fails, and the uploads it has or may still get are no more than it keeps.
Kept(w) == {f \in Rows : \/ \E i \in DOMAIN unmatched[w] : unmatched[w][i] = f
                        \/ \E t \in handling : t.at = w /\ \E i \in DOMAIN t.files : t.files[i] = f}
Coming == {f \in Rows : \/ f \notin uploaded
                       \/ \E t \in handling : ~t.again /\ File(t) = f}
UploadIsKept ==
    \A r \in Rows, w \in Workers :
        /\ \E i \in DOMAIN unmatched[w] : unmatched[w][i] = r
        /\ name[r] = r
        /\ status[r] \in {"PENDING", "FETCHING", "PHOTO_FAILED", "SKIPPED_COOLDOWN"}
        /\ Cardinality(Kept(w) \cup Coming) <= MaxUnmatched
        /\ habits \cap {"crash", "store", "error", "expiry"} = {}
        ~> photo[r] \in Own(r)

-----------------------------------------------------------------------------
(* What the comments promise and the code does not keep *)

\* The photo of a file is attached to the row that names it, or to none.
FileFindsItsRow == \A r \in Rows : photo[r] \in {None, r}
===============================================================================
