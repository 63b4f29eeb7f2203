----------------------------- MODULE LessonVideo -----------------------------
(****************************************************************************)
(* The video of one lesson: lesson-video.service.ts (the requests of the    *)
(* editors) and the three workers that share its tables and the object      *)
(* store, lesson-video-scan-worker.service.ts, lesson-hls-transcode-worker  *)
(* .service.ts and lesson-video-cleanup-worker.service.ts.                  *)
(*                                                                          *)
(* Transactions run at the database's default isolation, READ COMMITTED: a  *)
(* transaction that reads the lesson and then writes it is two steps here,  *)
(* the read and the commit.  Selecting a job and claiming it is one step,   *)
(* because the claim is conditional on the status and attempts selected.    *)
(*                                                                          *)
(* One worker of each kind runs, as in deploy/compose.production.yaml, and  *)
(* handles one job at a time.  A job still marked as in work while its      *)
(* worker is elsewhere was left by a worker that died, and its lock goes    *)
(* stale.  A job in ERROR, or a deletion that has to rest, may be due at any *)
(* time.  The scanner may find malware in any file, and need not find it    *)
(* twice.                                                                   *)
(****************************************************************************)
EXTENDS Naturals, FiniteSets

CONSTANTS
    N,             \* uploads, numbered in the order of createdAt
    Packages,      \* HLS packages an operator put into the store
    Requests,      \* requests of editors
    ScanMax,       \* VIDEO_SCAN_MAX_ATTEMPTS
    TranscodeMax,  \* HLS_TRANSCODE_MAX_ATTEMPTS
    DeleteMax,     \* VIDEO_CLEANUP_MAX_ATTEMPTS
    MaxFaults,     \* bound: errors and deaths of workers
    None

Uploads == 1 .. N
Mp4(a) == <<"mp4", a>>
Hls(a) == <<"hls", a>>
Package(p) == <<"package", p>>
Keys == {Mp4(a) : a \in Uploads} \cup {Hls(a) : a \in Uploads}
          \cup {Package(p) : p \in Packages}

ASSUME VideoAssumption ==
    /\ N \in Nat
    /\ {ScanMax, TranscodeMax, DeleteMax} \subseteq Nat \ {0}
    /\ MaxFaults \in Nat
    /\ None \notin Keys /\ None \notin Uploads

VARIABLES
    upload,      \* LessonVideoAsset rows; NONE is no row
    transcode,   \* HlsTranscodeJob rows, one per upload
    deletion,    \* ObjectDeletionJob rows of the mp4 objects
    playing,     \* Lesson.videoAssetKey
    stored,      \* keys of the objects in the store
    scanner, transcoder, cleaner,  \* the workers
    request,     \* the editors' requests
    overwritten, \* uploads queued for a scan by a request whose read was out
                 \* of date: a history variable, the code keeps no such thing
    faults

rows == <<upload, transcode, deletion>>
workers == <<scanner, transcoder, cleaner>>
vars == <<rows, playing, stored, workers, request, overwritten, faults>>

UploadStatus == {"NONE", "UPLOADING", "QUARANTINED", "SCANNING", "READY",
                 "REJECTED", "ERROR", "PURGED"}
TranscodeStatus == {"NONE", "PENDING", "TRANSCODING", "READY", "SUPERSEDED", "ERROR"}
DeletionStatus == {"NONE", "PENDING", "DELETING", "COMPLETED", "CANCELLED", "ERROR"}

Row(s, n) == [status |-> s, attempts |-> n]
At(pc, on, seen) == [pc |-> pc, on |-> on, seen |-> seen]
Idle == At("idle", None, None)

Init ==
    /\ upload = [a \in Uploads |-> Row("NONE", 0)]
    /\ transcode = [a \in Uploads |-> Row("NONE", 0)]
    /\ deletion = [a \in Uploads |-> Row("NONE", 0)]
    /\ playing = None
    /\ stored = {Package(p) : p \in Packages}
    /\ scanner = Idle /\ transcoder = Idle /\ cleaner = Idle
    /\ request = [r \in Requests |-> Idle]
    /\ overwritten = {}
    /\ faults = 0

\* What a request has read of upload a.
Read(status) == <<"status", status>>
Status(a) == Read(upload[a].status)

\* The deletion queue after an upsert for the mp4 stored under key; the queue
\* itself when key is no mp4.
Retired(key) ==
    [a \in Uploads |-> IF key = Mp4(a) THEN Row("PENDING", 0)
                                       ELSE deletion[a]]

-----------------------------------------------------------------------------
(* The editors' requests.                                                   *)

StartUpload(a) ==
    /\ upload[a].status = "NONE"
    /\ \A b \in 1 .. (a - 1) : upload[b].status # "NONE"
    /\ upload' = [upload EXCEPT ![a] = Row("UPLOADING", 0)]
    /\ UNCHANGED <<transcode, deletion, playing, stored, workers, request,
                   overwritten, faults>>

\* The browser posts the file to the object store with the policy it was given.
PostObject(a) ==
    /\ upload[a].status = "UPLOADING"
    /\ Mp4(a) \notin stored
    /\ stored' = stored \cup {Mp4(a)}
    /\ UNCHANGED <<rows, playing, workers, request, overwritten, faults>>

\* A request begins by reading, and has yet to write.
Begins(r, pc, on, seen) ==
    /\ request[r] = Idle
    /\ request' = [request EXCEPT ![r] = At(pc, on, seen)]
    /\ UNCHANGED <<rows, playing, stored, workers, overwritten, faults>>

Ends(r, pc) ==
    /\ request[r].pc = pc
    /\ request' = [request EXCEPT ![r] = Idle]
    /\ UNCHANGED <<stored, workers, faults>>

\* The request queues upload a for a scan by its id, whatever happened to it
\* since the request read its status.
Requeues(r, a) ==
    overwritten' = IF request[r].seen = Status(a) THEN overwritten
                                                  ELSE overwritten \cup {a}

\* completeUpload: the row is UPLOADING and the object passes inspection ...
CompleteRead(r, a) ==
    /\ upload[a].status = "UPLOADING"
    /\ Mp4(a) \in stored
    /\ Begins(r, "complete", a, Status(a))

\* ... and is queued for the scan.  Between the two the object store is asked,
\* and nothing bounds how long that takes.
CompleteWrite(r) ==
    /\ Ends(r, "complete")
    /\ upload' = [upload EXCEPT ![request[r].on].status = "QUARANTINED"]
    /\ Requeues(r, request[r].on)
    /\ UNCHANGED <<transcode, deletion, playing>>

\* Variant: the status is not checked.
RetryScanUnchecked(r, a) ==
    /\ upload[a].status # "NONE"
    /\ Begins(r, "retryScan", a, Status(a))

RetryScanRead(r, a) ==
    /\ upload[a].status = "ERROR"
    /\ Begins(r, "retryScan", a, Status(a))

RetryScanWrite(r) ==
    /\ Ends(r, "retryScan")
    /\ upload' = [upload EXCEPT ![request[r].on] = Row("QUARANTINED", 0)]
    /\ Requeues(r, request[r].on)
    /\ UNCHANGED <<transcode, deletion, playing>>

RetryTranscodeRead(r, a) ==
    /\ transcode[a].status = "ERROR"
    /\ playing = Mp4(a)
    /\ Begins(r, "retryTranscode", a, None)

RetryTranscodeWrite(r) ==
    /\ Ends(r, "retryTranscode")
    /\ transcode' = [transcode EXCEPT ![request[r].on] = Row("PENDING", 0)]
    /\ UNCHANGED <<upload, deletion, playing, overwritten>>

\* The manifest is one of the operator's packages.
ActivateRead(r, p) ==
    /\ Package(p) \in stored
    /\ Begins(r, "activate", p, playing)

\* The replaced mp4 is the one read before the manifest was validated.
ActivateWrite(r) ==
    /\ Ends(r, "activate")
    /\ playing' = Package(request[r].on)
    /\ deletion' = Retired(request[r].seen)
    /\ UNCHANGED <<upload, transcode, overwritten>>

-----------------------------------------------------------------------------
(* The scan worker.                                                         *)

\* An error that is certain to happen, or one of those TLC may choose.
Fails(certain) ==
    /\ certain \/ faults < MaxFaults
    /\ faults' = IF certain THEN faults ELSE faults + 1
Fault == Fails(FALSE)

Waiting(a) == upload[a].status = "QUARANTINED" /\ upload[a].attempts < ScanMax

\* Variant: one attempt too many.
ScanDueOnceMore(a) ==
    /\ upload[a].status \in {"QUARANTINED", "ERROR", "SCANNING"}
    /\ upload[a].attempts <= ScanMax

\* Variant: the scans of dead workers are not taken over.
ScanDueUnlocked(a) ==
    /\ upload[a].status \in {"QUARANTINED", "ERROR"}
    /\ upload[a].attempts < ScanMax

ScanDue(a) ==
    /\ upload[a].status \in {"QUARANTINED", "ERROR", "SCANNING"}
    /\ upload[a].attempts < ScanMax
    /\ \A b \in 1 .. (a - 1) : ~Waiting(b)

ScanClaim(a) ==
    /\ scanner = Idle
    /\ ScanDue(a)
    /\ scanner' = At("scan", a, None)
    /\ upload' = [upload EXCEPT ![a] = Row("SCANNING", upload[a].attempts + 1)]
    /\ UNCHANGED <<transcode, deletion, playing, stored, transcoder, cleaner,
                   request, overwritten, faults>>

\* A clean file: the attaching transaction begins by reading the lesson.
ScanPasses ==
    /\ scanner.pc = "scan"
    /\ Mp4(scanner.on) \in stored
    /\ scanner' = At("attach", scanner.on, playing)
    /\ UNCHANGED <<rows, playing, stored, transcoder, cleaner, request,
                   overwritten, faults>>

\* Variant: the last scan to end wins.
AlwaysAttach(a, current) == TRUE

\* The current asset is looked up by its key, so it is null for a manifest.
ShouldAttach(a, current) ==
    \A b \in Uploads : current = Mp4(b) => b <= a

ScanAttach ==
    LET a == scanner.on
        current == scanner.seen
        attach == ShouldAttach(a, current)
    IN /\ scanner.pc = "attach"
       /\ scanner' = Idle
       /\ upload' = [upload EXCEPT ![a].status = "READY"]
       /\ playing' = IF attach THEN Mp4(a) ELSE playing
       /\ transcode' = IF attach
                       THEN [transcode EXCEPT ![a] = Row("PENDING", 0)]
                       ELSE transcode
       /\ deletion' = IF attach /\ current # Mp4(a)
                      THEN Retired(current) ELSE deletion
       /\ UNCHANGED <<stored, transcoder, cleaner, request, overwritten,
                      faults>>

ScanEnds(s) ==
    /\ scanner' = Idle
    /\ upload' = [upload EXCEPT ![scanner.on].status = s]
    /\ UNCHANGED <<transcode, deletion, playing, stored, transcoder, cleaner,
                   request, overwritten>>

ScanRejects ==
    /\ scanner.pc = "scan"
    /\ Mp4(scanner.on) \in stored
    /\ ScanEnds("REJECTED")
    /\ UNCHANGED faults

\* The scan fails, perhaps at once, or its transaction does; it certainly
\* fails when the object is gone.
ScanFails ==
    /\ scanner # Idle
    /\ ScanEnds("ERROR")
    /\ Fails(scanner.pc = "scan" /\ Mp4(scanner.on) \notin stored)

ScannerDies ==
    /\ scanner # Idle
    /\ scanner' = Idle
    /\ Fault
    /\ UNCHANGED <<rows, playing, stored, transcoder, cleaner, request,
                   overwritten>>

-----------------------------------------------------------------------------
(* The transcode worker.                                                    *)

\* Which of several due jobs comes first is left open.
TranscodeClaim(a) ==
    /\ transcoder = Idle
    /\ transcode[a].status \in {"PENDING", "ERROR", "TRANSCODING"}
    /\ transcode[a].attempts < TranscodeMax
    /\ transcoder' = At("check", a, None)
    /\ transcode' = [transcode EXCEPT ![a] = Row("TRANSCODING", @.attempts + 1)]
    /\ UNCHANGED <<upload, deletion, playing, stored, scanner, cleaner, request,
                   overwritten, faults>>

\* A job whose source is no longer the lesson's video ends at once.
TranscodeCheck ==
    LET a == transcoder.on
    IN /\ transcoder.pc = "check"
       /\ \/ /\ playing = Mp4(a)
             /\ transcoder' = At("work", a, None)
             /\ UNCHANGED transcode
          \/ /\ playing # Mp4(a)
             /\ transcoder' = Idle
             /\ transcode' = [transcode EXCEPT ![a].status = "SUPERSEDED"]
       /\ UNCHANGED <<upload, deletion, playing, stored, scanner, cleaner,
                      request, overwritten, faults>>

\* Download, transcode and upload, then the transaction reads the lesson.
TranscodeUpload ==
    /\ transcoder.pc = "work"
    /\ Mp4(transcoder.on) \in stored
    /\ stored' = stored \cup {Hls(transcoder.on)}
    /\ transcoder' = At("attach", transcoder.on, playing)
    /\ UNCHANGED <<rows, playing, scanner, cleaner, request, overwritten,
                   faults>>

\* Variant: the package is discarded whether it was attached or not.
TranscodeAttachDiscard ==
    LET a == transcoder.on
    IN /\ transcoder.pc = "attach"
       /\ transcoder.seen = Mp4(a)
       /\ transcoder' = At("discard", a, None)
       /\ playing' = Hls(a)
       /\ transcode' = [transcode EXCEPT ![a].status = "READY"]
       /\ deletion' = Retired(Mp4(a))
       /\ UNCHANGED <<upload, stored, scanner, cleaner, request, overwritten,
                      faults>>

TranscodeAttach ==
    LET a == transcoder.on
    IN /\ transcoder.pc = "attach"
       /\ transcoder.seen = Mp4(a)
       /\ transcoder' = Idle
       /\ playing' = Hls(a)
       /\ transcode' = [transcode EXCEPT ![a].status = "READY"]
       /\ deletion' = Retired(Mp4(a))
       /\ UNCHANGED <<upload, stored, scanner, cleaner, request, overwritten,
                      faults>>

TranscodeSuperseded ==
    LET a == transcoder.on
    IN /\ transcoder.pc = "attach"
       /\ transcoder.seen # Mp4(a)
       /\ transcoder' = At("discard", a, None)
       /\ transcode' = [transcode EXCEPT ![a].status = "SUPERSEDED"]
       /\ UNCHANGED <<upload, deletion, playing, stored, scanner, cleaner,
                      request, overwritten, faults>>

TranscodeDiscard ==
    /\ transcoder.pc = "discard"
    /\ transcoder' = Idle
    /\ stored' = stored \ {Hls(transcoder.on)}
    /\ UNCHANGED <<rows, playing, scanner, cleaner, request, overwritten,
                   faults>>

\* An uploaded package is removed again, and that may fail as well.
TranscodeFails ==
    /\ transcoder.pc \in {"work", "attach", "discard"}
    /\ transcoder' = Idle
    /\ transcode' = [transcode EXCEPT ![transcoder.on].status = "ERROR"]
    /\ \E removed \in SUBSET {Hls(transcoder.on)} :
         /\ transcoder.pc = "work" => removed = {}
         /\ stored' = stored \ removed
    /\ Fails(transcoder.pc = "work" /\ Mp4(transcoder.on) \notin stored)
    /\ UNCHANGED <<upload, deletion, playing, scanner, cleaner, request,
                   overwritten>>

TranscoderDies ==
    /\ transcoder # Idle
    /\ transcoder' = Idle
    /\ Fault
    /\ UNCHANGED <<rows, playing, stored, scanner, cleaner, request,
                   overwritten>>

-----------------------------------------------------------------------------
(* The cleanup worker.                                                      *)

\* An upload not completed in time.
Abandon(a) ==
    /\ cleaner = Idle
    /\ upload[a].status = "UPLOADING"
    /\ upload' = [upload EXCEPT ![a].status = "PURGED"]
    /\ deletion' = [deletion EXCEPT ![a] = Row("PENDING", 0)]
    /\ UNCHANGED <<transcode, playing, stored, workers, request, overwritten,
                   faults>>

Deletable(a) ==
    \/ deletion[a].status = "PENDING"
    \/ deletion[a].status = "ERROR" /\ deletion[a].attempts < DeleteMax
    \/ deletion[a].status = "DELETING" /\ deletion[a].attempts <= DeleteMax

Referenced(a) == playing = Mp4(a)

DeleteClaim(a) ==
    /\ cleaner = Idle
    /\ Deletable(a)
    /\ cleaner' = At("count", a, None)
    /\ deletion' = [deletion EXCEPT ![a] = Row("DELETING", @.attempts + 1)]
    /\ UNCHANGED <<upload, transcode, playing, stored, scanner, transcoder,
                   request, overwritten, faults>>

\* Counting the lessons that play the object.
DeleteCount ==
    LET a == cleaner.on
    IN /\ cleaner.pc = "count"
       /\ \/ /\ Referenced(a)
             /\ cleaner' = Idle
             /\ deletion' = [deletion EXCEPT ![a].status = "CANCELLED"]
          \/ /\ ~Referenced(a)
             /\ cleaner' = At("delete", a, None)
             /\ UNCHANGED deletion
       /\ UNCHANGED <<upload, transcode, playing, stored, scanner, transcoder,
                      request, overwritten, faults>>

DeleteObject ==
    /\ cleaner.pc = "delete"
    /\ cleaner' = At("record", cleaner.on, None)
    /\ stored' = stored \ {Mp4(cleaner.on)}
    /\ UNCHANGED <<rows, playing, scanner, transcoder, request, overwritten,
                   faults>>

\* Variant: only the job is recorded.
DeleteRecordJob ==
    /\ cleaner.pc = "record"
    /\ cleaner' = Idle
    /\ deletion' = [deletion EXCEPT ![cleaner.on].status = "COMPLETED"]
    /\ UNCHANGED <<upload, transcode, playing, stored, scanner, transcoder,
                   request, overwritten, faults>>

DeleteRecord ==
    LET a == cleaner.on
    IN /\ cleaner.pc = "record"
       /\ cleaner' = Idle
       /\ upload' = IF upload[a].status = "READY"
                    THEN [upload EXCEPT ![a].status = "PURGED"] ELSE upload
       /\ deletion' = [deletion EXCEPT ![a].status = "COMPLETED"]
       /\ UNCHANGED <<transcode, playing, stored, scanner, transcoder, request,
                      overwritten, faults>>

DeleteFails ==
    /\ cleaner # Idle
    /\ cleaner' = Idle
    /\ deletion' = [deletion EXCEPT ![cleaner.on].status = "ERROR"]
    /\ Fault
    /\ UNCHANGED <<upload, transcode, playing, stored, scanner, transcoder,
                   request, overwritten>>

CleanerDies ==
    /\ cleaner # Idle
    /\ cleaner' = Idle
    /\ Fault
    /\ UNCHANGED <<rows, playing, stored, scanner, transcoder, request,
                   overwritten>>

-----------------------------------------------------------------------------
ScanStep ==
    \/ \E a \in Uploads : ScanClaim(a)
    \/ ScanPasses \/ ScanAttach \/ ScanRejects \/ ScanFails

TranscodeStep ==
    \/ \E a \in Uploads : TranscodeClaim(a)
    \/ TranscodeCheck \/ TranscodeUpload \/ TranscodeAttach
    \/ TranscodeSuperseded \/ TranscodeDiscard \/ TranscodeFails

CleanStep ==
    \/ \E a \in Uploads : Abandon(a) \/ DeleteClaim(a)
    \/ DeleteCount \/ DeleteObject \/ DeleteRecord \/ DeleteFails

Death == ScannerDies \/ TranscoderDies \/ CleanerDies

RequestBegins(r) ==
    \/ \E a \in Uploads : CompleteRead(r, a) \/ RetryScanRead(r, a)
                            \/ RetryTranscodeRead(r, a)
    \/ \E p \in Packages : ActivateRead(r, p)

RequestEnds(r) ==
    \/ CompleteWrite(r) \/ RetryScanWrite(r) \/ RetryTranscodeWrite(r)
    \/ ActivateWrite(r)

Next ==
    \/ \E a \in Uploads : StartUpload(a) \/ PostObject(a)
    \/ \E r \in Requests : RequestBegins(r) \/ RequestEnds(r)
    \/ ScanStep \/ TranscodeStep \/ CleanStep \/ Death

Spec == Init /\ [][Next]_vars

\* The scan loop polls for ever (and is restarted when it dies).  Nothing is
\* assumed of the editors, their requests and the other workers.
FairSpec == Spec /\ WF_vars(ScanStep)

-----------------------------------------------------------------------------
WorkerType(pcs) ==
    [pc : pcs \cup {"idle"}, on : Uploads \cup {None}, seen : Keys \cup {None}]

RequestType ==
    [pc : {"idle", "complete", "retryScan", "retryTranscode", "activate"},
     on : Uploads \cup Packages \cup {None},
     seen : Keys \cup {None} \cup {Read(s) : s \in UploadStatus}]

\* The type of every variable.  An attempt that takes a stale deletion over
\* may be one more than the configured maximum.

TypeOK ==
    /\ upload \in [Uploads -> [status : UploadStatus, attempts : 0 .. ScanMax]]
    /\ transcode \in [Uploads -> [status : TranscodeStatus,
                                  attempts : 0 .. TranscodeMax]]
    /\ deletion \in [Uploads -> [status : DeletionStatus,
                                 attempts : 0 .. (DeleteMax + 1)]]
    /\ playing \in Keys \cup {None}
    /\ stored \subseteq Keys
    /\ scanner \in WorkerType({"scan", "attach"})
    /\ transcoder \in WorkerType({"check", "work", "attach", "discard"})
    /\ cleaner \in WorkerType({"count", "delete", "record"})
    /\ request \in [Requests -> RequestType]
    /\ overwritten \subseteq Uploads
    /\ faults \in 0 .. MaxFaults

\* What a lesson plays, as a file or as the package made of it, has passed
\* its latest scan: automatic retries, takeovers of stale locks and scans that
\* end late never put an upload back into the scan queue, or reject it, while
\* it is played.  A request can, by writing over what changed since it read
\* (overwritten), and nothing else can.
PlayedIsReady ==
    \A a \in Uploads \ overwritten :
        /\ playing = Mp4(a) => upload[a].status = "READY"
        /\ playing = Hls(a) => upload[a].status \in {"READY", "PURGED"}

\* The lesson's video is in the object store: neither the deletion queue, nor
\* a superseded or failed transcode, removes what a lesson plays.  An upload
\* scanned and attached a second time because a request wrote over its row
\* may have a deletion under way that counted no lesson playing it.
LiveVideoIsStored ==
    playing \in stored \cup {None} \cup {Mp4(a) : a \in overwritten}

\* A deletion whose attempts are used up: the last one failed, or its worker
\* died.  Nothing in the code queues it again.
DeletionSpent(a) ==
    deletion[a].status \in {"ERROR", "DELETING"} /\ deletion[a].attempts >= DeleteMax

\* Deleting an mp4 and recording the loss are not one step.  The deletion of an
\* upload that is READY without its object is in work, or will be selected
\* again: it is never closed with the loss not recorded, nor left to itself
\* with attempts remaining.  Only as many errors and deaths as a deletion has
\* attempts can use them up, and then the upload stays READY for good.  A
\* request that writes over the row after the loss was recorded makes it READY
\* without its object as well.
MissingIsQueued ==
    \A a \in Uploads \ overwritten :
        upload[a].status = "READY" /\ Mp4(a) \notin stored
            => \/ Deletable(a) \/ cleaner.on = a
               \/ faults >= DeleteMax /\ DeletionSpent(a)

\* While a newer mp4 is the lesson's video, no older mp4 takes its place.
NewerMp4Stays ==
    [][\A a \in Uploads, b \in Uploads :
         a < b /\ playing = Mp4(b) => playing' # Mp4(a)]_vars

Activated == \E r \in Requests : request[r].pc = "activate" /\ request'[r] = Idle

\* An older upload never takes the place of a newer one, in whatever form
\* either is played, unless an editor activates it.
NewerVideoStays ==
    [][\A a \in Uploads, b \in Uploads :
         (a < b /\ playing \in {Mp4(b), Hls(b)} /\ ~Activated)
           => playing' \notin {Mp4(a), Hls(a)}]_vars

\* A scan whose worker died during the last attempt: the row says it waits
\* or is in work, and nothing selects it again.
ScanLost(a) ==
    /\ upload[a].status \in {"QUARANTINED", "SCANNING"}
    /\ upload[a].attempts = ScanMax
    /\ scanner.on # a

\* Every completed upload is answered, by the scanner or with an error that
\* an editor can retry, except for one lost on its last attempt.  Where editors
\* queue other uploads again and again, for ever, nothing is claimed.
UploadsAreAnswered ==
    \A a \in Uploads :
        upload[a].status = "QUARANTINED"
          ~> \/ upload[a].status \in {"READY", "REJECTED", "ERROR", "PURGED"}
             \/ ScanLost(a)
             \/ \E b \in Uploads \ {a} : Waiting(b)
=============================================================================
