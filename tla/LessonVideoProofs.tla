-------------------------- MODULE LessonVideoProofs --------------------------
(****************************************************************************)
(* The video of a lesson, for any number of uploads, packages, requests and *)
(* attempts, any number of errors and deaths of the workers, and requests   *)
(* as slow as they may be.                                                  *)
(****************************************************************************)
EXTENDS LessonVideo, TLAPS

\* A worker has an upload in hand from its claim to the end of the job.
Works(w) == (w.pc = "idle" => w = Idle) /\ (w.pc # "idle" => w.on \in Uploads)

\* A request that will write has the row and the status it read; an idle one
\* has nothing.
RequestInv(q) ==
    /\ q.pc = "idle" => q = Idle
    /\ q.pc \in {"complete", "retryScan", "retryTranscode"} => q.on \in Uploads
    /\ q.pc = "activate" => q.on \in Packages
    /\ q.pc = "complete" => q.seen = Read("UPLOADING")
    /\ q.pc = "retryScan" => q.seen = Read("ERROR")

\* Only the scanner makes an mp4 the lesson's video, so what it read of the
\* lesson is still true when that was an mp4, or when it is one now.
SeenMp4Inv ==
    scanner.pc = "attach" =>
        \A b \in Uploads : playing = Mp4(b) => scanner.seen = Mp4(b)

\* The types, and what each worker and request has in hand.
TypeInv ==
    /\ TypeOK
    /\ Works(scanner) /\ Works(transcoder) /\ Works(cleaner)
    /\ \A r \in Requests : RequestInv(request[r])
    /\ \A a \in Uploads : deletion[a].status = "PENDING" => deletion[a].attempts = 0
    /\ SeenMp4Inv

-----------------------------------------------------------------------------
(* The invariant of one upload that no request wrote over.                   *)

\* A scan of the upload has passed.
Scanned(a) == upload[a].status \in {"READY", "PURGED"}

\* The upload the scanner has in hand is marked so, and its mp4 is kept.
ScanInv(a) ==
    /\ scanner.on = a => upload[a].status = "SCANNING"
    /\ scanner.pc = "attach" /\ scanner.on = a => Mp4(a) \in stored

\* Once read by anyone as the lesson's video, the upload has been scanned.
SeenInv(a) ==
    /\ Mp4(a) \in {scanner.seen, transcoder.seen} => Scanned(a)
    /\ \A r \in Requests : request[r].seen = Mp4(a) => Scanned(a)

\* What is played was scanned; an mp4 is not yet purged, and it is stored.
PlayedInv(a) ==
    /\ playing = Mp4(a) => upload[a].status = "READY" /\ Mp4(a) \in stored
    /\ playing = Hls(a) => Scanned(a)

\* A deletion under way is in the queue, and past the count its mp4 is not played.
DeletionInv(a) ==
    /\ deletion[a].status # "NONE" => Scanned(a)
    /\ cleaner.on = a => deletion[a].status \in {"PENDING", "DELETING"}
    /\ cleaner.pc \in {"delete", "record"} /\ cleaner.on = a => playing # Mp4(a)
    /\ upload[a].status = "READY" /\ Mp4(a) \notin stored =>
          deletion[a].status \in {"PENDING", "DELETING", "ERROR"}

\* All that is kept for one upload.
VideoInv(a) == ScanInv(a) /\ SeenInv(a) /\ PlayedInv(a) /\ DeletionInv(a)

-----------------------------------------------------------------------------
(* The invariant of the packages, whatever the requests wrote over.          *)

\* A package that is played is stored.
LiveInv(a) == playing = Hls(a) => Hls(a) \in stored

\* A package being made is not yet played.
PackageInv(a) ==
    /\ transcoder.pc \in {"work", "attach", "discard"} /\ transcoder.on = a =>
          playing # Hls(a)
    /\ transcoder.pc = "attach" /\ transcoder.on = a => Hls(a) \in stored

\* What holds of all uploads and packages.
SafeInv ==
    /\ \A a \in Uploads \ overwritten : VideoInv(a)
    /\ \A a \in Uploads : LiveInv(a) /\ PackageInv(a)
    /\ \A p \in Packages : Package(p) \in stored

\* The inductive invariant.
IInv == TypeInv /\ SafeInv

\* What a step that is not the transcoder's owes to the packages.
Bystander ==
    /\ UNCHANGED transcoder
    /\ overwritten \subseteq overwritten'
    /\ \A a \in Uploads : playing' = Hls(a) => playing = Hls(a)
    /\ \A a \in Uploads : Hls(a) \in stored => Hls(a) \in stored'
    /\ \A p \in Packages : Package(p) \in stored'

\* Such a step keeps SafeInv if it keeps what is kept of each upload.
LEMMA BystanderInv ==
    ASSUME SafeInv, Bystander, \A b \in Uploads \ overwritten' : VideoInv(b)'
    PROVE  SafeInv'
BY DEF SafeInv, Bystander, LiveInv, PackageInv

-----------------------------------------------------------------------------
(* Keys and tables.                                                          *)

\* The objects of different uploads and kinds have different keys.
LEMMA KeyFacts ==
    /\ \A a \in Uploads : Mp4(a) \in Keys /\ Hls(a) \in Keys
    /\ \A p \in Packages : Package(p) \in Keys
    /\ \A a, b \in Uploads : Mp4(a) = Mp4(b) => a = b
    /\ \A a, b \in Uploads : Hls(a) = Hls(b) => a = b
    /\ \A a, b : Mp4(a) # Hls(b) /\ Mp4(a) # Package(b) /\ Hls(a) # Package(b)
    /\ \A a \in Uploads : Mp4(a) # None /\ Hls(a) # None
    /\ \A p \in Packages : Package(p) # None
    /\ None \notin Uploads
<1>1. /\ \A a \in Uploads : Mp4(a) \in Keys /\ Hls(a) \in Keys
      /\ \A p \in Packages : Package(p) \in Keys
  BY DEF Keys
<1>2. /\ \A a, b \in Uploads : Mp4(a) = Mp4(b) => a = b
      /\ \A a, b \in Uploads : Hls(a) = Hls(b) => a = b
      /\ \A a, b : Mp4(a) # Hls(b) /\ Mp4(a) # Package(b) /\ Hls(a) # Package(b)
  BY DEF Mp4, Hls, Package
<1> QED BY <1>1, <1>2, VideoAssumption

\* A status read is not a key, and says which status it was.
LEMMA ReadFacts ==
    /\ \A s, a : Read(s) # Mp4(a)
    /\ \A s, t \in UploadStatus : Read(s) = Read(t) => s = t
BY DEF Read, Mp4

\* The types of the three job tables.
UploadType == [Uploads -> [status : UploadStatus, attempts : 0 .. ScanMax]]
TranscodeType ==
    [Uploads -> [status : TranscodeStatus, attempts : 0 .. TranscodeMax]]
DeletionType ==
    [Uploads -> [status : DeletionStatus, attempts : 0 .. (DeleteMax + 1)]]

\* The queue after the mp4 under a key is replaced.
LEMMA RetiredFacts ==
    ASSUME TypeOK, NEW key
    PROVE  /\ Retired(key) \in DeletionType
           /\ \A b \in Uploads : Retired(key)[b]
                = IF key = Mp4(b) THEN Row("PENDING", 0) ELSE deletion[b]
BY VideoAssumption DEF TypeOK, Retired, Row, DeletionStatus, DeletionType

\* The initial state.
LEMMA InitInv == Init => IInv
<1> SUFFICES ASSUME Init PROVE IInv
  OBVIOUS
<1>1. TypeOK
  BY KeyFacts, VideoAssumption
  DEF Init, TypeOK, Row, Idle, At, WorkerType, RequestType, UploadStatus,
      TranscodeStatus, DeletionStatus
<1>2. TypeInv
  BY <1>1 DEF Init, TypeInv, Works, RequestInv, SeenMp4Inv, Row, Idle, At
<1>3. SafeInv
  BY KeyFacts
  DEF Init, SafeInv, VideoInv, ScanInv, SeenInv, PlayedInv, LiveInv, PackageInv,
      DeletionInv, Scanned, Row, Idle, At
<1> QED BY <1>2, <1>3 DEF IInv

\* A request that takes another value.
LEMMA SetRequest ==
    ASSUME TypeOK, NEW r \in Requests, NEW q \in RequestType
    PROVE  /\ [request EXCEPT ![r] = q] \in [Requests -> RequestType]
           /\ \A x \in Requests :
                [request EXCEPT ![r] = q][x] = IF x = r THEN q ELSE request[x]
BY DEF TypeOK

-----------------------------------------------------------------------------
(* The editors' requests.                                                    *)

\* A new upload is in no queue yet.
LEMMA StartUploadInv ==
    ASSUME IInv, NEW a \in Uploads, StartUpload(a)
    PROVE  IInv'
<1>1. "UPLOADING" \in UploadStatus /\ 0 \in 0 .. ScanMax
  BY VideoAssumption DEF UploadStatus
<1>2. /\ upload' \in UploadType
      /\ \A b \in Uploads :
           upload'[b] = IF b = a THEN Row("UPLOADING", 0) ELSE upload[b]
  BY <1>1 DEF IInv, TypeInv, TypeOK, UploadType, StartUpload, Row
<1>3. TypeInv'
  BY <1>2 DEF IInv, TypeInv, TypeOK, UploadType, StartUpload, workers, Works, SeenMp4Inv, RequestInv
<1>4. Bystander
  BY DEF Bystander, StartUpload, workers, IInv, SafeInv
<1>5. ASSUME NEW b \in Uploads \ overwritten PROVE VideoInv(b)'
  BY <1>2 DEF IInv, SafeInv, StartUpload, workers, VideoInv, ScanInv, SeenInv,
      PlayedInv, DeletionInv, Scanned, Row
<1>6. overwritten' = overwritten
  BY DEF StartUpload
<1> QED BY <1>3, <1>4, <1>5, <1>6, BystanderInv DEF IInv

\* The posted mp4 only adds an object.
LEMMA PostObjectInv ==
    ASSUME IInv, NEW a \in Uploads, PostObject(a)
    PROVE  IInv'
<1>1. TypeInv'
  BY KeyFacts DEF IInv, TypeInv, TypeOK, PostObject, rows, workers, Works,
      SeenMp4Inv, RequestInv
<1>2. Bystander
  BY DEF Bystander, PostObject, workers, IInv, SafeInv
<1>3. ASSUME NEW b \in Uploads \ overwritten PROVE VideoInv(b)'
  BY DEF IInv, SafeInv, PostObject, rows, workers, VideoInv, ScanInv, SeenInv,
      PlayedInv, DeletionInv, Scanned
<1>4. overwritten' = overwritten
  BY DEF PostObject
<1> QED BY <1>1, <1>2, <1>3, <1>4, BystanderInv DEF IInv

\* A request that begins with what it may write and what it saw.
LEMMA BeginsInv ==
    ASSUME IInv, NEW r \in Requests,
           NEW pc \in {"complete", "retryScan", "retryTranscode", "activate"},
           NEW on \in Uploads \cup Packages,
           NEW seen \in {playing, None} \cup {Read(s) : s \in UploadStatus},
           pc = "activate" => on \in Packages,
           pc # "activate" => on \in Uploads,
           pc = "complete" => seen = Read("UPLOADING"),
           pc = "retryScan" => seen = Read("ERROR"),
           Begins(r, pc, on, seen)
    PROVE  IInv'
<1>1. At(pc, on, seen) \in RequestType
  BY DEF IInv, TypeInv, TypeOK, At, RequestType
<1>2. /\ request' \in [Requests -> RequestType]
      /\ \A x \in Requests :
           request'[x] = IF x = r THEN At(pc, on, seen) ELSE request[x]
  BY <1>1, SetRequest DEF IInv, TypeInv, Begins
<1>3. RequestInv(At(pc, on, seen))
  BY DEF RequestInv, At
<1>4. TypeInv'
  <2>1. \A x \in Requests : RequestInv(request[x])'
    BY <1>2, <1>3 DEF IInv, TypeInv, RequestInv
  <2> QED
    BY <1>2, <2>1 DEF IInv, TypeInv, TypeOK, Begins, rows, workers, Works, SeenMp4Inv
<1>5. Bystander
  BY DEF Bystander, Begins, workers, IInv, SafeInv
<1>6. ASSUME NEW b \in Uploads \ overwritten PROVE VideoInv(b)'
  <2>1. VideoInv(b)
    BY DEF IInv, SafeInv
  <2>2. UNCHANGED <<upload, deletion, playing, stored, scanner, transcoder, cleaner>>
    BY DEF Begins, rows, workers
  <2>3. ScanInv(b)' /\ PlayedInv(b)' /\ DeletionInv(b)'
    BY <2>1, <2>2 DEF VideoInv, ScanInv, PlayedInv, DeletionInv, Scanned
  <2>4. seen = Mp4(b) => Scanned(b)
    BY <2>1, ReadFacts, KeyFacts DEF VideoInv, PlayedInv, Scanned
  <2>5. At(pc, on, seen).seen = seen
    BY DEF At
  <2>6. SeenInv(b)'
    BY <1>2, <2>1, <2>2, <2>4, <2>5 DEF VideoInv, SeenInv, Scanned
  <2> QED BY <2>3, <2>6 DEF VideoInv
<1>7. overwritten' = overwritten
  BY DEF Begins
<1> QED BY <1>4, <1>5, <1>6, <1>7, BystanderInv DEF IInv

\* A request that has read holds what it read and has written nothing.
LEMMA RequestBeginsInv ==
    ASSUME IInv, NEW r \in Requests, RequestBegins(r)
    PROVE  IInv'
<1>1. ASSUME NEW a \in Uploads, CompleteRead(r, a) PROVE IInv'
  <2>1. "UPLOADING" \in UploadStatus /\ Status(a) = Read("UPLOADING")
    BY <1>1 DEF CompleteRead, Status, UploadStatus
  <2> QED BY <1>1, <2>1, BeginsInv DEF CompleteRead
<1>2. ASSUME NEW a \in Uploads, RetryScanRead(r, a) PROVE IInv'
  <2>1. "ERROR" \in UploadStatus /\ Status(a) = Read("ERROR")
    BY <1>2 DEF RetryScanRead, Status, UploadStatus
  <2> QED BY <1>2, <2>1, BeginsInv DEF RetryScanRead
<1>3. ASSUME NEW a \in Uploads, RetryTranscodeRead(r, a) PROVE IInv'
  BY <1>3, BeginsInv DEF RetryTranscodeRead
<1>4. ASSUME NEW p \in Packages, ActivateRead(r, p) PROVE IInv'
  BY <1>4, BeginsInv DEF ActivateRead
<1> QED BY <1>1, <1>2, <1>3, <1>4 DEF RequestBegins

\* A request that ends leaves nothing behind.
LEMMA EndsFacts ==
    ASSUME TypeInv, NEW r \in Requests, NEW pc \in {"complete", "retryScan",
               "retryTranscode", "activate"}, Ends(r, pc)
    PROVE  /\ request' \in [Requests -> RequestType]
           /\ \A x \in Requests :
                request'[x] = IF x = r THEN Idle ELSE request[x]
           /\ \A x \in Requests : RequestInv(request[x])'
           /\ pc # "activate" => request[r].on \in Uploads
           /\ pc = "activate" => request[r].on \in Packages
<1>1. Idle \in RequestType /\ RequestInv(Idle)
  BY DEF Idle, At, RequestType, RequestInv
<1>2. /\ request' \in [Requests -> RequestType]
      /\ \A x \in Requests : request'[x] = IF x = r THEN Idle ELSE request[x]
  BY <1>1, SetRequest DEF TypeInv, Ends
<1>3. \A x \in Requests : RequestInv(request[x])'
  BY <1>1, <1>2 DEF TypeInv, RequestInv
<1> QED BY <1>2, <1>3 DEF TypeInv, RequestInv, Ends

\* What the others have seen when a request ends.
LEMMA EndsSeen ==
    ASSUME NEW b \in Uploads, NEW r \in Requests,
           \A x \in Requests : request'[x] = IF x = r THEN Idle ELSE request[x]
    PROVE  \A x \in Requests : request'[x].seen = Mp4(b) => request[x].seen = Mp4(b)
BY KeyFacts DEF Idle, At

\* An upload put back into the scan queue: it is written over, unless its
\* status is still the one the request has read.
LEMMA RequeueInv ==
    ASSUME IInv, NEW r \in Requests, NEW pc \in {"complete", "retryScan"}, Ends(r, pc),
           NEW n \in 0 .. ScanMax, NEW a \in Uploads, a = request[r].on,
           upload' \in UploadType,
           \A b \in Uploads :
               upload'[b] = IF b = a THEN Row("QUARANTINED", n) ELSE upload[b],
           Requeues(r, a),
           UNCHANGED <<transcode, deletion, playing>>
    PROVE  IInv'
<1>1. /\ request' \in [Requests -> RequestType]
      /\ \A x \in Requests : request'[x] = IF x = r THEN Idle ELSE request[x]
      /\ \A x \in Requests : RequestInv(request[x])'
  BY EndsFacts DEF IInv
<1>2. overwritten \subseteq overwritten' /\ overwritten' \subseteq Uploads
  BY DEF Requeues, IInv, TypeInv, TypeOK
<1>3. TypeInv'
  BY <1>1, <1>2 DEF IInv, TypeInv, TypeOK, UploadType, Ends, workers, Works, SeenMp4Inv
<1>4. Bystander
  BY <1>2 DEF Bystander, Ends, workers, IInv, SafeInv
<1>5. a \notin overwritten' => upload[a].status \in {"UPLOADING", "ERROR"}
  <2>1. request[r].seen \in {Read("UPLOADING"), Read("ERROR")}
    BY DEF IInv, TypeInv, RequestInv, Ends
  <2>2. {upload[a].status, "UPLOADING", "ERROR"} \subseteq UploadStatus
    BY DEF IInv, TypeInv, TypeOK, UploadStatus
  <2>3. a \notin overwritten' => request[r].seen = Read(upload[a].status)
    BY DEF Requeues, Status
  <2> QED BY <2>1, <2>2, <2>3, ReadFacts
<1>6. ASSUME NEW b \in Uploads \ overwritten' PROVE VideoInv(b)'
  <2>1. VideoInv(b)
    BY <1>2 DEF IInv, SafeInv
  <2>2. \A x \in Requests : request'[x].seen = Mp4(b) => request[x].seen = Mp4(b)
    BY <1>1, EndsSeen
  <2>3. b = a => upload[b].status \in {"UPLOADING", "ERROR"}
    BY <1>5
  <2>4. b # a => upload'[b] = upload[b]
    OBVIOUS
  <2>5. b = a => scanner.on # b /\ ~Scanned(b)
    BY <2>1, <2>3 DEF VideoInv, ScanInv, Scanned
  <2>6. UNCHANGED <<deletion, playing, stored, scanner, transcoder, cleaner>>
    BY DEF Ends, workers
  <2>7. ScanInv(b)'
    BY <2>1, <2>4, <2>5, <2>6 DEF VideoInv, ScanInv
  <2>8. Scanned(b) => Scanned(b)' /\ upload'[b] = upload[b]
    BY <2>4, <2>5 DEF Scanned
  <2>9. SeenInv(b)'
    BY <2>1, <2>2, <2>6, <2>8 DEF VideoInv, SeenInv
  <2>10. PlayedInv(b)'
    BY <2>1, <2>6, <2>8 DEF VideoInv, PlayedInv, Scanned
  <2>11. b = a => upload'[b].status = "QUARANTINED"
    BY DEF Row
  <2>12. DeletionInv(b)'
    BY <2>1, <2>4, <2>6, <2>8, <2>11 DEF VideoInv, DeletionInv
  <2> QED BY <2>7, <2>9, <2>10, <2>12 DEF VideoInv
<1> QED BY <1>3, <1>4, <1>6, BystanderInv DEF IInv

\* complete: the upload is quarantined by its id.
LEMMA CompleteWriteInv ==
    ASSUME IInv, NEW r \in Requests, CompleteWrite(r)
    PROVE  IInv'
<1>1. PICK a \in Uploads : a = request[r].on
  BY EndsFacts DEF IInv, CompleteWrite
<1>2. PICK n \in 0 .. ScanMax : n = upload[a].attempts
  BY DEF IInv, TypeInv, TypeOK
<1>3. upload' = [upload EXCEPT ![a].status = "QUARANTINED"] /\ Requeues(r, a)
  BY Zenon, <1>1 DEF CompleteWrite
<1>4. upload' \in UploadType
  BY <1>3 DEF IInv, TypeInv, TypeOK, UploadType, UploadStatus
<1>5. \A b \in Uploads : upload'[b] = IF b = a THEN Row("QUARANTINED", n) ELSE upload[b]
  BY <1>2, <1>3 DEF IInv, TypeInv, TypeOK, Row
<1> QED BY ZenonT(60), <1>1, <1>3, <1>4, <1>5, RequeueInv DEF CompleteWrite

\* retryScan: the failed scan is queued again.
LEMMA RetryScanWriteInv ==
    ASSUME IInv, NEW r \in Requests, RetryScanWrite(r)
    PROVE  IInv'
<1>1. PICK a \in Uploads : a = request[r].on
  BY EndsFacts DEF IInv, RetryScanWrite
<1>2. PICK n \in 0 .. ScanMax : n = 0
  BY VideoAssumption
<1>3. upload' = [upload EXCEPT ![a] = Row("QUARANTINED", n)] /\ Requeues(r, a)
  BY Zenon, <1>1, <1>2 DEF RetryScanWrite
<1>4. upload' \in UploadType
  BY <1>3 DEF IInv, TypeInv, TypeOK, UploadType, UploadStatus, Row
<1>5. \A b \in Uploads : upload'[b] = IF b = a THEN Row("QUARANTINED", n) ELSE upload[b]
  BY <1>3 DEF IInv, TypeInv, TypeOK
<1> QED BY ZenonT(60), <1>1, <1>3, <1>4, <1>5, RequeueInv DEF RetryScanWrite

\* retryTranscode: the failed job is queued again.
LEMMA RetryTranscodeWriteInv ==
    ASSUME IInv, NEW r \in Requests, RetryTranscodeWrite(r)
    PROVE  IInv'
<1>1. /\ request' \in [Requests -> RequestType]
      /\ \A x \in Requests : request'[x] = IF x = r THEN Idle ELSE request[x]
      /\ \A x \in Requests : RequestInv(request[x])'
  BY EndsFacts DEF IInv, RetryTranscodeWrite
<1>2. PICK a \in Uploads : a = request[r].on
  BY EndsFacts DEF IInv, RetryTranscodeWrite
<1>3. transcode' = [transcode EXCEPT ![a] = Row("PENDING", 0)]
  BY <1>2 DEF RetryTranscodeWrite
<1>4. transcode' \in TranscodeType
  BY <1>3, VideoAssumption DEF IInv, TypeInv, TypeOK, TranscodeType, TranscodeStatus, Row
<1>5. UNCHANGED <<upload, deletion, playing, stored, scanner, transcoder, cleaner,
                  overwritten, faults>>
  BY DEF RetryTranscodeWrite, Ends, workers
<1>6. TypeInv'
  BY <1>1, <1>4, <1>5 DEF IInv, TypeInv, TypeOK, TranscodeType, Works, SeenMp4Inv
<1>7. Bystander
  BY <1>5 DEF Bystander, IInv, SafeInv
<1>8. ASSUME NEW b \in Uploads \ overwritten PROVE VideoInv(b)'
  <2>1. VideoInv(b)
    BY DEF IInv, SafeInv
  <2>2. \A x \in Requests : request'[x].seen = Mp4(b) => request[x].seen = Mp4(b)
    BY <1>1, EndsSeen
  <2> QED BY <1>5, <2>1, <2>2 DEF VideoInv, ScanInv, SeenInv, PlayedInv, DeletionInv,
        Scanned
<1> QED BY <1>5, <1>6, <1>7, <1>8, BystanderInv DEF IInv

\* What retiring the mp4 of an upload already scanned does to a deletion.
LEMMA RetiredInv ==
    ASSUME TypeInv, NEW key, deletion' = Retired(key)
    PROVE  /\ deletion' \in DeletionType
           /\ \A a \in Uploads :
                deletion'[a].status = "PENDING" => deletion'[a].attempts = 0
           /\ \A b \in Uploads :
                deletion'[b].status \in {deletion[b].status, "PENDING"}
           /\ \A b \in Uploads : key = Mp4(b) => deletion'[b].status = "PENDING"
           /\ \A b \in Uploads : key # Mp4(b) => deletion'[b] = deletion[b]
<1>1. /\ deletion' \in DeletionType
      /\ \A b \in Uploads : deletion'[b]
            = IF key = Mp4(b) THEN Row("PENDING", 0) ELSE deletion[b]
  BY RetiredFacts DEF TypeInv
<1> QED BY <1>1 DEF TypeInv, Row

\* activate: a package is played, and the mp4 that was read is to be deleted.
LEMMA ActivateWriteInv ==
    ASSUME IInv, NEW r \in Requests, ActivateWrite(r)
    PROVE  IInv'
<1>1. /\ request' \in [Requests -> RequestType]
      /\ \A x \in Requests : request'[x] = IF x = r THEN Idle ELSE request[x]
      /\ \A x \in Requests : RequestInv(request[x])'
  BY EndsFacts DEF IInv, ActivateWrite
<1>2. PICK p \in Packages : p = request[r].on
  BY EndsFacts DEF IInv, ActivateWrite
<1>3. PICK key : key = request[r].seen
  OBVIOUS
<1>4. /\ playing' = Package(p) /\ deletion' = Retired(key)
      /\ UNCHANGED <<upload, transcode, stored, scanner, transcoder, cleaner,
                     overwritten, faults>>
  BY <1>2, <1>3 DEF ActivateWrite, Ends, workers
<1>5. /\ deletion' \in DeletionType
      /\ \A a \in Uploads :
           deletion'[a].status = "PENDING" => deletion'[a].attempts = 0
      /\ \A b \in Uploads : deletion'[b].status \in {deletion[b].status, "PENDING"}
      /\ \A b \in Uploads : key # Mp4(b) => deletion'[b] = deletion[b]
  BY <1>4, RetiredInv DEF IInv
<1>6. TypeInv'
  BY <1>1, <1>4, <1>5, KeyFacts DEF IInv, TypeInv, TypeOK, DeletionType, Works, SeenMp4Inv
<1>7. Bystander
  BY <1>4, KeyFacts DEF Bystander, IInv, SafeInv
<1>8. ASSUME NEW b \in Uploads \ overwritten PROVE VideoInv(b)'
  <2>1. VideoInv(b)
    BY DEF IInv, SafeInv
  <2>2. \A x \in Requests : request'[x].seen = Mp4(b) => request[x].seen = Mp4(b)
    BY <1>1, EndsSeen
  <2>3. ScanInv(b)' /\ SeenInv(b)'
    BY <1>4, <2>1, <2>2 DEF VideoInv, ScanInv, SeenInv, Scanned
  <2>4. playing' # Mp4(b) /\ playing' # Hls(b)
    BY <1>4, KeyFacts
  <2>5. PlayedInv(b)'
    BY <2>4 DEF PlayedInv
  <2>6. key = Mp4(b) => Scanned(b)
    BY <1>3, <2>1 DEF VideoInv, SeenInv
  <2>7. DeletionInv(b)'
    BY <1>4, <1>5, <2>1, <2>4, <2>6 DEF VideoInv, DeletionInv, Scanned
  <2> QED BY <2>3, <2>5, <2>7 DEF VideoInv
<1> QED BY <1>4, <1>6, <1>7, <1>8, BystanderInv DEF IInv

\* The four requests that end with a write.
LEMMA RequestEndsInv ==
    ASSUME IInv, NEW r \in Requests, RequestEnds(r)
    PROVE  IInv'
BY CompleteWriteInv, RetryScanWriteInv, RetryTranscodeWriteInv, ActivateWriteInv
DEF RequestEnds

-----------------------------------------------------------------------------
(* The scan worker.                                                          *)

\* An upload in hand is marked as being scanned.
LEMMA ScanClaimInv ==
    ASSUME IInv, NEW a \in Uploads, ScanClaim(a)
    PROVE  IInv'
<1>1. PICK n \in 0 .. ScanMax : n = upload[a].attempts + 1
  <2>1. PICK k \in 0 .. ScanMax : k = upload[a].attempts
    BY DEF IInv, TypeInv, TypeOK
  <2>2. k < ScanMax
    BY <2>1 DEF ScanClaim, ScanDue
  <2> QED BY <2>1, <2>2, VideoAssumption
<1>2. upload' = [upload EXCEPT ![a] = Row("SCANNING", n)]
  BY <1>1 DEF ScanClaim
<1>3. upload' \in UploadType
  BY <1>2 DEF IInv, TypeInv, TypeOK, UploadType, UploadStatus, Row
<1>4. \A b \in Uploads : upload'[b] = IF b = a THEN Row("SCANNING", n) ELSE upload[b]
  BY <1>2 DEF IInv, TypeInv, TypeOK
<1>5. TypeInv'
  BY <1>3 DEF IInv, TypeInv, TypeOK, UploadType, WorkerType, ScanClaim, Works,
      SeenMp4Inv, At, RequestInv
<1>6. Bystander
  BY DEF Bystander, ScanClaim, IInv, SafeInv
<1>7. ASSUME NEW b \in Uploads \ overwritten PROVE VideoInv(b)'
  <2>1. VideoInv(b)
    BY DEF IInv, SafeInv
  <2>2. upload[a].status \in {"QUARANTINED", "ERROR", "SCANNING"}
    BY DEF ScanClaim, ScanDue
  <2>3. Scanned(b) => upload'[b] = upload[b]
    BY <1>4, <2>2 DEF Scanned
  <2>4. ScanInv(b)'
    BY <1>4, <2>1, KeyFacts DEF VideoInv, ScanInv, ScanClaim, Row, At
  <2>5. SeenInv(b)'
    BY <2>1, <2>3, KeyFacts DEF VideoInv, SeenInv, ScanClaim, Scanned, At
  <2>6. PlayedInv(b)'
    BY <2>1, <2>3 DEF VideoInv, PlayedInv, ScanClaim, Scanned
  <2>7. DeletionInv(b)'
    BY <1>4, <2>1, <2>3 DEF VideoInv, DeletionInv, ScanClaim, Scanned, Row
  <2> QED BY <2>4, <2>5, <2>6, <2>7 DEF VideoInv
<1>8. overwritten' = overwritten
  BY DEF ScanClaim
<1> QED BY <1>5, <1>6, <1>7, <1>8, BystanderInv DEF IInv

\* The scan has passed, and the lesson is read.
LEMMA ScanPassesInv ==
    ASSUME IInv, ScanPasses
    PROVE  IInv'
<1>1. scanner.on \in Uploads
  BY DEF IInv, TypeInv, Works, ScanPasses
<1>2. TypeInv'
  BY <1>1 DEF IInv, TypeInv, TypeOK, WorkerType, ScanPasses, rows, Works,
      SeenMp4Inv, At, RequestInv
<1>3. Bystander
  BY DEF Bystander, ScanPasses, IInv, SafeInv
<1>4. ASSUME NEW b \in Uploads \ overwritten PROVE VideoInv(b)'
  <2>1. VideoInv(b)
    BY DEF IInv, SafeInv
  <2>2. ScanInv(b)'
    BY <2>1 DEF VideoInv, ScanInv, ScanPasses, rows, At
  <2>3. SeenInv(b)'
    BY <2>1 DEF VideoInv, SeenInv, PlayedInv, ScanPasses, Scanned, rows, At
  <2> QED BY <2>1, <2>2, <2>3 DEF VideoInv, PlayedInv, DeletionInv,
        ScanPasses, Scanned, rows
<1>5. overwritten' = overwritten
  BY DEF ScanPasses
<1> QED BY <1>2, <1>3, <1>4, <1>5, BystanderInv DEF IInv

\* Errors are counted within their bound.
LEMMA FailsType ==
    ASSUME TypeOK, NEW certain \in BOOLEAN, Fails(certain)
    PROVE  faults' \in 0 .. MaxFaults
<1>1. PICK m \in 0 .. MaxFaults : m = faults
  BY DEF TypeOK
<1>2. faults' = m \/ (m < MaxFaults /\ faults' = m + 1)
  BY <1>1 DEF Fails
<1> QED BY <1>2, VideoAssumption

\* The scan has passed: the row becomes READY, and unless a newer mp4 is the
\* lesson's video, the upload becomes it.
LEMMA ScanAttachInv ==
    ASSUME IInv, ScanAttach
    PROVE  IInv'
<1>1. PICK a \in Uploads : a = scanner.on
  BY DEF IInv, TypeInv, Works, ScanAttach
<1>2. PICK c : c = scanner.seen
  OBVIOUS
<1>3. PICK n \in 0 .. ScanMax : n = upload[a].attempts
  BY DEF IInv, TypeInv, TypeOK
<1>4. /\ scanner.pc = "attach" /\ scanner' = Idle
      /\ UNCHANGED <<stored, transcoder, cleaner, request, overwritten, faults>>
  BY DEF ScanAttach
<1>5. upload' = [upload EXCEPT ![a].status = "READY"]
  BY <1>1 DEF ScanAttach
<1>6. upload' \in UploadType
  BY <1>5 DEF IInv, TypeInv, TypeOK, UploadType, UploadStatus
<1>7. \A b \in Uploads : upload'[b] = IF b = a THEN Row("READY", n) ELSE upload[b]
  BY <1>3, <1>5 DEF IInv, TypeInv, TypeOK, Row
<1>8. playing' \in {playing, Mp4(a)} /\ transcode' \in TranscodeType
  <2>1. transcode' \in {transcode, [transcode EXCEPT ![a] = Row("PENDING", 0)]}
    BY <1>1 DEF ScanAttach
  <2>2. playing' \in {playing, Mp4(a)}
    BY <1>1 DEF ScanAttach
  <2> QED BY <2>1, <2>2, VideoAssumption
        DEF IInv, TypeInv, TypeOK, TranscodeType, TranscodeStatus, Row
<1>9. /\ deletion' \in DeletionType
      /\ \A b \in Uploads :
           deletion'[b].status = "PENDING" => deletion'[b].attempts = 0
      /\ \A b \in Uploads : deletion'[b].status \in {deletion[b].status, "PENDING"}
      /\ \A b \in Uploads : c # Mp4(b) => deletion'[b] = deletion[b]
  <2>1. CASE deletion' = deletion
    BY <2>1 DEF IInv, TypeInv, TypeOK, DeletionType
  <2>2. CASE deletion' = Retired(c)
    BY <2>2, RetiredInv DEF IInv
  <2> QED BY <1>2, <2>1, <2>2 DEF ScanAttach
<1>10. TypeInv'
  BY <1>4, <1>6, <1>8, <1>9, KeyFacts DEF IInv, TypeInv, TypeOK, UploadType,
      TranscodeType, DeletionType, WorkerType, Works, Idle, At, SeenMp4Inv, RequestInv
<1>11. Bystander
  BY <1>4, <1>8, KeyFacts DEF Bystander, IInv, SafeInv
<1>12. ASSUME NEW b \in Uploads \ overwritten PROVE VideoInv(b)'
  <2>1. VideoInv(b)
    BY DEF IInv, SafeInv
  <2>2. b = a => upload[b].status = "SCANNING" /\ Mp4(b) \in stored
    BY <1>1, <1>4, <2>1 DEF VideoInv, ScanInv
  <2>3. IF b = a THEN upload'[b].status = "READY" ELSE upload'[b] = upload[b]
    BY <1>7 DEF Row
  <2>4. Scanned(b) => Scanned(b)'
    BY <2>2, <2>3 DEF Scanned
  <2>5. ScanInv(b)'
    BY <1>4, KeyFacts DEF ScanInv, Idle, At
  <2>6. SeenInv(b)'
    BY <1>4, <2>1, <2>4, KeyFacts DEF VideoInv, SeenInv, Idle, At
  <2>7. PlayedInv(b)'
    <3>1. (playing' = Mp4(b) => b = a \/ playing = Mp4(b))
          /\ (playing' = Hls(b) => playing = Hls(b))
      BY <1>8, KeyFacts
    <3> QED BY <1>4, <2>1, <2>2, <2>3, <2>4, <3>1 DEF VideoInv, PlayedInv
  <2>8. c = Mp4(b) => Scanned(b)
    BY <1>2, <2>1 DEF VideoInv, SeenInv
  <2>9. b = a => deletion[b].status = "NONE" /\ cleaner.on # b
    BY <2>1, <2>2 DEF VideoInv, DeletionInv, Scanned
  <2>10. DeletionInv(b)'
    <3>1. deletion'[b].status # "NONE" => Scanned(b)'
      BY <1>9, <2>1, <2>4, <2>8 DEF VideoInv, DeletionInv
    <3>2. cleaner'.on = b => deletion'[b].status \in {"PENDING", "DELETING"}
      BY <1>4, <1>9, <2>1 DEF VideoInv, DeletionInv
    <3>3. cleaner'.pc \in {"delete", "record"} /\ cleaner'.on = b => playing' # Mp4(b)
      BY <1>4, <1>8, <2>1, <2>9, KeyFacts DEF VideoInv, DeletionInv
    <3>4. upload'[b].status = "READY" /\ Mp4(b) \notin stored'
            => deletion'[b].status \in {"PENDING", "DELETING", "ERROR"}
      BY <1>4, <1>9, <2>1, <2>2, <2>3 DEF VideoInv, DeletionInv
    <3> QED BY <3>1, <3>2, <3>3, <3>4 DEF DeletionInv
  <2> QED BY <2>5, <2>6, <2>7, <2>10 DEF VideoInv
<1> QED BY <1>4, <1>10, <1>11, <1>12, BystanderInv DEF IInv

\* A scan that ends without a clean file: the upload was not played.
LEMMA ScanEndsInv ==
    ASSUME IInv, scanner # Idle, NEW s \in {"REJECTED", "ERROR"}, ScanEnds(s),
           faults' \in 0 .. MaxFaults
    PROVE  IInv'
<1>1. PICK a \in Uploads : a = scanner.on
  BY DEF IInv, TypeInv, Works
<1>2. PICK n \in 0 .. ScanMax : n = upload[a].attempts
  BY DEF IInv, TypeInv, TypeOK
<1>3. upload' = [upload EXCEPT ![a].status = s]
  BY <1>1 DEF ScanEnds
<1>4. upload' \in UploadType
  BY <1>3 DEF IInv, TypeInv, TypeOK, UploadType, UploadStatus
<1>5. \A b \in Uploads : upload'[b] = IF b = a THEN Row(s, n) ELSE upload[b]
  BY <1>2, <1>3 DEF IInv, TypeInv, TypeOK, Row
<1>6. TypeInv'
  BY <1>4 DEF IInv, TypeInv, TypeOK, UploadType, WorkerType, ScanEnds, Works, Idle, At,
      SeenMp4Inv, RequestInv
<1>7. Bystander
  BY DEF Bystander, ScanEnds, IInv, SafeInv
<1>8. ASSUME NEW b \in Uploads \ overwritten PROVE VideoInv(b)'
  <2>1. VideoInv(b)
    BY DEF IInv, SafeInv
  <2>2. b = a => upload[b].status = "SCANNING"
    BY <1>1, <2>1 DEF VideoInv, ScanInv
  <2>3. Scanned(b) => upload'[b] = upload[b]
    BY <1>5, <2>2 DEF Scanned
  <2>4. upload'[b].status = IF b = a THEN s ELSE upload[b].status
    BY <1>5 DEF Row
  <2>5. scanner' = Idle /\ Idle.on # b /\ Idle.pc = "idle"
    BY KeyFacts DEF ScanEnds, Idle, At
  <2>6. UNCHANGED <<request, stored, cleaner, deletion, playing>>
    BY DEF ScanEnds
  <2>7. ScanInv(b)'
    BY <2>5 DEF ScanInv
  <2>8. SeenInv(b)'
    BY <2>1, <2>3, KeyFacts DEF VideoInv, SeenInv, ScanEnds, Scanned, Idle, At
  <2>9. PlayedInv(b)'
    BY <2>1, <2>3, <2>6 DEF VideoInv, PlayedInv, Scanned
  <2>10. DeletionInv(b)'
    BY <2>1, <2>2, <2>3, <2>4, <2>6 DEF VideoInv, DeletionInv, Scanned
  <2> QED BY <2>7, <2>8, <2>9, <2>10 DEF VideoInv
<1>9. overwritten' = overwritten
  BY DEF ScanEnds
<1> QED BY <1>6, <1>7, <1>8, <1>9, BystanderInv DEF IInv

\* A rejected upload is not played.
LEMMA ScanRejectsInv ==
    ASSUME IInv, ScanRejects
    PROVE  IInv'
<1>1. scanner # Idle /\ faults' \in 0 .. MaxFaults
  BY DEF ScanRejects, Idle, At, IInv, TypeInv, TypeOK
<1> QED BY <1>1, ScanEndsInv DEF ScanRejects

\* A failed scan leaves the lesson alone.
LEMMA ScanFailsInv ==
    ASSUME IInv, ScanFails
    PROVE  IInv'
<1>1. faults' \in 0 .. MaxFaults
  <2>1. PICK certain \in BOOLEAN :
          certain = (scanner.pc = "scan" /\ Mp4(scanner.on) \notin stored)
    OBVIOUS
  <2> QED BY <2>1, FailsType DEF ScanFails, IInv, TypeInv
<1> QED BY <1>1, ScanEndsInv DEF ScanFails

\* A worker that dies leaves rows and objects as they are.
LEMMA ScannerDiesInv ==
    ASSUME IInv, ScannerDies
    PROVE  IInv'
<1>1. faults' \in 0 .. MaxFaults
  BY FailsType DEF ScannerDies, Fault, IInv, TypeInv
<1>2. TypeInv'
  BY <1>1 DEF IInv, TypeInv, TypeOK, WorkerType, ScannerDies, rows, Works, Idle, At,
      SeenMp4Inv, RequestInv
<1>3. Bystander
  BY DEF Bystander, ScannerDies, IInv, SafeInv
<1>4. ASSUME NEW b \in Uploads \ overwritten PROVE VideoInv(b)'
  BY KeyFacts DEF IInv, SafeInv, ScannerDies, rows, VideoInv, ScanInv, SeenInv,
      PlayedInv, DeletionInv, Scanned, Idle, At
<1>5. overwritten' = overwritten
  BY DEF ScannerDies
<1> QED BY <1>2, <1>3, <1>4, <1>5, BystanderInv DEF IInv

\* The steps of the scanner.
LEMMA ScanStepInv ==
    ASSUME IInv, ScanStep
    PROVE  IInv'
BY ScanClaimInv, ScanPassesInv, ScanAttachInv, ScanRejectsInv, ScanFailsInv DEF ScanStep

-----------------------------------------------------------------------------
(* The transcode worker.                                                     *)

\* The states of the transcoder.
TranscoderType == WorkerType({"check", "work", "attach", "discard"})

\* A step of the transcoder that leaves the lesson alone: at most it adds the
\* package it made or removes one that is not played.
LEMMA TranscoderInv ==
    ASSUME IInv, UNCHANGED <<upload, deletion, playing, scanner, cleaner, request,
                             overwritten>>,
           faults' \in 0 .. MaxFaults, transcode' \in TranscodeType,
           transcoder' \in TranscoderType, Works(transcoder'),
           NEW a \in Uploads, a = transcoder.on \/ stored' = stored,
           stored' \in {stored, stored \cup {Hls(a)}, stored \ {Hls(a)}},
           playing = Hls(a) /\ Hls(a) \notin stored' => stored' = stored,
           transcoder'.seen \in {playing, transcoder.seen, None},
           \A b \in Uploads : PackageInv(b)'
    PROVE  IInv'
<1>1. TypeInv'
  BY KeyFacts DEF IInv, TypeInv, TypeOK, TranscodeType, TranscoderType, Works, SeenMp4Inv,
      RequestInv
<1>2. \A p \in Packages : Package(p) \in stored'
  BY KeyFacts DEF IInv, SafeInv
<1>3. \A b \in Uploads : LiveInv(b)'
  BY KeyFacts DEF IInv, SafeInv, LiveInv
<1>4. ASSUME NEW b \in Uploads \ overwritten PROVE VideoInv(b)'
  <2>1. VideoInv(b)
    BY DEF IInv, SafeInv
  <2>2. Mp4(b) \in stored' <=> Mp4(b) \in stored
    BY KeyFacts
  <2>3. ScanInv(b)' /\ SeenInv(b)'
    BY <2>1, <2>2, KeyFacts DEF VideoInv, ScanInv, SeenInv, PlayedInv, Scanned
  <2>4. PlayedInv(b)' /\ DeletionInv(b)'
    BY <2>1, <2>2 DEF VideoInv, PlayedInv, DeletionInv, Scanned
  <2> QED BY <2>3, <2>4 DEF VideoInv
<1> QED BY <1>1, <1>2, <1>3, <1>4 DEF IInv, SafeInv

\* The transcoder takes a job whose package is not played.
LEMMA TranscodeClaimInv ==
    ASSUME IInv, NEW a \in Uploads, TranscodeClaim(a)
    PROVE  IInv'
<1>1. PICK n \in 0 .. TranscodeMax : n = transcode[a].attempts + 1
  <2>1. PICK k \in 0 .. TranscodeMax : k = transcode[a].attempts
    BY DEF IInv, TypeInv, TypeOK
  <2>2. k < TranscodeMax
    BY <2>1 DEF TranscodeClaim
  <2> QED BY <2>1, <2>2, VideoAssumption
<1>2. transcode' = [transcode EXCEPT ![a] = Row("TRANSCODING", n)]
  BY <1>1 DEF TranscodeClaim
<1>3. transcode' \in TranscodeType
  BY <1>2 DEF IInv, TypeInv, TypeOK, TranscodeType, TranscodeStatus, Row
<1>4. transcoder' = At("check", a, None)
  BY DEF TranscodeClaim
<1>5. transcoder' \in TranscoderType /\ Works(transcoder') /\ transcoder'.seen = None
  BY <1>4 DEF TranscoderType, WorkerType, Works, At
<1>6. \A b \in Uploads : PackageInv(b)'
  BY <1>4 DEF PackageInv, At
<1>7. /\ faults' \in 0 .. MaxFaults /\ stored' = stored
      /\ UNCHANGED <<upload, deletion, playing, scanner, cleaner, request,
                     overwritten>>
  BY DEF TranscodeClaim, IInv, TypeInv, TypeOK
<1> QED BY <1>3, <1>5, <1>6, <1>7, TranscoderInv

\* A job in hand whose row gets another status.
LEMMA TranscodeStatusType ==
    ASSUME TypeInv, NEW a \in Uploads, NEW s \in TranscodeStatus,
           transcode' = [transcode EXCEPT ![a].status = s]
    PROVE  transcode' \in TranscodeType
BY DEF TypeInv, TypeOK, TranscodeType

\* It goes on only where the lesson plays the mp4.
LEMMA TranscodeCheckInv ==
    ASSUME IInv, TranscodeCheck
    PROVE  IInv'
<1>1. PICK a \in Uploads : a = transcoder.on
  BY DEF IInv, TypeInv, Works, TranscodeCheck
<1>2. /\ faults' \in 0 .. MaxFaults /\ stored' = stored
      /\ UNCHANGED <<upload, deletion, playing, scanner, cleaner, request,
                     overwritten>>
  BY DEF TranscodeCheck, IInv, TypeInv, TypeOK
<1>3. CASE playing = Mp4(a)
  <2>1. transcoder' = At("work", a, None) /\ transcode' = transcode
    BY <1>1, <1>3 DEF TranscodeCheck
  <2>2. transcoder' \in TranscoderType /\ Works(transcoder') /\ transcoder'.seen = None
    BY <2>1 DEF TranscoderType, WorkerType, Works, At
  <2>3. transcode' \in TranscodeType
    BY <2>1 DEF IInv, TypeInv, TypeOK, TranscodeType
  <2>4. \A b \in Uploads : PackageInv(b)'
    BY <1>2, <1>3, <2>1, KeyFacts DEF PackageInv, At
  <2> QED BY <1>2, <2>2, <2>3, <2>4, TranscoderInv
<1>4. CASE playing # Mp4(a)
  <2>1. transcoder' = Idle /\ transcode' = [transcode EXCEPT ![a].status = "SUPERSEDED"]
    BY <1>1, <1>4 DEF TranscodeCheck
  <2>2. transcoder' \in TranscoderType /\ Works(transcoder') /\ transcoder'.seen = None
    BY <2>1 DEF TranscoderType, WorkerType, Works, At, Idle
  <2>3. transcode' \in TranscodeType
    BY <2>1, TranscodeStatusType DEF IInv, TranscodeStatus
  <2>4. \A b \in Uploads : PackageInv(b)'
    BY <2>1 DEF PackageInv, At, Idle
  <2> QED BY <1>2, <2>2, <2>3, <2>4, TranscoderInv
<1> QED BY <1>3, <1>4

\* It stores the package and reads the lesson.
LEMMA TranscodeUploadInv ==
    ASSUME IInv, TranscodeUpload
    PROVE  IInv'
<1>1. PICK a \in Uploads : a = transcoder.on
  BY DEF IInv, TypeInv, Works, TranscodeUpload
<1>2. PICK v \in Keys \cup {None} : v = playing
  BY DEF IInv, TypeInv, TypeOK
<1>3. /\ faults' \in 0 .. MaxFaults /\ stored' = stored \cup {Hls(a)}
      /\ UNCHANGED <<upload, deletion, playing, scanner, cleaner, request,
                     overwritten>>
  BY <1>1 DEF TranscodeUpload, rows, IInv, TypeInv, TypeOK
<1>4. transcoder' = At("attach", a, v) /\ transcode' \in TranscodeType
  BY <1>1, <1>2 DEF TranscodeUpload, rows, IInv, TypeInv, TypeOK, TranscodeType
<1>5. transcoder' \in TranscoderType /\ Works(transcoder') /\ transcoder'.seen = playing
  BY <1>2, <1>4 DEF TranscoderType, WorkerType, Works, At
<1>6. ASSUME NEW b \in Uploads PROVE PackageInv(b)'
  <2>1. playing # Hls(a)
    BY <1>1 DEF IInv, SafeInv, PackageInv, TranscodeUpload
  <2> QED BY <1>3, <1>4, <2>1 DEF PackageInv, At
<1> QED BY <1>1, <1>3, <1>4, <1>5, <1>6, TranscoderInv

\* It gives up where the lesson played something else.
LEMMA TranscodeSupersededInv ==
    ASSUME IInv, TranscodeSuperseded
    PROVE  IInv'
<1>1. PICK a \in Uploads : a = transcoder.on
  BY DEF IInv, TypeInv, Works, TranscodeSuperseded
<1>2. /\ faults' \in 0 .. MaxFaults /\ stored' = stored
      /\ UNCHANGED <<upload, deletion, playing, scanner, cleaner, request,
                     overwritten>>
  BY DEF TranscodeSuperseded, IInv, TypeInv, TypeOK
<1>3. /\ transcoder' = At("discard", a, None)
      /\ transcode' = [transcode EXCEPT ![a].status = "SUPERSEDED"]
  BY <1>1 DEF TranscodeSuperseded
<1>4. transcoder' \in TranscoderType /\ Works(transcoder') /\ transcoder'.seen = None
  BY <1>3 DEF TranscoderType, WorkerType, Works, At
<1>5. transcode' \in TranscodeType
  BY <1>3, TranscodeStatusType DEF IInv, TranscodeStatus
<1>6. ASSUME NEW b \in Uploads PROVE PackageInv(b)'
  <2>1. playing # Hls(a)
    BY <1>1 DEF IInv, SafeInv, PackageInv, TranscodeSuperseded
  <2> QED BY <1>2, <1>3, <2>1 DEF PackageInv, At
<1> QED BY <1>2, <1>4, <1>5, <1>6, TranscoderInv

\* It removes a package that nothing plays.
LEMMA TranscodeDiscardInv ==
    ASSUME IInv, TranscodeDiscard
    PROVE  IInv'
<1>1. PICK a \in Uploads : a = transcoder.on
  BY DEF IInv, TypeInv, Works, TranscodeDiscard
<1>2. /\ faults' \in 0 .. MaxFaults /\ stored' = stored \ {Hls(a)}
      /\ UNCHANGED <<upload, deletion, playing, scanner, cleaner, request,
                     overwritten>>
  BY <1>1 DEF TranscodeDiscard, rows, IInv, TypeInv, TypeOK
<1>3. transcoder' = Idle /\ transcode' \in TranscodeType
  BY DEF TranscodeDiscard, rows, IInv, TypeInv, TypeOK, TranscodeType
<1>4. transcoder' \in TranscoderType /\ Works(transcoder') /\ transcoder'.seen = None
  BY <1>3 DEF TranscoderType, WorkerType, Works, At, Idle
<1>5. \A b \in Uploads : PackageInv(b)'
  BY <1>3 DEF PackageInv, At, Idle
<1>6. playing # Hls(a)
  BY <1>1 DEF IInv, SafeInv, PackageInv, TranscodeDiscard
<1> QED BY <1>1, <1>2, <1>3, <1>4, <1>5, <1>6, TranscoderInv

\* It fails, and may remove what it stored, which is not played.
LEMMA TranscodeFailsInv ==
    ASSUME IInv, TranscodeFails
    PROVE  IInv'
<1>1. PICK a \in Uploads : a = transcoder.on
  BY DEF IInv, TypeInv, Works, TranscodeFails
<1>2. faults' \in 0 .. MaxFaults
  <2>1. PICK certain \in BOOLEAN :
          certain = (transcoder.pc = "work" /\ Mp4(transcoder.on) \notin stored)
    OBVIOUS
  <2> QED BY <2>1, FailsType DEF TranscodeFails, IInv, TypeInv
<1>3. /\ stored' \in {stored, stored \ {Hls(a)}}
      /\ UNCHANGED <<upload, deletion, playing, scanner, cleaner, request,
                     overwritten>>
  <2>1. PICK removed \in SUBSET {Hls(a)} : stored' = stored \ removed
    BY <1>1 DEF TranscodeFails
  <2>2. removed = {} \/ removed = {Hls(a)}
    OBVIOUS
  <2> QED BY <2>1, <2>2 DEF TranscodeFails
<1>4. /\ transcoder' = Idle
      /\ transcode' = [transcode EXCEPT ![a].status = "ERROR"]
  BY <1>1 DEF TranscodeFails
<1>5. transcoder' \in TranscoderType /\ Works(transcoder') /\ transcoder'.seen = None
  BY <1>4 DEF TranscoderType, WorkerType, Works, At, Idle
<1>6. transcode' \in TranscodeType
  BY <1>4, TranscodeStatusType DEF IInv, TranscodeStatus
<1>7. \A b \in Uploads : PackageInv(b)'
  BY <1>4 DEF PackageInv, At, Idle
<1>8. playing # Hls(a)
  BY <1>1 DEF IInv, SafeInv, PackageInv, TranscodeFails
<1> QED BY <1>1, <1>2, <1>3, <1>5, <1>6, <1>7, <1>8, TranscoderInv

\* It dies, and the job stays claimed.
LEMMA TranscoderDiesInv ==
    ASSUME IInv, TranscoderDies
    PROVE  IInv'
<1>1. PICK a \in Uploads : a = transcoder.on
  BY DEF IInv, TypeInv, Works, TranscoderDies
<1>2. faults' \in 0 .. MaxFaults
  BY FailsType DEF TranscoderDies, Fault, IInv, TypeInv
<1>3. /\ stored' = stored /\ transcode' \in TranscodeType /\ transcoder' = Idle
      /\ UNCHANGED <<upload, deletion, playing, scanner, cleaner, request,
                     overwritten>>
  BY DEF TranscoderDies, rows, IInv, TypeInv, TypeOK, TranscodeType
<1>4. transcoder' \in TranscoderType /\ Works(transcoder') /\ transcoder'.seen = None
  BY <1>3 DEF TranscoderType, WorkerType, Works, At, Idle
<1>5. \A b \in Uploads : PackageInv(b)'
  BY <1>3 DEF PackageInv, At, Idle
<1> QED BY <1>2, <1>3, <1>4, <1>5, TranscoderInv

\* The package becomes the lesson's video, and the mp4 it was made of is
\* retired: it was seen as the lesson's video, so it has been scanned.
LEMMA TranscodeAttachInv ==
    ASSUME IInv, TranscodeAttach
    PROVE  IInv'
<1>1. PICK a \in Uploads : a = transcoder.on
  BY DEF IInv, TypeInv, Works, TranscodeAttach
<1>2. /\ transcoder.pc = "attach" /\ transcoder.seen = Mp4(a)
      /\ transcoder' = Idle /\ playing' = Hls(a) /\ deletion' = Retired(Mp4(a))
      /\ transcode' = [transcode EXCEPT ![a].status = "READY"]
      /\ UNCHANGED <<upload, stored, scanner, cleaner, request, overwritten, faults>>
  BY <1>1 DEF TranscodeAttach
<1>3. transcode' \in TranscodeType
  BY <1>2, TranscodeStatusType DEF IInv, TranscodeStatus
<1>4. PICK key : key = Mp4(a)
  OBVIOUS
<1>5. /\ deletion' \in DeletionType
      /\ \A b \in Uploads :
           deletion'[b].status = "PENDING" => deletion'[b].attempts = 0
      /\ \A b \in Uploads : deletion'[b].status \in {deletion[b].status, "PENDING"}
      /\ \A b \in Uploads : b # a => deletion'[b] = deletion[b]
  <2>1. deletion' = Retired(key)
    BY <1>2, <1>4
  <2> QED BY <1>4, <2>1, RetiredInv, KeyFacts DEF IInv
<1>6. TypeInv'
  BY ZenonT(60), <1>2, <1>3, <1>5, KeyFacts DEF IInv, TypeInv, TypeOK, TranscodeType, DeletionType,
      WorkerType, Works, Idle, At, SeenMp4Inv, RequestInv
<1>7. Hls(a) \in stored
  BY <1>1, <1>2 DEF IInv, SafeInv, PackageInv
<1>8. ASSUME NEW b \in Uploads PROVE LiveInv(b)' /\ PackageInv(b)'
  BY <1>2, <1>7, KeyFacts DEF LiveInv, PackageInv, Idle, At
<1>9. ASSUME NEW b \in Uploads \ overwritten PROVE VideoInv(b)'
  <2>1. VideoInv(b)
    BY DEF IInv, SafeInv
  <2>2. b = a => Scanned(b)
    BY <1>2, <2>1 DEF VideoInv, SeenInv
  <2>3. playing' # Mp4(b) /\ (playing' = Hls(b) => b = a)
    BY <1>2, KeyFacts
  <2>4. ScanInv(b)' /\ SeenInv(b)'
    BY <1>2, <2>1, KeyFacts DEF VideoInv, ScanInv, SeenInv, Scanned, Idle, At
  <2>5. PlayedInv(b)'
    BY <1>2, <2>2, <2>3 DEF PlayedInv, Scanned
  <2>6. DeletionInv(b)'
    BY <1>2, <1>5, <2>1, <2>2, <2>3 DEF VideoInv, DeletionInv, Scanned
  <2> QED BY <2>4, <2>5, <2>6 DEF VideoInv
<1>10. \A p \in Packages : Package(p) \in stored'
  BY <1>2 DEF IInv, SafeInv
<1> QED BY <1>2, <1>6, <1>8, <1>9, <1>10 DEF IInv, SafeInv

\* The steps of the transcoder.
LEMMA TranscodeStepInv ==
    ASSUME IInv, TranscodeStep
    PROVE  IInv'
BY TranscodeClaimInv, TranscodeCheckInv, TranscodeUploadInv, TranscodeAttachInv,
   TranscodeSupersededInv, TranscodeDiscardInv, TranscodeFailsInv DEF TranscodeStep

-----------------------------------------------------------------------------
(* The cleanup worker.                                                       *)

\* The states of the cleaner.
CleanerType == WorkerType({"count", "delete", "record"})

\* What every step of the cleaner owes to the type invariant.
CleanerTyped ==
    /\ upload' \in UploadType /\ deletion' \in DeletionType
    /\ \A b \in Uploads : deletion'[b].status = "PENDING" => deletion'[b].attempts = 0
    /\ stored' \subseteq stored
    /\ cleaner' \in CleanerType /\ Works(cleaner')
    /\ faults' \in 0 .. MaxFaults
    /\ UNCHANGED <<transcode, playing, scanner, transcoder, request, overwritten>>

\* Such a step keeps the type invariant.
LEMMA CleanerTypeInv ==
    ASSUME TypeInv, CleanerTyped
    PROVE  TypeInv'
BY DEF TypeInv, TypeOK, CleanerTyped, UploadType, DeletionType, CleanerType, Works,
       SeenMp4Inv, RequestInv

\* A step of the cleaner that writes the deletion queue only.
LEMMA CleanerInv ==
    ASSUME IInv, CleanerTyped, UNCHANGED <<upload, stored>>,
           \A b \in Uploads \ overwritten : DeletionInv(b)'
    PROVE  IInv'
<1>1. TypeInv'
  BY CleanerTypeInv DEF IInv
<1>2. Bystander
  BY DEF Bystander, CleanerTyped, IInv, SafeInv
<1>3. ASSUME NEW b \in Uploads \ overwritten PROVE VideoInv(b)'
  <2>1. VideoInv(b)
    BY DEF IInv, SafeInv
  <2>2. ScanInv(b)' /\ SeenInv(b)' /\ PlayedInv(b)'
    BY <2>1 DEF VideoInv, CleanerTyped, ScanInv, SeenInv, PlayedInv, Scanned
  <2> QED BY <2>2 DEF VideoInv
<1>4. overwritten' = overwritten
  BY DEF CleanerTyped
<1> QED BY <1>1, <1>2, <1>3, <1>4, BystanderInv DEF IInv

\* A deletion whose row is replaced, with the attempts it has had.
LEMMA DeletionRow ==
    ASSUME TypeInv, NEW a \in Uploads, NEW s \in DeletionStatus \ {"PENDING"},
           NEW n \in 0 .. (DeleteMax + 1),
           \/ deletion' = [deletion EXCEPT ![a] = Row(s, n)]
           \/ deletion' = [deletion EXCEPT ![a].status = s]
    PROVE  /\ deletion' \in DeletionType
           /\ \A b \in Uploads :
                deletion'[b].status = "PENDING" => deletion'[b].attempts = 0
           /\ \A b \in Uploads :
                deletion'[b].status = IF b = a THEN s ELSE deletion[b].status
<1>1. CASE deletion' = [deletion EXCEPT ![a] = Row(s, n)]
  <2>1. deletion' \in DeletionType
    BY <1>1 DEF TypeInv, TypeOK, DeletionType, Row
  <2>2. \A b \in Uploads : deletion'[b] = IF b = a THEN Row(s, n) ELSE deletion[b]
    BY <1>1 DEF TypeInv, TypeOK
  <2> QED BY <2>1, <2>2 DEF TypeInv, Row
<1>2. CASE deletion' = [deletion EXCEPT ![a].status = s]
  <2>1. deletion' \in DeletionType
    BY <1>2 DEF TypeInv, TypeOK, DeletionType
  <2>2. \A b \in Uploads : /\ b # a => deletion'[b] = deletion[b]
                           /\ deletion'[a].status = s
    BY <1>2 DEF TypeInv, TypeOK
  <2> QED BY <2>1, <2>2 DEF TypeInv
<1> QED BY <1>1, <1>2

\* The cleaner takes a deletion that is due.
LEMMA DeleteClaimInv ==
    ASSUME IInv, NEW a \in Uploads, DeleteClaim(a)
    PROVE  IInv'
<1>1. PICK n \in 0 .. (DeleteMax + 1) : n = deletion[a].attempts + 1
  <2>1. PICK k \in 0 .. (DeleteMax + 1) : k = deletion[a].attempts
    BY DEF IInv, TypeInv, TypeOK
  <2>2. k = 0 \/ k <= DeleteMax
    BY <2>1, VideoAssumption DEF DeleteClaim, Deletable, IInv, TypeInv
  <2> QED BY <2>1, <2>2, VideoAssumption
<1>2. /\ deletion' = [deletion EXCEPT ![a] = Row("DELETING", n)]
      /\ cleaner' = At("count", a, None)
      /\ UNCHANGED <<upload, transcode, playing, stored, scanner, transcoder,
                     request, overwritten, faults>>
  BY <1>1 DEF DeleteClaim
<1>3. /\ deletion' \in DeletionType
      /\ \A b \in Uploads :
           deletion'[b].status = "PENDING" => deletion'[b].attempts = 0
      /\ \A b \in Uploads :
           deletion'[b].status = IF b = a THEN "DELETING" ELSE deletion[b].status
  <2>1. PICK s \in DeletionStatus \ {"PENDING"} : s = "DELETING"
    BY DEF DeletionStatus
  <2>2. TypeInv /\ deletion' = [deletion EXCEPT ![a] = Row(s, n)]
    BY <1>2, <2>1 DEF IInv
  <2> QED BY ONLY ZenonT(60), <2>1, <2>2, DeletionRow, a \in Uploads, n \in 0 .. (DeleteMax + 1)
<1>4. CleanerTyped
  BY <1>2, <1>3 DEF CleanerTyped, IInv, TypeInv, TypeOK, UploadType, CleanerType,
      WorkerType, Works, At
<1>5. ASSUME NEW b \in Uploads \ overwritten PROVE DeletionInv(b)'
  <2>1. DeletionInv(b)
    BY DEF IInv, SafeInv, VideoInv
  <2>2. deletion[a].status # "NONE"
    BY DEF DeleteClaim, Deletable
  <2> QED BY <1>2, <1>3, <2>1, <2>2 DEF DeletionInv, Scanned, At
<1> QED BY <1>2, <1>4, <1>5, CleanerInv

\* An mp4 that is still the lesson's video is kept, and it is stored.
LEMMA DeleteCountInv ==
    ASSUME IInv, DeleteCount
    PROVE  IInv'
<1>1. PICK a \in Uploads : a = cleaner.on
  BY DEF IInv, TypeInv, Works, DeleteCount
<1>2. /\ cleaner.pc = "count"
      /\ UNCHANGED <<upload, transcode, playing, stored, scanner, transcoder,
                     request, overwritten, faults>>
  BY DEF DeleteCount
<1>3. CASE playing = Mp4(a)
  <2>1. cleaner' = Idle /\ deletion' = [deletion EXCEPT ![a].status = "CANCELLED"]
    BY <1>1, <1>3 DEF DeleteCount, Referenced
  <2>2. /\ deletion' \in DeletionType
        /\ \A b \in Uploads :
             deletion'[b].status = "PENDING" => deletion'[b].attempts = 0
        /\ \A b \in Uploads :
             deletion'[b].status = IF b = a THEN "CANCELLED" ELSE deletion[b].status
    <3>1. 0 \in 0 .. (DeleteMax + 1) /\ "CANCELLED" \in DeletionStatus \ {"PENDING"}
      BY VideoAssumption DEF DeletionStatus
    <3> QED BY <2>1, <3>1, DeletionRow DEF IInv
  <2>3. CleanerTyped
    BY <1>2, <2>1, <2>2 DEF CleanerTyped, IInv, TypeInv, TypeOK, UploadType, CleanerType,
        WorkerType, Works, Idle, At
  <2>4. ASSUME NEW b \in Uploads \ overwritten PROVE DeletionInv(b)'
    <3>1. VideoInv(b)
      BY DEF IInv, SafeInv
    <3>2. b = a => Scanned(b) /\ Mp4(b) \in stored
      BY <1>3, <3>1 DEF VideoInv, PlayedInv, Scanned
    <3>3. DeletionInv(b)
      BY <3>1 DEF VideoInv
    <3> QED BY <1>2, <2>1, <2>2, <3>2, <3>3, KeyFacts DEF DeletionInv, Scanned, Idle, At
  <2> QED BY <1>2, <2>3, <2>4, CleanerInv
<1>4. CASE playing # Mp4(a)
  <2>1. cleaner' = At("delete", a, None) /\ deletion' = deletion
    BY <1>1, <1>4 DEF DeleteCount, Referenced
  <2>2. CleanerTyped
    BY <1>2, <2>1 DEF CleanerTyped, IInv, TypeInv, TypeOK, UploadType, DeletionType,
        CleanerType, WorkerType, Works, At
  <2>3. ASSUME NEW b \in Uploads \ overwritten PROVE DeletionInv(b)'
    <3>1. DeletionInv(b)
      BY DEF IInv, SafeInv, VideoInv
    <3> QED BY <1>1, <1>2, <1>4, <2>1, <3>1 DEF DeletionInv, Scanned, At
  <2> QED BY <1>2, <2>2, <2>3, CleanerInv
<1> QED BY <1>3, <1>4

\* The object deleted is not played, and its deletion is still in the queue.
LEMMA DeleteObjectInv ==
    ASSUME IInv, DeleteObject
    PROVE  IInv'
<1>1. PICK a \in Uploads : a = cleaner.on
  BY DEF IInv, TypeInv, Works, DeleteObject
<1>2. /\ cleaner.pc = "delete" /\ cleaner' = At("record", a, None)
      /\ stored' = stored \ {Mp4(a)}
      /\ UNCHANGED <<upload, transcode, deletion, playing, scanner, transcoder,
                     request, overwritten, faults>>
  BY <1>1 DEF DeleteObject, rows
<1>3. CleanerTyped
  BY <1>2 DEF CleanerTyped, IInv, TypeInv, TypeOK, UploadType, DeletionType,
      CleanerType, WorkerType, Works, At
<1>4. TypeInv'
  BY <1>3, CleanerTypeInv DEF IInv
<1>5. Bystander
  BY <1>2, KeyFacts DEF Bystander, IInv, SafeInv
<1>6. ASSUME NEW b \in Uploads \ overwritten PROVE VideoInv(b)'
  <2>1. VideoInv(b)
    BY DEF IInv, SafeInv
  <2>2. b = a => /\ deletion[b].status \in {"PENDING", "DELETING"}
                 /\ playing # Mp4(b) /\ Scanned(b)
    BY <1>1, <1>2, <2>1 DEF VideoInv, DeletionInv
  <2>3. b # a /\ Mp4(b) \in stored => Mp4(b) \in stored'
    BY <1>2, KeyFacts
  <2>4. ScanInv(b)' /\ SeenInv(b)'
    BY <1>2, <2>1, <2>2, <2>3 DEF VideoInv, ScanInv, SeenInv, Scanned
  <2>5. PlayedInv(b)'
    BY <1>2, <2>1, <2>2, <2>3 DEF VideoInv, PlayedInv, Scanned
  <2>6. DeletionInv(b)'
    BY <1>1, <1>2, <2>1, <2>2, <2>3 DEF VideoInv, DeletionInv, Scanned, At
  <2> QED BY <2>4, <2>5, <2>6 DEF VideoInv
<1> QED BY <1>2, <1>4, <1>5, <1>6, BystanderInv DEF IInv

\* The loss is recorded of an upload that was READY: it had been scanned.
LEMMA DeleteRecordInv ==
    ASSUME IInv, DeleteRecord
    PROVE  IInv'
<1>1. PICK a \in Uploads : a = cleaner.on
  BY DEF IInv, TypeInv, Works, DeleteRecord
<1>2. /\ cleaner.pc = "record" /\ cleaner' = Idle
      /\ upload' = IF upload[a].status = "READY"
                   THEN [upload EXCEPT ![a].status = "PURGED"] ELSE upload
      /\ deletion' = [deletion EXCEPT ![a].status = "COMPLETED"]
      /\ UNCHANGED <<transcode, playing, stored, scanner, transcoder, request,
                     overwritten, faults>>
  BY <1>1 DEF DeleteRecord
<1>3. upload' \in UploadType
  BY <1>2 DEF IInv, TypeInv, TypeOK, UploadType, UploadStatus
<1>4. \A b \in Uploads :
        upload'[b].status = IF b = a /\ upload[a].status = "READY"
                            THEN "PURGED" ELSE upload[b].status
  BY <1>2 DEF IInv, TypeInv, TypeOK
<1>5. /\ deletion' \in DeletionType
      /\ \A b \in Uploads :
           deletion'[b].status = "PENDING" => deletion'[b].attempts = 0
      /\ \A b \in Uploads :
           deletion'[b].status = IF b = a THEN "COMPLETED" ELSE deletion[b].status
  <2>1. 0 \in 0 .. (DeleteMax + 1) /\ "COMPLETED" \in DeletionStatus \ {"PENDING"}
    BY VideoAssumption DEF DeletionStatus
  <2> QED BY ZenonT(60), <1>2, <2>1, DeletionRow DEF IInv
<1>6. CleanerTyped
  BY <1>2, <1>3, <1>5 DEF CleanerTyped, IInv, TypeInv, TypeOK, CleanerType, WorkerType,
      Works, Idle, At
<1>7. TypeInv'
  BY <1>6, CleanerTypeInv DEF IInv
<1>8. Bystander
  BY <1>2 DEF Bystander, IInv, SafeInv
<1>9. ASSUME NEW b \in Uploads \ overwritten PROVE VideoInv(b)'
  <2>1. VideoInv(b)
    BY DEF IInv, SafeInv
  <2>2. b = a => playing # Mp4(b) /\ Scanned(b)
    BY <1>1, <1>2, <2>1 DEF VideoInv, DeletionInv
  <2>3. /\ b # a => upload'[b].status = upload[b].status
        /\ b = a => upload'[b].status = "PURGED"
        /\ Scanned(b) => Scanned(b)'
    BY <1>4, <2>2 DEF Scanned
  <2>4. ScanInv(b)' /\ SeenInv(b)'
    BY <1>2, <2>1, <2>2, <2>3 DEF VideoInv, ScanInv, SeenInv, Scanned
  <2>5. PlayedInv(b)'
    BY <1>2, <2>1, <2>2, <2>3 DEF VideoInv, PlayedInv
  <2>6. DeletionInv(b)'
    BY <1>2, <1>5, <2>1, <2>3, KeyFacts DEF VideoInv, DeletionInv, Scanned, Idle, At
  <2> QED BY <2>4, <2>5, <2>6 DEF VideoInv
<1> QED BY <1>2, <1>7, <1>8, <1>9, BystanderInv DEF IInv

\* It fails: the deletion stays in the queue.
LEMMA DeleteFailsInv ==
    ASSUME IInv, DeleteFails
    PROVE  IInv'
<1>1. PICK a \in Uploads : a = cleaner.on
  BY DEF IInv, TypeInv, Works, DeleteFails
<1>2. faults' \in 0 .. MaxFaults
  BY FailsType DEF DeleteFails, Fault, IInv, TypeInv
<1>3. /\ cleaner' = Idle /\ deletion' = [deletion EXCEPT ![a].status = "ERROR"]
      /\ UNCHANGED <<upload, transcode, playing, stored, scanner, transcoder, request,
                     overwritten>>
  BY <1>1 DEF DeleteFails
<1>4. /\ deletion' \in DeletionType
      /\ \A b \in Uploads :
           deletion'[b].status = "PENDING" => deletion'[b].attempts = 0
      /\ \A b \in Uploads :
           deletion'[b].status = IF b = a THEN "ERROR" ELSE deletion[b].status
  <2>1. 0 \in 0 .. (DeleteMax + 1) /\ "ERROR" \in DeletionStatus \ {"PENDING"}
    BY VideoAssumption DEF DeletionStatus
  <2> QED BY <1>3, <2>1, DeletionRow DEF IInv
<1>5. CleanerTyped
  BY <1>2, <1>3, <1>4 DEF CleanerTyped, IInv, TypeInv, TypeOK, UploadType, CleanerType,
      WorkerType, Works, Idle, At
<1>6. ASSUME NEW b \in Uploads \ overwritten PROVE DeletionInv(b)'
  <2>1. DeletionInv(b)
    BY DEF IInv, SafeInv, VideoInv
  <2>2. b = a => deletion[b].status \in {"PENDING", "DELETING"}
    BY <1>1, <2>1 DEF DeletionInv
  <2> QED BY <1>3, <1>4, <2>1, <2>2, KeyFacts DEF DeletionInv, Scanned, Idle, At
<1> QED BY <1>3, <1>5, <1>6, CleanerInv

\* It dies, and the deletion stays claimed.
LEMMA CleanerDiesInv ==
    ASSUME IInv, CleanerDies
    PROVE  IInv'
<1>1. faults' \in 0 .. MaxFaults
  BY FailsType DEF CleanerDies, Fault, IInv, TypeInv
<1>2. cleaner' = Idle /\ UNCHANGED <<rows, playing, stored, scanner, transcoder, request,
                     overwritten>>
  BY DEF CleanerDies
<1>3. CleanerTyped
  BY <1>1, <1>2 DEF CleanerTyped, IInv, TypeInv, TypeOK, UploadType, DeletionType,
      CleanerType, WorkerType, Works, Idle, At, rows
<1>4. ASSUME NEW b \in Uploads \ overwritten PROVE DeletionInv(b)'
  <2>1. DeletionInv(b)
    BY DEF IInv, SafeInv, VideoInv
  <2> QED BY <1>2, <2>1, KeyFacts DEF DeletionInv, Scanned, Idle, At, rows
<1> QED BY <1>2, <1>3, <1>4, CleanerInv DEF rows

\* An upload given up for lost is in no one's hands and not played.  A request
\* that would complete it has yet to write over its row.
LEMMA AbandonInv ==
    ASSUME IInv, NEW a \in Uploads, Abandon(a)
    PROVE  IInv'
<1>1. PICK n \in 0 .. ScanMax : n = upload[a].attempts
  BY DEF IInv, TypeInv, TypeOK
<1>2. /\ upload[a].status = "UPLOADING"
      /\ upload' = [upload EXCEPT ![a].status = "PURGED"]
      /\ deletion' = [deletion EXCEPT ![a] = Row("PENDING", 0)]
      /\ UNCHANGED <<transcode, playing, stored, scanner, transcoder, cleaner,
                     request, overwritten, faults>>
  BY DEF Abandon, workers
<1>3. upload' \in UploadType
  BY <1>2 DEF IInv, TypeInv, TypeOK, UploadType, UploadStatus
<1>4. \A b \in Uploads : upload'[b] = IF b = a THEN Row("PURGED", n) ELSE upload[b]
  BY <1>1, <1>2 DEF IInv, TypeInv, TypeOK, Row
<1>5. /\ deletion' \in DeletionType
      /\ \A b \in Uploads :
           deletion'[b] = IF b = a THEN Row("PENDING", 0) ELSE deletion[b]
  BY <1>2, VideoAssumption DEF IInv, TypeInv, TypeOK, DeletionType, DeletionStatus, Row
<1>6. \A b \in Uploads : deletion'[b].status = "PENDING" => deletion'[b].attempts = 0
  BY <1>5 DEF IInv, TypeInv, Row
<1>7. CleanerTyped
  BY <1>2, <1>3, <1>5, <1>6 DEF CleanerTyped, IInv, TypeInv, TypeOK, CleanerType, Works
<1>8. TypeInv'
  BY <1>7, CleanerTypeInv DEF IInv
<1>9. Bystander
  BY <1>2 DEF Bystander, IInv, SafeInv
<1>10. ASSUME NEW b \in Uploads \ overwritten PROVE VideoInv(b)'
  <2>1. VideoInv(b)
    BY DEF IInv, SafeInv
  <2>2. b = a => scanner.on # b /\ playing # Mp4(b)
    BY <1>2, <2>1 DEF VideoInv, ScanInv, PlayedInv
  <2>3. Scanned(b) => upload'[b] = upload[b]
    BY <1>2, <1>4 DEF Scanned
  <2>4. /\ b # a => upload'[b].status = upload[b].status
        /\ b = a => upload'[b].status = "PURGED"
    BY <1>4 DEF Row
  <2>5. ScanInv(b)'
    BY <1>2, <2>1, <2>2, <2>4 DEF VideoInv, ScanInv
  <2>6. SeenInv(b)'
    BY <1>2, <2>1, <2>3 DEF VideoInv, SeenInv, Scanned
  <2>7. PlayedInv(b)'
    BY <1>2, <2>1, <2>2, <2>3 DEF VideoInv, PlayedInv, Scanned
  <2>8. /\ b = a => deletion'[b].status = "PENDING"
        /\ b # a => deletion'[b] = deletion[b]
    BY <1>5 DEF Row
  <2>9. DeletionInv(b)'
    BY <1>2, <2>1, <2>2, <2>3, <2>4, <2>8 DEF VideoInv, DeletionInv, Scanned
  <2> QED BY <2>5, <2>6, <2>7, <2>9 DEF VideoInv
<1> QED BY <1>2, <1>8, <1>9, <1>10, BystanderInv DEF IInv

\* The steps of the cleaner.
LEMMA CleanStepInv ==
    ASSUME IInv, CleanStep
    PROVE  IInv'
BY AbandonInv, DeleteClaimInv, DeleteCountInv, DeleteObjectInv, DeleteRecordInv,
   DeleteFailsInv DEF CleanStep

-----------------------------------------------------------------------------
(* The theorems.                                                             *)

\* Every step keeps the inductive invariant.
LEMMA NextInv ==
    ASSUME IInv, [Next]_vars
    PROVE  IInv'
<1>1. CASE UNCHANGED vars
  <2>1. TypeInv'
    BY <1>1 DEF vars, rows, workers, IInv, TypeInv, TypeOK, Works, SeenMp4Inv, RequestInv
  <2>2. \A b \in Uploads \ overwritten : VideoInv(b)'
    BY <1>1 DEF vars, rows, workers, IInv, SafeInv, VideoInv, ScanInv, SeenInv,
        PlayedInv, DeletionInv, Scanned
  <2>3. Bystander
    BY <1>1 DEF vars, rows, workers, Bystander, IInv, SafeInv
  <2>4. overwritten' = overwritten
    BY <1>1 DEF vars
  <2> QED BY <2>1, <2>2, <2>3, <2>4, BystanderInv DEF IInv
<1>2. CASE Next
  <2>1. ASSUME NEW a \in Uploads, StartUpload(a) \/ PostObject(a) PROVE IInv'
    BY <2>1, StartUploadInv, PostObjectInv
  <2>2. ASSUME NEW r \in Requests, RequestBegins(r) \/ RequestEnds(r) PROVE IInv'
    BY <2>2, RequestBeginsInv, RequestEndsInv
  <2>3. CASE Death
    BY <2>3, ScannerDiesInv, TranscoderDiesInv, CleanerDiesInv DEF Death
  <2> QED BY <1>2, <2>1, <2>2, <2>3, ScanStepInv, TranscodeStepInv, CleanStepInv DEF Next
<1> QED BY <1>1, <1>2

\* Only a scan that saw no newer mp4 makes an older one the lesson's video.
LEMMA NextNewer ==
    ASSUME IInv, [Next]_vars
    PROVE  \A a \in Uploads, b \in Uploads :
             a < b /\ playing = Mp4(b) => playing' # Mp4(a)
<1> SUFFICES ASSUME NEW a \in Uploads, NEW b \in Uploads, a < b, playing = Mp4(b),
                    playing' = Mp4(a)
             PROVE  FALSE
  OBVIOUS
<1>1. playing' # playing
  BY KeyFacts DEF Uploads
<1>2. playing' = playing \/ ScanAttach
      \/ (\E x : playing' = Hls(x)) \/ (\E x : playing' = Package(x))
  BY DEF Next, vars, rows, StartUpload, PostObject, RequestBegins, RequestEnds, Begins,
      CompleteRead, RetryScanRead, RetryTranscodeRead, ActivateRead, CompleteWrite,
      RetryScanWrite, RetryTranscodeWrite, ActivateWrite, ScanStep, ScanClaim,
      ScanPasses, ScanEnds, ScanRejects, ScanFails, TranscodeStep, TranscodeClaim,
      TranscodeCheck, TranscodeUpload, TranscodeAttach, TranscodeSuperseded,
      TranscodeDiscard, TranscodeFails, CleanStep, Abandon, DeleteClaim, DeleteCount,
      DeleteObject, DeleteRecord, DeleteFails, Death, ScannerDies, TranscoderDies,
      CleanerDies
<1>3. ScanAttach
  BY <1>1, <1>2, KeyFacts
<1>4. PICK d \in Uploads : d = scanner.on
  BY <1>3 DEF ScanAttach, IInv, TypeInv, Works
<1>5. ShouldAttach(d, scanner.seen) /\ playing' = Mp4(d)
  BY <1>1, <1>3, <1>4 DEF ScanAttach
<1>6. d = a /\ scanner.seen = Mp4(b)
  BY <1>3, <1>5, KeyFacts DEF ScanAttach, IInv, TypeInv, SeenMp4Inv
<1> QED BY <1>5, <1>6 DEF ShouldAttach, Uploads

\* The inductive invariant holds in every state.
THEOREM Invariant == Spec => []IInv
<1>1. IInv /\ [Next]_vars => IInv'
  BY NextInv
<1> QED BY <1>1, InitInv, PTL DEF Spec

\* Whatever the editors, the workers and the faults do, the tables and the
\* workers are of their types.
THEOREM VideoTypes == Spec => []TypeOK
<1>1. IInv => TypeOK
  BY DEF IInv, TypeInv
<1> QED BY <1>1, Invariant, PTL

\* While a newer mp4 is the lesson's video, no older mp4 takes its place,
\* however slow a request is.
THEOREM VideoNewer == Spec => NewerMp4Stays
<1>1. IInv /\ [Next]_vars =>
        [\A a \in Uploads, b \in Uploads :
           a < b /\ playing = Mp4(b) => playing' # Mp4(a)]_vars
  BY NextNewer
<1> QED BY <1>1, Invariant, PTL DEF Spec, NewerMp4Stays

\* Of the uploads that no request wrote over, one that a lesson plays, as a
\* file or as its package, has passed its latest scan, whatever the scanner
\* retries or takes over.
THEOREM VideoReady == Spec => []PlayedIsReady
<1>1. IInv => PlayedIsReady
  BY DEF IInv, SafeInv, VideoInv, PlayedInv, Scanned, PlayedIsReady
<1> QED BY <1>1, Invariant, PTL

\* A package that a lesson plays is in the object store, and so is an mp4,
\* unless a request wrote over the row of its upload.
THEOREM VideoStored == Spec => []LiveVideoIsStored
<1>1. ASSUME IInv, NEW a \in Uploads, playing = Mp4(a) PROVE LiveVideoIsStored
  BY <1>1 DEF IInv, SafeInv, VideoInv, PlayedInv, LiveVideoIsStored
<1>2. ASSUME IInv, NEW a \in Uploads, playing = Hls(a) PROVE LiveVideoIsStored
  BY <1>2 DEF IInv, SafeInv, LiveInv, LiveVideoIsStored
<1>3. ASSUME IInv, NEW p \in Packages, playing = Package(p) PROVE LiveVideoIsStored
  BY <1>3 DEF IInv, SafeInv, LiveVideoIsStored
<1>4. IInv => LiveVideoIsStored
  BY <1>1, <1>2, <1>3 DEF IInv, TypeInv, TypeOK, Keys, LiveVideoIsStored
<1> QED BY <1>4, Invariant, PTL

\* Whatever gives a deletion up was an error or a death: the unattended
\* attempts of a job that is not closed are no more than the faults.
DeletionBudget ==
    \A a \in Uploads :
        /\ cleaner.on = a => deletion[a].status \in {"PENDING", "DELETING"}
        /\ deletion[a].status \in {"PENDING", "DELETING", "ERROR"} =>
              deletion[a].attempts <= IF cleaner.on = a THEN faults + 1 ELSE faults

\* A counter and its successor are not negative.
LEMMA NotNegative == \A k \in Nat : 0 <= k /\ 0 <= k + 1
OBVIOUS

\* A step of any other process resets deletions, or leaves them alone.
LEMMA OthersBudget ==
    ASSUME IInv, IInv', DeletionBudget, cleaner' = cleaner, faults' >= faults,
           \A a \in Uploads : deletion'[a] = deletion[a] \/ deletion'[a] = Row("PENDING", 0)
    PROVE  DeletionBudget'
<1>1. faults \in Nat /\ faults' \in Nat
  BY DEF IInv, TypeInv, TypeOK
<1>2. ASSUME NEW a \in Uploads
      PROVE  /\ cleaner.on = a => deletion'[a].status \in {"PENDING", "DELETING"}
             /\ deletion'[a].status \in {"PENDING", "DELETING", "ERROR"} =>
                   deletion'[a].attempts <= IF cleaner.on = a THEN faults' + 1 ELSE faults'
  <2>1. CASE deletion'[a] = Row("PENDING", 0)
    <3>1. deletion'[a].status = "PENDING" /\ deletion'[a].attempts = 0
      BY <2>1 DEF Row
    <3>2. 0 <= faults' /\ 0 <= faults' + 1
      BY <1>1, NotNegative
    <3> QED BY <3>1, <3>2
  <2>2. CASE deletion'[a] = deletion[a]
    <3>1. PICK n \in Nat : n = deletion[a].attempts
      BY DEF IInv, TypeInv, TypeOK
    <3> QED BY <1>1, <2>2, <3>1 DEF DeletionBudget
  <2> QED BY <2>1, <2>2
<1> QED BY <1>2 DEF DeletionBudget

\* The budget after a step that leaves the cleaner where it is.
LEMMA NoCleanBudget ==
    ASSUME IInv, IInv', DeletionBudget, Next, ~CleanStep, ~CleanerDies
    PROVE  DeletionBudget'
<1>1. cleaner' = cleaner
  BY DEF Next, StartUpload, PostObject, RequestBegins, RequestEnds, Begins, Ends,
      CompleteRead, RetryScanRead, RetryTranscodeRead, ActivateRead, CompleteWrite,
      RetryScanWrite, RetryTranscodeWrite, ActivateWrite, ScanStep, ScanClaim,
      ScanPasses, ScanAttach, ScanEnds, ScanRejects, ScanFails, TranscodeStep,
      TranscodeClaim, TranscodeCheck, TranscodeUpload, TranscodeAttach,
      TranscodeSuperseded, TranscodeDiscard, TranscodeFails, Death, ScannerDies,
      TranscoderDies, workers
<1>2. faults' = faults \/ faults' = faults + 1
  BY DEF Next, StartUpload, PostObject, RequestBegins, RequestEnds, Begins, Ends,
      CompleteRead, RetryScanRead, RetryTranscodeRead, ActivateRead, CompleteWrite,
      RetryScanWrite, RetryTranscodeWrite, ActivateWrite, ScanStep, ScanClaim,
      ScanPasses, ScanAttach, ScanRejects, ScanFails, TranscodeStep,
      TranscodeClaim, TranscodeCheck, TranscodeUpload, TranscodeAttach,
      TranscodeSuperseded, TranscodeDiscard, TranscodeFails, Death, ScannerDies,
      TranscoderDies, Fault, Fails
<1>3. faults' >= faults
  BY <1>2 DEF IInv, TypeInv, TypeOK
<1>4. deletion' = deletion \/ \E key : deletion' = Retired(key)
  BY DEF Next, StartUpload, PostObject, RequestBegins, RequestEnds, Begins, Ends, rows,
      CompleteRead, RetryScanRead, RetryTranscodeRead, ActivateRead, CompleteWrite,
      RetryScanWrite, RetryTranscodeWrite, ActivateWrite, ScanStep, ScanClaim,
      ScanPasses, ScanAttach, ScanEnds, ScanRejects, ScanFails, TranscodeStep,
      TranscodeClaim, TranscodeCheck, TranscodeUpload, TranscodeAttach,
      TranscodeSuperseded, TranscodeDiscard, TranscodeFails, Death, ScannerDies,
      TranscoderDies
<1>5. \A a \in Uploads : deletion'[a] = deletion[a] \/ deletion'[a] = Row("PENDING", 0)
  <2>1. CASE deletion' = deletion
    BY <2>1
  <2>2. ASSUME NEW key, deletion' = Retired(key)
        PROVE  \A a \in Uploads : deletion'[a] = deletion[a] \/ deletion'[a] = Row("PENDING", 0)
    BY <2>2, RetiredFacts DEF IInv, TypeInv
  <2> QED BY <1>4, <2>1, <2>2
<1> QED BY <1>1, <1>3, <1>5, OthersBudget

\* The budget after a step of the cleaner, or its death: an attempt is counted
\* when it is claimed, and paid for with a fault when it is given up.
LEMMA CleanBudget ==
    ASSUME IInv, IInv', DeletionBudget, CleanStep \/ CleanerDies
    PROVE  DeletionBudget'
<1> DEFINE Tried(a) == deletion[a].attempts
<1>0. /\ faults \in Nat
      /\ \A a \in Uploads : Tried(a) \in Nat /\ Tried(a)' \in Nat
      /\ \A a \in Uploads : Idle.on # a
  BY KeyFacts DEF IInv, TypeInv, TypeOK, Idle, At
<1>1. ASSUME NEW a \in Uploads, Abandon(a) PROVE DeletionBudget'
  <2>1. /\ deletion' = [deletion EXCEPT ![a] = Row("PENDING", 0)]
        /\ UNCHANGED <<cleaner, faults>>
    BY <1>1 DEF Abandon, workers
  <2>2. \A b \in Uploads : deletion'[b] = deletion[b] \/ deletion'[b] = Row("PENDING", 0)
    BY <2>1 DEF IInv, TypeInv, TypeOK
  <2> QED BY <1>0, <2>1, <2>2, OthersBudget
<1>2. ASSUME NEW a \in Uploads, DeleteClaim(a) PROVE DeletionBudget'
  <2>1. /\ deletion' = [deletion EXCEPT ![a] = Row("DELETING", @.attempts + 1)]
        /\ cleaner = Idle /\ cleaner'.on = a /\ UNCHANGED faults
        /\ deletion[a].status \in {"PENDING", "DELETING", "ERROR"}
    BY <1>2 DEF DeleteClaim, Deletable, At
  <2>2. \A b \in Uploads :
          /\ b # a => deletion'[b] = deletion[b]
          /\ b = a => Tried(b)' = Tried(b) + 1
    BY <2>1 DEF IInv, TypeInv, TypeOK, Row
  <2>3. Tried(a) <= faults
    BY <1>0, <2>1 DEF DeletionBudget
  <2>4. Tried(a)' <= faults + 1 /\ deletion'[a].status = "DELETING"
    BY <1>0, <2>1, <2>2, <2>3 DEF IInv, TypeInv, TypeOK, Row
  <2>5. ASSUME NEW b \in Uploads, b # a
        PROVE  /\ cleaner'.on # b
               /\ deletion'[b].status \in {"PENDING", "DELETING", "ERROR"} =>
                     deletion'[b].attempts <= faults
    BY <1>0, <2>1, <2>2, <2>5 DEF DeletionBudget
  <2> QED BY <2>1, <2>4, <2>5 DEF DeletionBudget
<1>3. ASSUME DeleteCount \/ DeleteObject \/ DeleteRecord PROVE DeletionBudget'
  <2>1. PICK a \in Uploads : a = cleaner.on
    BY <1>3 DEF IInv, TypeInv, Works, DeleteCount, DeleteObject, DeleteRecord
  <2>2. \/ /\ deletion' = deletion /\ cleaner'.on = a
        \/ /\ cleaner' = Idle
           /\ \E s \in {"CANCELLED", "COMPLETED"} :
                deletion' = [deletion EXCEPT ![a].status = s]
    BY <1>3, <2>1 DEF DeleteCount, DeleteObject, DeleteRecord, At, rows
  <2>3. UNCHANGED faults
    BY <1>3 DEF DeleteCount, DeleteObject, DeleteRecord
  <2>4. CASE deletion' = deletion /\ cleaner'.on = a
    BY <1>0, <2>1, <2>3, <2>4 DEF DeletionBudget
  <2>5. ASSUME NEW s \in {"CANCELLED", "COMPLETED"}, cleaner' = Idle,
               deletion' = [deletion EXCEPT ![a].status = s]
        PROVE  DeletionBudget'
    <3>1. \A b \in Uploads : /\ b # a => deletion'[b] = deletion[b]
                             /\ deletion'[a].status = s
      BY <2>5 DEF IInv, TypeInv, TypeOK
    <3> QED BY <1>0, <2>1, <2>3, <2>5, <3>1 DEF DeletionBudget
  <2> QED BY <2>2, <2>4, <2>5
<1>4. ASSUME DeleteFails \/ CleanerDies PROVE DeletionBudget'
  <2>1. PICK a \in Uploads : a = cleaner.on
    BY <1>4 DEF IInv, TypeInv, Works, DeleteFails, CleanerDies
  <2>2. cleaner' = Idle /\ faults' = faults + 1
    BY <1>4 DEF DeleteFails, CleanerDies, Fault, Fails
  <2>3. \/ deletion' = deletion
        \/ deletion' = [deletion EXCEPT ![a].status = "ERROR"]
    BY <1>4, <2>1 DEF DeleteFails, CleanerDies, rows
  <2>4. \A b \in Uploads : /\ Tried(b)' = Tried(b)
                           /\ b # a => deletion'[b] = deletion[b]
    BY <2>3 DEF IInv, TypeInv, TypeOK
  <2>5. Tried(a) <= faults + 1
    BY <2>1 DEF DeletionBudget
  <2> QED BY <1>0, <2>1, <2>2, <2>4, <2>5 DEF DeletionBudget
<1> QED BY <1>1, <1>2, <1>3, <1>4 DEF CleanStep

\* The budget is kept by every behaviour.
LEMMA BudgetKept == Spec => []DeletionBudget
<1>1. Init => DeletionBudget
  BY KeyFacts DEF Init, DeletionBudget, Row, Idle, At
<1>2. ASSUME IInv, IInv', DeletionBudget, [Next]_vars PROVE DeletionBudget'
  <2>1. CASE UNCHANGED vars
    BY <1>2, <2>1 DEF DeletionBudget, vars, rows, workers
  <2> QED BY <1>2, <2>1, NoCleanBudget, CleanBudget
<1> QED BY <1>1, <1>2, Invariant, PTL DEF Spec

\* The deletion of an upload that is READY without its object is in work or
\* will be selected again, unless as many errors and deaths as it has attempts
\* used them up, or a request wrote over the row of the upload.
THEOREM VideoMissing == Spec => []MissingIsQueued
<1>1. ASSUME IInv, DeletionBudget, NEW a \in Uploads \ overwritten,
             upload[a].status = "READY", Mp4(a) \notin stored, cleaner.on # a
      PROVE  Deletable(a) \/ (faults >= DeleteMax /\ DeletionSpent(a))
  <2>1. deletion[a].status \in {"PENDING", "DELETING", "ERROR"}
    BY <1>1 DEF IInv, SafeInv, VideoInv, DeletionInv
  <2>2. PICK n \in Nat : n = deletion[a].attempts
    BY <1>1 DEF IInv, TypeInv, TypeOK
  <2>3. PICK k \in Nat : k = faults
    BY <1>1 DEF IInv, TypeInv, TypeOK
  <2>4. n <= k
    BY <1>1, <2>1, <2>2, <2>3 DEF DeletionBudget
  <2>5. n < DeleteMax \/ (k >= DeleteMax /\ n >= DeleteMax)
    BY <2>2, <2>3, <2>4, VideoAssumption
  <2>6. n < DeleteMax => n <= DeleteMax
    BY <2>2, VideoAssumption
  <2> QED BY <2>1, <2>2, <2>3, <2>5, <2>6 DEF Deletable, DeletionSpent
<1>2. IInv /\ DeletionBudget => MissingIsQueued
  BY <1>1 DEF MissingIsQueued
<1> QED BY <1>2, Invariant, BudgetKept, PTL
=============================================================================
