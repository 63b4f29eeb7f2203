--------------------------- MODULE PublishingSystem ---------------------------
(****************************************************************************)
(* What operators and users publish, the files it needs, and the worker     *)
(* that deletes the files nothing needs, over one database and one store.   *)
(****************************************************************************)
EXTENDS CommunityPosts

\* Packages, posts, notices and inquiries are rows of different tables, and what a
\* scenario begins with is what its operations may ask for.
ASSUME PublishingAssumption ==
    /\ Files \subseteq Nat /\ IsFiniteSet(Files)
    /\ Packages \cup Posts \cup Notices \cup Inquiries \subseteq Places
    /\ Packages \cap (Posts \cup Notices \cup Inquiries) = {}
    /\ \A name \in DOMAIN Scenarios : LET begun == Scenarios[name] IN
          /\ begun.requests \in Nat
          /\ begun.kinds \subseteq Kinds
          /\ DOMAIN begun.files \subseteq Files
          /\ \A f \in DOMAIN begun.files :
                begun.files[f] \in [status: {"READY"}, kind: Kinds, owner: Users, place: {{}}]

Init == RequestsInit /\ FilesInit /\ CatalogueInit /\ PackagesInit /\ PostsInit

Uploading ==
    \/ \E u \in Users, kind \in Asked.kinds : StartUpload(u, kind)
    \/ \E u \in Users, f \in Files : StartComplete(u, f)

Cataloguing ==
    \/ \E u \in Operators, l \in Lessons :
          \/ \E status \in {"DRAFT", "PUBLISHED", "ARCHIVED"} : StartLessonStatus(u, l, status)
          \/ \E status \in {"PENDING_REVIEW", "SCHEDULED", "PUBLISHED", "ARCHIVED"} :
                StartMissionStatus(u, l, status)
    \/ \E l \in Lessons :
          \/ CreateLesson(l)
          \/ VideoTurns(l)
          \/ \E valid \in BOOLEAN : CreateMission(l, valid) \/ UpdateMission(l, valid)

Editing == \E u \in Operators :
    \/ \E p \in Packages, text \in Lessons, files \in SUBSET Files :
          \/ \E status \in {"DRAFT", "PUBLISHED"} : StartCreate(u, p, text, files, status)
          \/ StartUpdate(u, p, text, files)
    \/ \E h \in history : StartRestore(u, h)
    \/ \E p \in Packages : StartPublish(u, p) \/ StartArchive(u, p)

Moderating == \E u \in Users :
    \/ \E p \in Posts, files \in {{}} \cup {{f} : f \in Files} :
          \/ CreatePost(u, p, files)
          \/ \E changes \in BOOLEAN : StartPostUpdate(u, p, changes, files)
    \/ \E p \in Posts, verdict \in {"PUBLISHED", "REJECTED"} : StartReview(u, p, verdict)
    \/ \E p \in Posts : StartPostArchive(u, p) \/ StartReport(u, p)
    \/ \E q \in DOMAIN report, action \in {"hide", "dismiss"} : StartResolution(u, q, action)
    \/ \E n \in Notices, files \in {{}} \cup {{f} : f \in Files} :
          \/ CreateNotice(u, n, files)
          \/ \E status \in {"DRAFT", "PUBLISHED", "ARCHIVED"}, changes \in BOOLEAN :
                UpdateNotice(u, n, status, changes, files)
    \/ \E q \in Inquiries, files \in {{}} \cup {{f} : f \in Files} : StartInquiry(u, q, files)

PackageCommit(r) == Create(r) \/ Replace(r) \/ ChangeStatus(r)

PostCommit(r) ==
    \/ UpdatePost(r)
    \/ Review(r)
    \/ ArchivePost(r)
    \/ Submit(r)
    \/ Resolve(r)
    \/ SubmitInquiry(r)

Next ==
    \/ left > 0 /\ Uploading /\ UNCHANGED <<packageVars, catalogueVars, postVars>>
    \/ left > 0 /\ Cataloguing /\ UNCHANGED <<fileVars, packageVars, postVars>>
    \/ left > 0 /\ Editing /\ UNCHANGED postVars
    \/ left > 0 /\ Moderating
    \/ \E f \in Files : Put(f) /\ UNCHANGED <<packageVars, catalogueVars, postVars>>
    \/ \E r \in InFlight : CompleteUpload(r) /\ UNCHANGED <<packageVars, catalogueVars, postVars>>
    \/ \E r \in InFlight : PackageCommit(r) /\ UNCHANGED postVars
    \/ \E r \in InFlight : PostCommit(r)
    \/ CleanUp /\ UNCHANGED <<packageVars, catalogueVars, postVars>>
    \/ \E r \in InFlight : ChangeLessonStatus(r) /\ UNCHANGED <<fileVars, packageVars, postVars>>
    \/ \E r \in InFlight : ChangeMissionStatus(r) /\ UNCHANGED <<fileVars, packageVars, postVars>>
    \/ \E l \in Lessons : ScheduledTimeComes(l) /\ UNCHANGED <<fileVars, packageVars, postVars>>

Spec == Init /\ [][Next]_vars

-----------------------------------------------------------------------------
\* The rows have their types.
TypeOK == FilesTypeOK /\ CatalogueTypeOK /\ PackagesTypeOK /\ PostsTypeOK /\ RequestsTypeOK

\* A file something uses keeps its row and its object, belongs to one thing only, and a
\* package keeps one file of each kind it needs, however edits, restorations and the
\* clean-up overlap; and the object of a deleted row, while it is stored, is queued for
\* deletion.
InUse(f) == file[f].place # {}
FilesAreKept ==
    /\ \A f \in Files : InUse(f) =>
          /\ file[f].status # "PURGED" /\ f \in stored /\ Cardinality(file[f].place) = 1
    /\ \A p \in Packages : package[p] # NoPackage =>
          FilesFor(p, FilesOf(p)) /\ KindsOf(FilesOf(p)) = Needed(p)
    /\ \A f \in stored : file[f].status = "PURGED" => deletion[f] = "PENDING"

\* The text and files of a package never change but by its next revision, and the history
\* then gains exactly those it had, though each edit describes a row it read some time
\* before.  The status in the snapshot may be that of the row the edit read.
Contents(p) == [text |-> package[p].text, files |-> FilesOf(p)]
Kept(h) == [text |-> h.text, files |-> h.files]
HistoryIsFaithful == [][\A p \in Packages : package[p] # NoPackage =>
    LET new == {h \in history' : h.package = p} \ history IN
    IF Contents(p)' = Contents(p) /\ package'[p].revision = package[p].revision THEN new = {}
    ELSE /\ package'[p].revision = package[p].revision + 1
         /\ Cardinality(new) = 1
         /\ \A h \in new : Kept(h) = Contents(p) /\ h.revision = package[p].revision]_vars
=============================================================================
