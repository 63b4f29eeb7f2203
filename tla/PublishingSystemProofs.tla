------------------------ MODULE PublishingSystemProofs ------------------------
(****************************************************************************)
(* What is published and the files it needs, for any number of users,       *)
(* files, packages, posts, lessons and requests in flight.                  *)
(*                                                                          *)
(* IInv says which rows and objects of files go together (FileInv), what a  *)
(* package and its history hold (PackageInv, HistoryInv), and what a        *)
(* request read before its transaction and may still rely on (RequestInv):  *)
(* an edit that finds the revision it read also finds the text and the      *)
(* files it read.                                                           *)
(****************************************************************************)
EXTENDS PublishingSystem, FiniteSetTheorems, TLAPS

\* Files of kinds the package needs, no kind twice.
OneOfEach(p, fs) ==
    /\ \A f \in fs : file[f].kind \in Needed(p)
    /\ \A f, g \in fs : file[f].kind = file[g].kind => f = g

\* A file in use has its row, its object and one place; a purged row keeps the
\* queued deletion of an object that is still there.
FileInv(f) ==
    /\ file[f].status \in {"READY", "REJECTED"} => f \in stored
    /\ InUse(f) => /\ file[f].status # "PURGED" /\ f \in stored
                   /\ \E x \in Places : file[f].place = {x}
    /\ f \in stored /\ file[f].status = "PURGED" => deletion[f] = "PENDING"
    /\ deletion[f] = "PENDING" => file[f].status = "PURGED"

\* A saved package has the files it needs, one of each kind.
PackageInv(p) ==
    /\ package[p] = NoPackage => FilesOf(p) = {}
    /\ package[p] # NoPackage =>
          /\ package[p].status # "NONE" /\ package[p].revision > 0
          /\ package[p].text \in Lessons
          /\ OneOfEach(p, FilesOf(p)) /\ KindsOf(FilesOf(p)) = Needed(p)

\* The history of a package is of its earlier revisions.
HistoryInv(h) ==
    /\ package[h.package] # NoPackage
    /\ h.revision < package[h.package].revision
    /\ OneOfEach(h.package, h.files)

\* An edit of a package: it relies on what it read if the revision is the same.
EditInv(q) ==
    /\ q.row \in Packages /\ package[q.row] # NoPackage
    /\ q.seen \subseteq Files
    /\ q.what.files \subseteq Files /\ OneOfEach(q.row, q.what.files)
    /\ q.what.text \in Lessons /\ q.what.was \in Lessons
    /\ q.what.status \in {"DRAFT", "PUBLISHED", "ARCHIVED"}
    /\ q.what.revision \in Nat \ {0}
    /\ q.what.revision <= package[q.row].revision
    /\ q.what.revision = package[q.row].revision =>
          q.what.was = package[q.row].text /\ q.seen = FilesOf(q.row)

\* A package about to be created names a file of every kind it needs.
CreateInv(q) ==
    /\ q.row \in Packages
    /\ q.what.files \subseteq Files /\ OneOfEach(q.row, q.what.files)
    /\ KindsOf(q.what.files) = Needed(q.row)
    /\ q.what.text \in Lessons
    /\ q.what.status \in {"DRAFT", "PUBLISHED"}

\* What a request in flight carries from its reads and its body.
RequestInv(q) ==
    /\ q.op = "complete" => /\ q.row \in Files
                            /\ q.row \in stored \/ file[q.row].status = "PURGED"
    /\ q.op = "create" => CreateInv(q)
    /\ q.op \in {"update", "restore"} => EditInv(q)
    /\ q.op = "status" => /\ q.row \in Packages /\ package[q.row] # NoPackage
                          /\ q.what \in {"PUBLISHED", "ARCHIVED"}
    /\ q.op = "lesson" => q.what \in {"DRAFT", "PUBLISHED", "ARCHIVED"}
    /\ q.op = "mission" =>
          q.what \in {"PENDING_REVIEW", "SCHEDULED", "PUBLISHED", "ARCHIVED"}
    /\ q.op = "edit_post" =>
          /\ q.row \in Posts /\ q.what.files \subseteq Files
          /\ q.what.status \in {"PENDING_REVIEW", "PUBLISHED", "REJECTED", "HIDDEN"}
    /\ q.op = "review" => q.row \in Posts /\ q.what \in {"PUBLISHED", "REJECTED"}
    /\ q.op = "inquiry" => q.row \in Inquiries /\ q.what \subseteq Files

\* The inductive invariant.
IInv == /\ TypeOK
        /\ \A f \in Files : FileInv(f)
        /\ \A p \in Packages : PackageInv(p)
        /\ \A h \in history : HistoryInv(h)
        /\ \A r \in InFlight : RequestInv(request[r])

\* A row of the files table.
FileRow == [status: {"NONE", "QUARANTINED", "READY", "REJECTED", "PURGED"},
            kind: Kinds \cup {"none"}, owner: Users \cup {None}, place: SUBSET Places]

-----------------------------------------------------------------------------
(* What no step takes back *)

\* A file keeps its kind, and an object stays or its row is purged.
FilesGrow ==
    \A f \in Files :
        /\ file[f].kind # "none" => file'[f].kind = file[f].kind
        /\ f \in stored \/ file[f].status = "PURGED" =>
              f \in stored' \/ file'[f].status = "PURGED"

\* A package stays; its text and files change with its revision only.
PackageGrows(p) ==
    package[p] # NoPackage =>
        /\ package'[p] # NoPackage
        /\ package'[p].revision \in Nat
        /\ package'[p].revision >= package[p].revision
        /\ package'[p].revision = package[p].revision =>
              package'[p].text = package[p].text /\ FilesOf(p)' = FilesOf(p)

\* What holds of every step, Next or a stutter.
Grows == FilesGrow /\ \A p \in Packages : PackageGrows(p)

\* A package needs no file without a kind.
LEMMA NeededIsAKind == \A p : "none" \notin Needed(p)
BY DEF Needed

\* A set of files keeps its kinds.
LEMMA KindsGrow ==
    ASSUME FilesGrow, NEW p, NEW fs \in SUBSET Files, OneOfEach(p, fs)
    PROVE  OneOfEach(p, fs)' /\ KindsOf(fs)' = KindsOf(fs)
<1>1. \A f \in fs : file'[f].kind = file[f].kind
  BY NeededIsAKind DEF FilesGrow, OneOfEach
<1> QED BY <1>1 DEF OneOfEach, KindsOf, Needed

\* What a request relied on before its transaction it may still rely on.
LEMMA RequestGrows ==
    ASSUME IInv, Grows, NEW q, RequestInv(q)
    PROVE  RequestInv(q)'
<1>1. q.op = "create" => CreateInv(q)'
  <2> SUFFICES ASSUME CreateInv(q) PROVE CreateInv(q)'
    BY DEF RequestInv
  <2>1. PICK fs \in SUBSET Files : fs = q.what.files
    BY DEF CreateInv
  <2>2. OneOfEach(q.row, fs)' /\ KindsOf(fs)' = KindsOf(fs)
    BY <2>1, KindsGrow DEF CreateInv, Grows
  <2> QED BY <2>1, <2>2 DEF CreateInv, KindsOf, OneOfEach, Needed
<1>2. q.op \in {"update", "restore"} => EditInv(q)'
  <2> SUFFICES ASSUME EditInv(q) PROVE EditInv(q)'
    BY DEF RequestInv
  <2>1. PICK fs \in SUBSET Files : fs = q.what.files
    BY DEF EditInv
  <2>2. PICK p \in Packages : p = q.row
    BY DEF EditInv
  <2>3. OneOfEach(p, fs)'
    BY <2>1, <2>2, KindsGrow DEF EditInv, Grows
  <2>4. PackageGrows(p) /\ package[p].revision \in Nat
    BY DEF Grows, IInv, TypeOK, PackagesTypeOK
  <2>5. PICK n \in Nat \ {0} : n = q.what.revision
    BY DEF EditInv
  <2>6. /\ n <= package[p].revision
        /\ n = package[p].revision => q.what.was = package[p].text /\ q.seen = FilesOf(p)
        /\ package[p] # NoPackage
    BY <2>2, <2>5 DEF EditInv
  <2>7. /\ n <= package'[p].revision
        /\ n = package'[p].revision => q.what.was = package'[p].text /\ q.seen = FilesOf(p)'
        /\ package'[p] # NoPackage
    BY <2>4, <2>6 DEF PackageGrows
  <2>8. OneOfEach(q.row, q.what.files)'
    BY <2>1, <2>2, <2>3 DEF OneOfEach
  <2> QED BY <2>2, <2>5, <2>7, <2>8 DEF EditInv, FilesOf
<1> QED BY <1>1, <1>2 DEF RequestInv, Grows, FilesGrow, PackageGrows

\* A revision of the history stays behind its package.
LEMMA HistoryGrows ==
    ASSUME IInv, Grows, NEW h \in history
    PROVE  HistoryInv(h)'
<1>1. h \in Revisions /\ HistoryInv(h)
  BY DEF IInv, TypeOK, PackagesTypeOK
<1>2. PICK p \in Packages, fs \in SUBSET Files, n \in Nat :
        p = h.package /\ fs = h.files /\ n = h.revision
  BY <1>1 DEF Revisions
<1>3. PackageGrows(p) /\ package[p].revision \in Nat
  BY DEF Grows, IInv, TypeOK, PackagesTypeOK
<1>4. OneOfEach(p, fs)'
  BY <1>1, <1>2, KindsGrow DEF HistoryInv, Grows
<1>5. package'[p] # NoPackage /\ n < package'[p].revision
  BY <1>1, <1>2, <1>3 DEF HistoryInv, PackageGrows
<1> QED BY <1>2, <1>4, <1>5 DEF HistoryInv, OneOfEach

-----------------------------------------------------------------------------
(* The requests *)

\* One request moves on to something it may rely on.
LEMMA RequestsMove ==
    ASSUME IInv, Grows, NEW r \in InFlight, NEW v, RequestInv(v)',
           request' = [request EXCEPT ![r] = v]
    PROVE  DOMAIN request' = InFlight /\ \A x \in InFlight : RequestInv(request[x])'
<1>1. DOMAIN request = InFlight
  BY DEF IInv, TypeOK, RequestsTypeOK
<1>2. \A x \in InFlight : request'[x] = IF x = r THEN v ELSE request[x]
  BY <1>1
<1>3. ASSUME NEW x \in InFlight PROVE RequestInv(request[x])'
  <2>1. PICK q : q = request'[x]
    OBVIOUS
  <2>2. RequestInv(q)'
    <3>1. CASE x = r
      BY <1>2, <2>1, <3>1
    <3>2. CASE x # r
      <4>1. q = request[x]
        BY <1>2, <2>1, <3>2
      <4>2. RequestInv(q)
        BY <4>1 DEF IInv
      <4> QED BY <4>2, RequestGrows
    <3> QED BY <3>1, <3>2
  <2> QED BY <2>1, <2>2
          DEF RequestInv, CreateInv, EditInv, OneOfEach, KindsOf, Needed, FilesOf
<1> QED BY <1>1, <1>3

\* Nobody moves.
LEMMA RequestsStay ==
    ASSUME IInv, Grows, UNCHANGED request
    PROVE  DOMAIN request' = InFlight /\ \A x \in InFlight : RequestInv(request[x])'
<1>1. DOMAIN request = InFlight
  BY DEF IInv, TypeOK, RequestsTypeOK
<1>2. ASSUME NEW x \in InFlight PROVE RequestInv(request[x])'
  <2>1. PICK q : q = request[x]
    OBVIOUS
  <2>2. RequestInv(q)'
    BY <2>1, RequestGrows DEF IInv
  <2> QED BY <2>1, <2>2
          DEF RequestInv, CreateInv, EditInv, OneOfEach, KindsOf, Needed, FilesOf
<1> QED BY <1>1, <1>2

\* The requests of the next state: one read, one committed, or none did either.
RequestsFollow ==
    /\ RequestsTypeOK'
    /\ \A x \in InFlight : RequestInv(request[x])'

\* A transaction ends its request.
LEMMA EndFollows ==
    ASSUME IInv, Grows, NEW r \in InFlight, End(r)
    PROVE  RequestsFollow
<1>1. request' = [request EXCEPT ![r] = NoRequest] /\ UNCHANGED <<scenario, left>>
  BY DEF End, Proceed
<1>2. RequestInv(NoRequest)'
  BY DEF RequestInv, NoRequest
<1>3. DOMAIN request' = InFlight /\ \A x \in InFlight : RequestInv(request[x])'
  <2> HIDE DEF NoRequest
  <2> QED BY <1>1, <1>2, RequestsMove
<1> QED BY <1>1, <1>3 DEF RequestsFollow, IInv, TypeOK, RequestsTypeOK

\* A call with nothing to read first leaves the requests alone.
LEMMA StillFollows ==
    ASSUME IInv, Grows, UNCHANGED <<request, scenario>>, left' \in Nat
    PROVE  RequestsFollow
BY RequestsStay DEF RequestsFollow, IInv, TypeOK, RequestsTypeOK

\* So does a call that was counted.
LEMMA AtOnceFollows ==
    ASSUME IInv, Grows, NEW op, AtOnce(op)
    PROVE  RequestsFollow
<1>1. left' \in Nat
  BY DEF AtOnce, IInv, TypeOK, RequestsTypeOK
<1> QED BY <1>1, StillFollows DEF AtOnce

-----------------------------------------------------------------------------
(* Frames *)

\* No package gains or loses a file, and no package is written.
SamePackages ==
    UNCHANGED <<package, history>> /\ \A p \in Packages : FilesOf(p)' = FilesOf(p)

\* What a step that is not one of a package does.
Aside == IInv' /\ SamePackages

\* Rows and objects that grow, under packages that stay.
LEMMA FilesGrows == ASSUME IInv, FilesGrow, SamePackages PROVE Grows
BY DEF Grows, PackageGrows, SamePackages, IInv, TypeOK, PackagesTypeOK

\* A step of the files alone, or of what is not a package.
LEMMA FilesStep ==
    ASSUME IInv, FilesGrow, SamePackages, FilesTypeOK', CatalogueTypeOK', PostsTypeOK',
           \A f \in Files : FileInv(f)', RequestsFollow
    PROVE  Aside
<1>1. Grows
  BY FilesGrows
<1>2. PackagesTypeOK'
  BY DEF SamePackages, IInv, TypeOK, PackagesTypeOK
<1>3. ASSUME NEW p \in Packages PROVE PackageInv(p)'
  <2>1. PICK fs \in SUBSET Files : fs = FilesOf(p)
    BY DEF FilesOf
  <2>2. FilesOf(p)' = fs /\ package'[p] = package[p]
    BY <2>1 DEF SamePackages
  <2>3. OneOfEach(p, fs) => OneOfEach(p, fs)' /\ KindsOf(fs)' = KindsOf(fs)
    BY KindsGrow
  <2>4. PackageInv(p)
    BY DEF IInv
  <2> QED BY <2>1, <2>2, <2>3, <2>4 DEF PackageInv, OneOfEach, KindsOf, NoPackage, Needed
<1>4. \A h \in history' : HistoryInv(h)'
  BY <1>1, HistoryGrows DEF SamePackages
<1> QED BY <1>2, <1>3, <1>4 DEF Aside, IInv, TypeOK, RequestsFollow

\* No file and no package changes.
LEMMA StillGrows ==
    ASSUME IInv, UNCHANGED <<file, stored, package, history>>
    PROVE  FilesGrow /\ SamePackages /\ Grows
<1>1. FilesGrow /\ SamePackages
  BY DEF FilesGrow, SamePackages, FilesOf
<1> QED BY <1>1, FilesGrows

\* A step of the catalogue, of the posts or of a request.
LEMMA QuietStep ==
    ASSUME IInv, UNCHANGED <<fileVars, packageVars>>, CatalogueTypeOK', PostsTypeOK',
           RequestsFollow
    PROVE  Aside
<1>1. UNCHANGED <<file, stored, deletion, due, package, history>>
  BY DEF fileVars, packageVars
<1>2. FilesGrow /\ SamePackages
  BY <1>1, StillGrows
<1>3. FilesTypeOK'
  BY <1>1 DEF IInv, TypeOK, FilesTypeOK
<1>4. \A f \in Files : FileInv(f)'
  BY <1>1 DEF IInv, FileInv, InUse
<1> QED BY <1>2, <1>3, <1>4, FilesStep

\* A request has read what its transaction may rely on.
LEMMA EnterStep ==
    ASSUME IInv, NEW op, NEW u, NEW row, NEW what, NEW seen,
           Enter(op, u, row, what, seen),
           UNCHANGED <<fileVars, packageVars, catalogueVars, postVars>>,
           RequestInv([op |-> op, user |-> u, row |-> row, what |-> what, seen |-> seen])
    PROVE  Aside
<1> DEFINE v == [op |-> op, user |-> u, row |-> row, what |-> what, seen |-> seen]
<1>1. PICK r \in InFlight : request' = [request EXCEPT ![r] = v]
  BY DEF Enter
<1>2. RequestInv(v)
  OBVIOUS
<1> HIDE DEF v
<1>3. Grows
  BY StillGrows DEF fileVars, packageVars
<1>4. RequestInv(v)'
  BY <1>2, <1>3, RequestGrows
<1>5. DOMAIN request' = InFlight /\ \A x \in InFlight : RequestInv(request[x])'
  BY <1>1, <1>3, <1>4, RequestsMove
<1>6. left' \in Nat /\ scenario' = scenario
  BY DEF Enter, IInv, TypeOK, RequestsTypeOK
<1>7. RequestsFollow
  BY <1>5, <1>6 DEF RequestsFollow, RequestsTypeOK, IInv, TypeOK
<1>8. CatalogueTypeOK' /\ PostsTypeOK'
  BY DEF IInv, TypeOK, CatalogueTypeOK, PostsTypeOK, catalogueVars, postVars
<1> QED BY <1>7, <1>8, QuietStep

\* A step that writes a row of the catalogue or of the posts and ends its request.
LEMMA EndStep ==
    ASSUME IInv, NEW r \in InFlight, End(r), UNCHANGED <<fileVars, packageVars>>,
           CatalogueTypeOK', PostsTypeOK'
    PROVE  Aside
<1>1. Grows
  BY StillGrows DEF fileVars, packageVars
<1> QED BY <1>1, EndFollows, QuietStep

\* The same, with nothing to read first.
LEMMA AtOnceStep ==
    ASSUME IInv, NEW op, AtOnce(op), UNCHANGED <<fileVars, packageVars>>,
           CatalogueTypeOK', PostsTypeOK'
    PROVE  Aside
<1>1. Grows
  BY StillGrows DEF fileVars, packageVars
<1> QED BY <1>1, AtOnceFollows, QuietStep

-----------------------------------------------------------------------------
(* The catalogue *)

\* Lessons and missions keep their types.
LEMMA CataloguingInv ==
    ASSUME IInv, Cataloguing, UNCHANGED <<fileVars, packageVars, postVars>>
    PROVE  Aside
<1>0. CatalogueTypeOK /\ PostsTypeOK'
  BY DEF IInv, TypeOK, PostsTypeOK, postVars
<1>1. ASSUME NEW u \in Operators, NEW l \in Lessons,
             NEW status \in {"DRAFT", "PUBLISHED", "ARCHIVED"},
             StartLessonStatus(u, l, status)
      PROVE  Aside
  <2>1. RequestInv([op |-> "lesson", user |-> u, row |-> l, what |-> status, seen |-> {}])
    BY DEF RequestInv
  <2> QED BY <1>1, <2>1, EnterStep DEF StartLessonStatus
<1>2. ASSUME NEW u \in Operators, NEW l \in Lessons,
             NEW status \in {"PENDING_REVIEW", "SCHEDULED", "PUBLISHED", "ARCHIVED"},
             StartMissionStatus(u, l, status)
      PROVE  Aside
  <2>1. RequestInv([op |-> "mission", user |-> u, row |-> l, what |-> status, seen |-> {}])
    BY DEF RequestInv
  <2> QED BY <1>2, <2>1, EnterStep DEF StartMissionStatus
<1>3. ASSUME NEW l \in Lessons, CreateLesson(l) PROVE Aside
  <2>1. CatalogueTypeOK'
    BY <1>0, <1>3 DEF CreateLesson, CatalogueTypeOK
  <2> QED BY <1>0, <1>3, <2>1, AtOnceStep DEF CreateLesson
<1>4. ASSUME NEW l \in Lessons, VideoTurns(l) PROVE Aside
  <2>1. CatalogueTypeOK'
    BY ZenonT(60), <1>0, <1>4 DEF VideoTurns, CatalogueTypeOK
  <2> QED BY <1>0, <1>4, <2>1, AtOnceStep DEF VideoTurns
<1>5. ASSUME NEW l \in Lessons, NEW valid \in BOOLEAN, CreateMission(l, valid) PROVE Aside
  <2> DEFINE row == [NoMission EXCEPT !.status = "DRAFT", !.valid = valid]
  <2>1. row \in [status: {"DRAFT"}, valid: BOOLEAN, come: BOOLEAN]
    BY DEF NoMission
  <2>2. mission' = [mission EXCEPT ![l] = row] /\ lesson' = lesson
    BY <1>5 DEF CreateMission
  <2> HIDE DEF row
  <2>3. CatalogueTypeOK'
    BY <1>0, <2>1, <2>2 DEF CatalogueTypeOK
  <2> QED BY <1>0, <1>5, <2>3, AtOnceStep DEF CreateMission
<1>6. ASSUME NEW l \in Lessons, NEW valid \in BOOLEAN, UpdateMission(l, valid) PROVE Aside
  <2>1. CatalogueTypeOK'
    BY ZenonT(60), <1>0, <1>6 DEF UpdateMission, CatalogueTypeOK
  <2> QED BY <1>0, <1>6, <2>1, AtOnceStep DEF UpdateMission
<1> QED BY <1>1, <1>2, <1>3, <1>4, <1>5, <1>6 DEF Cataloguing

\* The transaction writes the status that was asked for.
LEMMA ChangeLessonStatusInv ==
    ASSUME IInv, NEW r \in InFlight, ChangeLessonStatus(r),
           UNCHANGED <<fileVars, packageVars, postVars>>
    PROVE  Aside
<1>0. PICK status \in {"DRAFT", "PUBLISHED", "ARCHIVED"} : status = request[r].what
  BY DEF ChangeLessonStatus, IInv, RequestInv
<1>1. PICK l : l = request[r].row /\ status = request[r].what
  BY <1>0
<1>2. lesson' = [lesson EXCEPT ![l].status = status] /\ mission' = mission
  BY <1>1 DEF ChangeLessonStatus
<1>3. CatalogueTypeOK'
  BY ZenonT(60), <1>2 DEF IInv, TypeOK, CatalogueTypeOK
<1>4. PostsTypeOK'
  BY DEF IInv, TypeOK, PostsTypeOK, postVars
<1> QED BY <1>3, <1>4, EndStep DEF ChangeLessonStatus

\* So does that of a mission, and its schedule starts afresh.
LEMMA ChangeMissionStatusInv ==
    ASSUME IInv, NEW r \in InFlight, ChangeMissionStatus(r),
           UNCHANGED <<fileVars, packageVars, postVars>>
    PROVE  Aside
<1>0. PICK status \in {"PENDING_REVIEW", "SCHEDULED", "PUBLISHED", "ARCHIVED"} :
         status = request[r].what
  BY DEF ChangeMissionStatus, IInv, RequestInv
<1>1. PICK l : l = request[r].row /\ status = request[r].what
  BY <1>0
<1>2. mission' = [mission EXCEPT ![l].status = status, ![l].come = FALSE] /\ lesson' = lesson
  BY <1>1 DEF ChangeMissionStatus
<1>3. CatalogueTypeOK'
  BY ZenonT(60), <1>2 DEF IInv, TypeOK, CatalogueTypeOK
<1>4. PostsTypeOK'
  BY DEF IInv, TypeOK, PostsTypeOK, postVars
<1> QED BY <1>3, <1>4, EndStep DEF ChangeMissionStatus

\* The clock marks a scheduled mission.
LEMMA ScheduledTimeComesInv ==
    ASSUME IInv, NEW l \in Lessons, ScheduledTimeComes(l),
           UNCHANGED <<fileVars, packageVars, postVars>>
    PROVE  Aside
<1>1. CatalogueTypeOK' /\ PostsTypeOK'
  BY ZenonT(60) DEF ScheduledTimeComes, IInv, TypeOK, CatalogueTypeOK, PostsTypeOK, postVars
<1>2. Grows
  BY StillGrows DEF fileVars, packageVars
<1>3. UNCHANGED <<request, scenario>> /\ left' \in Nat
  BY DEF ScheduledTimeComes, requestVars, IInv, TypeOK, RequestsTypeOK
<1> QED BY <1>1, <1>2, <1>3, StillFollows, QuietStep

-----------------------------------------------------------------------------
(* Rows and objects of files *)

\* Rows are rows.
LEMMA RowType == ASSUME IInv, NEW f \in Files PROVE file[f] \in FileRow /\ FileInv(f)
BY DEF IInv, TypeOK, FilesTypeOK, FileRow

\* The step changes one row, which keeps its place and its kind, and perhaps its job.
LEMMA RowStep ==
    ASSUME IInv, NEW f \in Files, NEW row \in FileRow,
           file' = [file EXCEPT ![f] = row],
           row.place = file[f].place,
           file[f].kind # "none" => row.kind = file[f].kind,
           file[f].status = "PURGED" => row.status = "PURGED",
           UNCHANGED <<stored, packageVars, catalogueVars, postVars>>,
           due' \subseteq Files,
           deletion' \in [Files -> {"NONE", "PENDING", "COMPLETED"}],
           \A g \in Files \ {f} : deletion'[g] = deletion[g],
           row.status \in {"READY", "REJECTED"} => f \in stored,
           row.place # {} => row.status # "PURGED",
           f \in stored /\ row.status = "PURGED" => deletion'[f] = "PENDING",
           deletion'[f] = "PENDING" => row.status = "PURGED",
           Grows => RequestsFollow
    PROVE  Aside
<1>1. \A g \in Files : file'[g] = IF g = f THEN row ELSE file[g]
  BY DEF IInv, TypeOK, FilesTypeOK
<1>2. FilesGrow
  BY <1>1 DEF FilesGrow
<1>3. SamePackages
  BY <1>1 DEF SamePackages, packageVars, FilesOf
<1>4. FilesTypeOK'
  BY DEF IInv, TypeOK, FilesTypeOK, FileRow
<1>5. ASSUME NEW g \in Files PROVE FileInv(g)'
  <2>1. FileInv(g)
    BY DEF IInv
  <2>2. CASE g = f
    BY <1>1, <2>1, <2>2 DEF FileInv, InUse
  <2>3. CASE g # f
    BY <1>1, <2>1, <2>3 DEF FileInv, InUse
  <2> QED BY <2>2, <2>3
<1>6. CatalogueTypeOK' /\ PostsTypeOK'
  BY DEF IInv, TypeOK, CatalogueTypeOK, PostsTypeOK, catalogueVars, postVars
<1> QED BY <1>2, <1>3, <1>4, <1>5, <1>6, FilesGrows, FilesStep

\* The step changes no row, and no object of a row that is still there is lost.
LEMMA ObjectStep ==
    ASSUME IInv, UNCHANGED <<file, packageVars, catalogueVars, postVars>>,
           stored' \subseteq Files, due' \subseteq Files,
           deletion' \in [Files -> {"NONE", "PENDING", "COMPLETED"}],
           \A f \in Files :
              \/ deletion'[f] = deletion[f] /\ (f \in stored' <=> f \in stored)
              \/ deletion'[f] = deletion[f] /\ f \in stored' /\ file[f].status # "PURGED"
              \/ deletion'[f] # "PENDING" /\ f \notin stored' /\ file[f].status = "PURGED",
           Grows => RequestsFollow
    PROVE  Aside
<1>1. FilesGrow
  BY DEF FilesGrow
<1>2. SamePackages
  BY DEF SamePackages, packageVars, FilesOf
<1>3. FilesTypeOK'
  BY DEF IInv, TypeOK, FilesTypeOK
<1>4. \A f \in Files : FileInv(f)'
  BY DEF IInv, FileInv, InUse
<1>5. CatalogueTypeOK' /\ PostsTypeOK'
  BY DEF IInv, TypeOK, CatalogueTypeOK, PostsTypeOK, catalogueVars, postVars
<1> QED BY <1>1, <1>2, <1>3, <1>4, <1>5, FilesGrows, FilesStep

\* Nobody moves.
LEMMA IdleFollows == ASSUME IInv, Grows, UNCHANGED requestVars PROVE RequestsFollow
BY StillFollows DEF requestVars, IInv, TypeOK, RequestsTypeOK

\* A row is made, or its owner reports an object that is there.
LEMMA UploadingInv ==
    ASSUME IInv, Uploading, UNCHANGED <<packageVars, catalogueVars, postVars>>
    PROVE  Aside
<1>1. ASSUME NEW u \in Users, NEW kind \in Asked.kinds, StartUpload(u, kind) PROVE Aside
  <2>1. PICK f \in Files :
          /\ file[f] = NoFile
          /\ file' = [file EXCEPT ![f] = [status |-> "QUARANTINED", kind |-> kind, owner |-> u,
                                          place |-> {}]]
    BY <1>1 DEF StartUpload
  <2> DEFINE row == [status |-> "QUARANTINED", kind |-> kind, owner |-> u, place |-> {}]
  <2>2. kind \in Kinds
    BY PublishingAssumption DEF Asked, IInv, TypeOK, RequestsTypeOK
  <2>3. row \in FileRow /\ row.status = "QUARANTINED" /\ row.place = {}
    BY <2>2 DEF FileRow
  <2>4. /\ file' = [file EXCEPT ![f] = row]
        /\ file[f].place = {} /\ file[f].kind = "none" /\ file[f].status = "NONE"
    BY <2>1 DEF NoFile
  <2> HIDE DEF row
  <2>5. UNCHANGED <<stored, deletion, due>>
    BY <1>1 DEF StartUpload
  <2>6. deletion[f] # "PENDING" /\ due \subseteq Files
        /\ deletion \in [Files -> {"NONE", "PENDING", "COMPLETED"}]
    BY <2>4, RowType DEF FileInv, IInv, TypeOK, FilesTypeOK
  <2>7. Grows => RequestsFollow
    BY <1>1, AtOnceFollows DEF StartUpload
  <2> QED BY <2>3, <2>4, <2>5, <2>6, <2>7, RowStep
<1>2. ASSUME NEW u \in Users, NEW f \in Files, StartComplete(u, f) PROVE Aside
  <2>1. RequestInv([op |-> "complete", user |-> u, row |-> f, what |-> None, seen |-> {}])
    BY <1>2 DEF RequestInv, StartComplete
  <2> QED BY <1>2, <2>1, EnterStep DEF StartComplete
<1> QED BY <1>1, <1>2 DEF Uploading

\* The object comes to a row that waits for it.
LEMMA PutInv ==
    ASSUME IInv, NEW f \in Files, Put(f),
           UNCHANGED <<packageVars, catalogueVars, postVars>>
    PROVE  Aside
<1>1. Grows => RequestsFollow
  BY IdleFollows DEF Put
<1>2. UNCHANGED <<file, deletion, due>> /\ stored' = stored \cup {f}
      /\ file[f].status = "QUARANTINED"
  BY DEF Put
<1>3. stored \subseteq Files /\ due \subseteq Files
      /\ deletion \in [Files -> {"NONE", "PENDING", "COMPLETED"}]
  BY DEF IInv, TypeOK, FilesTypeOK
<1> QED BY <1>1, <1>2, <1>3, ObjectStep

\* The verdict of the scan: nothing is written to a row that is gone.
LEMMA CompleteUploadInv ==
    ASSUME IInv, NEW r \in InFlight, CompleteUpload(r),
           UNCHANGED <<packageVars, catalogueVars, postVars>>
    PROVE  Aside
<1>1. PICK f \in Files : f = request[r].row
  BY DEF CompleteUpload, IInv, RequestInv
<1>2. f \in stored \/ file[f].status = "PURGED"
  BY <1>1 DEF CompleteUpload, IInv, RequestInv
<1>3. Grows => RequestsFollow
  BY EndFollows DEF CompleteUpload
<1>4. UNCHANGED <<stored, deletion, due>> /\ due \subseteq Files /\ stored \subseteq Files
      /\ deletion \in [Files -> {"NONE", "PENDING", "COMPLETED"}]
  BY DEF CompleteUpload, IInv, TypeOK, FilesTypeOK
<1>5. CASE file' = file
  BY <1>3, <1>4, <1>5, ObjectStep
<1>6. ASSUME NEW verdict \in {"READY", "REJECTED"}, file[f].status # "PURGED",
             file' = [file EXCEPT ![f].status = verdict]
      PROVE  Aside
  <2> DEFINE row == [file[f] EXCEPT !.status = verdict]
  <2>1. /\ row \in FileRow /\ row.status = verdict /\ row.place = file[f].place
        /\ row.kind = file[f].kind
    BY RowType DEF FileRow
  <2>2. file' = [file EXCEPT ![f] = row]
    BY <1>6
  <2> HIDE DEF row
  <2>3. deletion[f] # "PENDING"
    BY <1>6, RowType DEF FileInv
  <2> QED BY ZenonT(60), <1>2, <1>3, <1>4, <1>6, <2>1, <2>2, <2>3, RowStep
<1> QED BY <1>1, <1>5, <1>6 DEF CompleteUpload

\* The clean-up purges rows that nothing uses, and deletes objects of purged rows.
LEMMA CleanUpInv ==
    ASSUME IInv, CleanUp, UNCHANGED <<packageVars, catalogueVars, postVars>>
    PROVE  Aside
<1>1. stored \subseteq Files /\ due \subseteq Files
      /\ deletion \in [Files -> {"NONE", "PENDING", "COMPLETED"}]
  BY DEF IInv, TypeOK, FilesTypeOK
<1>2. ASSUME NEW kinds, ScheduleAbandoned(kinds) PROVE Aside
  <2>1. due' \subseteq Files /\ UNCHANGED <<file, stored, deletion>>
    BY <1>2 DEF ScheduleAbandoned
  <2>2. Grows => RequestsFollow
    BY <1>2, IdleFollows DEF ScheduleAbandoned
  <2> QED BY <1>1, <2>1, <2>2, ObjectStep
<1>3. ASSUME NEW f \in Files, ScheduleDeletion(f) PROVE Aside
  <2>1. due' \subseteq Files /\ UNCHANGED stored
    BY <1>1, <1>3 DEF ScheduleDeletion
  <2>2. Grows => RequestsFollow
    BY <1>3, IdleFollows DEF ScheduleDeletion
  <2>3. CASE UNCHANGED <<file, deletion>>
    BY <1>1, <2>1, <2>2, <2>3, ObjectStep
  <2>4. CASE /\ StillUnused(f)
             /\ file' = [file EXCEPT ![f].status = "PURGED"]
             /\ deletion' = [deletion EXCEPT ![f] = "PENDING"]
    <3> DEFINE row == [file[f] EXCEPT !.status = "PURGED"]
    <3>1. /\ row \in FileRow /\ row.status = "PURGED" /\ row.place = file[f].place
          /\ row.kind = file[f].kind
      BY RowType DEF FileRow
    <3>2. file' = [file EXCEPT ![f] = row]
      BY <2>4
    <3> HIDE DEF row
    <3>3. file[f].place = {}
      BY <2>4 DEF StillUnused, Unused
    <3>4. deletion' \in [Files -> {"NONE", "PENDING", "COMPLETED"}]
          /\ deletion'[f] = "PENDING" /\ \A g \in Files \ {f} : deletion'[g] = deletion[g]
      BY <1>1, <2>4
    <3> QED BY <2>1, <2>2, <3>1, <3>2, <3>3, <3>4, RowStep
  <2> QED BY <1>3, <2>3, <2>4 DEF ScheduleDeletion
<1>4. ASSUME NEW f \in Files, DeleteObject(f) PROVE Aside
  <2>1. /\ stored' = stored \ {f} /\ UNCHANGED <<file, due>>
        /\ deletion' = [deletion EXCEPT ![f] = "COMPLETED"]
        /\ file[f].status = "PURGED"
    BY <1>4, RowType DEF DeleteObject, FileInv
  <2>2. Grows => RequestsFollow
    BY <1>4, IdleFollows DEF DeleteObject
  <2>3. deletion' \in [Files -> {"NONE", "PENDING", "COMPLETED"}]
        /\ deletion'[f] = "COMPLETED" /\ \A g \in Files \ {f} : deletion'[g] = deletion[g]
    BY <1>1, <2>1
  <2> QED BY <1>1, <2>1, <2>2, <2>3, ObjectStep
<1>5. CASE RoundEnds
  <2>1. Grows => RequestsFollow
    BY <1>5, IdleFollows DEF RoundEnds
  <2> QED BY <1>1, <1>5, <2>1, ObjectStep DEF RoundEnds
<1> QED BY <1>2, <1>3, <1>4, <1>5 DEF CleanUp

-----------------------------------------------------------------------------
(* Files that change hands *)

\* What Moved makes of a row.
LEMMA MovedRow ==
    ASSUME IInv, NEW p \in Places, NEW taken, NEW given,
           file' = Moved(p, taken, given), NEW f \in Files
    PROVE  /\ file'[f] \in FileRow
           /\ file'[f].status = file[f].status /\ file'[f].kind = file[f].kind
           /\ file'[f].place = IF f \in given THEN file[f].place \cup {p}
                               ELSE IF f \in taken THEN file[f].place \ {p}
                               ELSE file[f].place
<1>1. file[f] \in FileRow
  BY RowType
<1>2. CASE f \in given
  <2>1. file'[f] = [file[f] EXCEPT !.place = @ \cup {p}]
    BY <1>2 DEF Moved
  <2> QED BY <1>1, <1>2, <2>1 DEF FileRow
<1>3. CASE f \notin given /\ f \in taken
  <2>1. file'[f] = [file[f] EXCEPT !.place = @ \ {p}]
    BY <1>3 DEF Moved
  <2> QED BY <1>1, <1>3, <2>1 DEF FileRow
<1>4. CASE f \notin given /\ f \notin taken
  BY <1>1, <1>4 DEF Moved
<1> QED BY <1>2, <1>3, <1>4

\* Files that come to a place are scanned and free, and those that leave it were there.
LEMMA MovedStep ==
    ASSUME IInv, NEW p \in Places, NEW taken, NEW given \in SUBSET Files,
           file' = Moved(p, taken, given), UNCHANGED <<stored, deletion, due>>,
           \A f \in given : file[f].status = "READY" /\ file[f].place \subseteq {p},
           taken \subseteq FilesOf(p)
    PROVE  /\ FilesGrow /\ FilesTypeOK'
           /\ \A f \in Files : FileInv(f)'
           /\ FilesOf(p)' = (FilesOf(p) \ taken) \cup given
           /\ \A x : x # p => FilesOf(x)' = FilesOf(x)
<1>1. \A f \in Files :
        /\ file'[f] \in FileRow
        /\ file'[f].status = file[f].status /\ file'[f].kind = file[f].kind
        /\ file'[f].place = IF f \in given THEN file[f].place \cup {p}
                            ELSE IF f \in taken THEN file[f].place \ {p}
                            ELSE file[f].place
  BY SMTT(60), MovedRow
<1>2. FilesGrow
  BY <1>1 DEF FilesGrow
<1>3. FilesTypeOK'
  BY ZenonT(60), <1>1 DEF Moved, IInv, TypeOK, FilesTypeOK, FileRow
<1>4. ASSUME NEW f \in Files PROVE FileInv(f)'
  <2>1. FileInv(f)
    BY DEF IInv
  <2>2. CASE f \in given
    <3>1. file'[f].place = {p}
      BY <1>1, <2>2
    <3> QED BY <1>1, <2>1, <2>2, <3>1 DEF FileInv, InUse
  <2>3. CASE f \notin given /\ f \in taken
    <3>1. file'[f].place = {}
      BY <1>1, <2>1, <2>3 DEF FileInv, InUse, FilesOf
    <3> QED BY <1>1, <2>1, <3>1 DEF FileInv, InUse
  <2>4. CASE f \notin given /\ f \notin taken
    BY <1>1, <2>1, <2>4 DEF FileInv, InUse
  <2> QED BY <2>2, <2>3, <2>4
<1>5. FilesOf(p)' = (FilesOf(p) \ taken) \cup given
  BY ZenonT(60), <1>1 DEF FilesOf
<1>6. ASSUME NEW x, x # p PROVE FilesOf(x)' = FilesOf(x)
  <2>1. ASSUME NEW f \in Files PROVE x \in file'[f].place <=> x \in file[f].place
    <3>1. \/ file'[f].place = file[f].place \cup {p}
          \/ file'[f].place = file[f].place \ {p}
          \/ file'[f].place = file[f].place
      BY <1>1
    <3> QED BY <1>6, <3>1
  <2> QED BY <2>1 DEF FilesOf
<1> QED BY <1>2, <1>3, <1>4, <1>5, <1>6

\* A post, a notice or an inquiry takes files: no package is concerned.
LEMMA ElsewhereStep ==
    ASSUME IInv, NEW p \in Posts \cup Notices \cup Inquiries, NEW taken,
           NEW given \in SUBSET Files,
           file' = Moved(p, taken, given), UNCHANGED <<stored, deletion, due>>,
           \A f \in given : file[f].status = "READY" /\ file[f].place \subseteq {p},
           taken \subseteq FilesOf(p),
           UNCHANGED <<packageVars, catalogueVars>>, PostsTypeOK', Grows => RequestsFollow
    PROVE  Aside
<1>1. p \in Places /\ p \notin Packages
  BY PublishingAssumption
<1>2. /\ FilesGrow /\ FilesTypeOK'
      /\ \A f \in Files : FileInv(f)'
      /\ \A x : x # p => FilesOf(x)' = FilesOf(x)
  BY <1>1, MovedStep
<1>3. SamePackages
  BY <1>1, <1>2 DEF SamePackages, packageVars
<1>4. CatalogueTypeOK'
  BY DEF IInv, TypeOK, CatalogueTypeOK, catalogueVars
<1> QED BY <1>2, <1>3, <1>4, FilesGrows, FilesStep

\* The files of a post or of a notice become those given.
LEMMA AttachStep ==
    ASSUME IInv, NEW u, NEW kind, NEW p \in Posts \cup Notices, NEW files \in SUBSET Files,
           Attach(u, kind, p, files),
           UNCHANGED <<packageVars, catalogueVars>>, PostsTypeOK', Grows => RequestsFollow
    PROVE  Aside
BY ElsewhereStep DEF Attach, Attachable

-----------------------------------------------------------------------------
(* Posts, reports, notices and inquiries *)

\* A post row.
PostRow == [status: {"NONE", "PENDING_REVIEW", "PUBLISHED", "REJECTED", "HIDDEN", "ARCHIVED"},
            author: Users \cup {None}, dated: BOOLEAN]

\* A post is written again with its type.
LEMMA PostWritten ==
    ASSUME IInv, NEW p, NEW row \in PostRow, post' = [post EXCEPT ![p] = row],
           UNCHANGED <<report, bulletin, submitted>>
    PROVE  PostsTypeOK'
BY DEF IInv, TypeOK, PostsTypeOK, PostRow

\* A post gets another status.
LEMMA PostStatus ==
    ASSUME IInv, NEW p, NEW s \in {"HIDDEN", "ARCHIVED"}, post' = [post EXCEPT ![p].status = s],
           UNCHANGED <<bulletin, submitted>>,
           report' \in [Posts \X Users -> {"NONE", "OPEN", "RESOLVED", "DISMISSED"}]
    PROVE  PostsTypeOK'
<1>1. post \in [Posts -> PostRow]
  BY DEF IInv, TypeOK, PostsTypeOK, PostRow
<1>2. post' \in [Posts -> PostRow]
  <2>1. CASE p \in Posts
    <3> DEFINE row == [post[p] EXCEPT !.status = s]
    <3>1. row \in PostRow
      BY <1>1, <2>1 DEF PostRow
    <3>2. post' = [post EXCEPT ![p] = row]
      OBVIOUS
    <3> HIDE DEF row
    <3> QED BY <1>1, <3>1, <3>2
  <2>2. CASE p \notin Posts
    BY <1>1, <2>2
  <2> QED BY <2>1, <2>2
<1> QED BY <1>2 DEF IInv, TypeOK, PostsTypeOK, PostRow

\* A user writes a post with its files.
LEMMA CreatePostInv ==
    ASSUME IInv, NEW u \in Users, NEW p \in Posts, NEW files \in SUBSET Files,
           CreatePost(u, p, files)
    PROVE  Aside
<1>1. PICK row \in PostRow : post' = [post EXCEPT ![p] = row]
  <2>1. CASE Moderator(u)
    <3>1. [status |-> "PUBLISHED", author |-> u, dated |-> TRUE] \in PostRow
      BY DEF PostRow
    <3> QED BY <2>1, <3>1 DEF CreatePost
  <2>2. CASE ~Moderator(u)
    <3>1. [status |-> "PENDING_REVIEW", author |-> u, dated |-> FALSE] \in PostRow
      BY DEF PostRow
    <3> QED BY <2>2, <3>1 DEF CreatePost
  <2> QED BY <2>1, <2>2
<1>2. PostsTypeOK'
  BY <1>1, PostWritten DEF CreatePost
<1>3. Grows => RequestsFollow
  BY AtOnceFollows DEF CreatePost
<1> QED BY <1>2, <1>3, AttachStep DEF CreatePost

\* The author or a moderator has read the post.
LEMMA StartPostUpdateInv ==
    ASSUME IInv, NEW u \in Users, NEW p \in Posts, NEW changes \in BOOLEAN,
           NEW files \in SUBSET Files, StartPostUpdate(u, p, changes, files)
    PROVE  Aside
<1> DEFINE what == [changes |-> changes, files |-> files, status |-> post[p].status]
<1>1. post[p].status \in {"PENDING_REVIEW", "PUBLISHED", "REJECTED", "HIDDEN"}
  BY DEF StartPostUpdate, IInv, TypeOK, PostsTypeOK
<1>2. PICK s \in {"PENDING_REVIEW", "PUBLISHED", "REJECTED", "HIDDEN"} : s = post[p].status
  BY <1>1
<1>3. what.files = files /\ what.status = s
  BY <1>2
<1>4. Enter("edit_post", u, p, what, {})
      /\ UNCHANGED <<fileVars, packageVars, catalogueVars, postVars>>
  BY DEF StartPostUpdate, Ask
<1> HIDE DEF what
<1>5. RequestInv([op |-> "edit_post", user |-> u, row |-> p, what |-> what, seen |-> {}])
  BY <1>3 DEF RequestInv
<1> QED BY <1>4, <1>5, EnterStep

\* The post is written by id, with its files or not at all.
LEMMA UpdatePostInv ==
    ASSUME IInv, NEW r \in InFlight, UpdatePost(r)
    PROVE  Aside
<1>1. PICK u, p, input : u = request[r].user /\ p = request[r].row /\ input = request[r].what
  OBVIOUS
<1>2. p \in Posts /\ input.files \subseteq Files
      /\ input.status \in {"PENDING_REVIEW", "PUBLISHED", "REJECTED", "HIDDEN"}
  BY <1>1 DEF UpdatePost, IInv, RequestInv
<1>3. PICK files \in SUBSET Files, status \in {"PENDING_REVIEW", "PUBLISHED", "REJECTED", "HIDDEN"} :
        files = input.files /\ status = input.status
  BY <1>2
<1>4. /\ UNCHANGED <<packageVars, catalogueVars, report, bulletin, submitted>> /\ End(r)
      /\ \/ /\ post' = [post EXCEPT ![p] =
                  IF Moderator(u) THEN [@ EXCEPT !.status = status]
                  ELSE [@ EXCEPT !.status = "PENDING_REVIEW", !.dated = FALSE]]
            /\ Attach(u, "community", p, files) \/ UNCHANGED fileVars
         \/ UNCHANGED <<post, fileVars>>
  BY <1>1, <1>3 DEF UpdatePost
<1>5. Grows => RequestsFollow
  BY <1>4, EndFollows
<1>6. post[p] \in PostRow
  BY <1>2 DEF IInv, TypeOK, PostsTypeOK, PostRow
<1>7. PostsTypeOK'
  <2>1. CASE UNCHANGED post
    BY <1>4, <2>1 DEF IInv, TypeOK, PostsTypeOK
  <2>2. CASE ~UNCHANGED post /\ Moderator(u)
    <3> DEFINE row == [post[p] EXCEPT !.status = status]
    <3>1. row \in PostRow
      BY <1>6 DEF PostRow
    <3>2. post' = [post EXCEPT ![p] = row]
      BY <1>4, <2>2
    <3> QED BY <1>4, <3>1, <3>2, PostWritten
  <2>3. CASE ~UNCHANGED post /\ ~Moderator(u)
    <3> DEFINE row == [post[p] EXCEPT !.status = "PENDING_REVIEW", !.dated = FALSE]
    <3>1. row \in PostRow
      BY <1>6 DEF PostRow
    <3>2. post' = [post EXCEPT ![p] = row]
      BY <1>4, <2>3
    <3> QED BY <1>4, <3>1, <3>2, PostWritten
  <2> QED BY <2>1, <2>2, <2>3
<1>8. CASE Attach(u, "community", p, files)
  BY <1>2, <1>4, <1>5, <1>7, <1>8, AttachStep
<1>9. CASE UNCHANGED fileVars
  <2>1. CatalogueTypeOK' /\ Grows
    BY <1>4, <1>9, StillGrows DEF IInv, TypeOK, CatalogueTypeOK, catalogueVars, fileVars, packageVars
  <2> QED BY <1>4, <1>5, <1>7, <1>9, <2>1, QuietStep
<1> QED BY <1>4, <1>8, <1>9

\* The verdict on a post is written by id.
LEMMA ReviewInv == ASSUME IInv, NEW r \in InFlight, Review(r) PROVE Aside
<1>1. PICK verdict \in {"PUBLISHED", "REJECTED"} : verdict = request[r].what
  BY DEF Review, IInv, RequestInv
<1>2. PICK p : p = request[r].row /\ verdict = request[r].what
  BY <1>1
<1>3. PICK dated \in BOOLEAN : dated = (verdict = "PUBLISHED")
  OBVIOUS
<1>4. post' = [post EXCEPT ![p].status = verdict, ![p].dated = dated]
  BY <1>2, <1>3 DEF Review
<1>5. PostsTypeOK'
  <2> DEFINE row == [post[p] EXCEPT !.status = verdict, !.dated = dated]
  <2>1. post[p] \in PostRow
    BY <1>2 DEF Review, IInv, RequestInv, TypeOK, PostsTypeOK, PostRow
  <2>2. row \in PostRow
    BY <2>1 DEF PostRow
  <2>3. post' = [post EXCEPT ![p] = row]
    BY <1>4
  <2> HIDE DEF row
  <2> QED BY <2>2, <2>3, PostWritten DEF Review
<1>6. CatalogueTypeOK'
  BY DEF Review, IInv, TypeOK, CatalogueTypeOK, catalogueVars
<1> QED BY <1>5, <1>6, EndStep DEF Review

\* So is its archiving.
LEMMA ArchivePostInv == ASSUME IInv, NEW r \in InFlight, ArchivePost(r) PROVE Aside
<1>1. PICK p : p = request[r].row
  OBVIOUS
<1>2. post' = [post EXCEPT ![p].status = "ARCHIVED"]
  BY <1>1 DEF ArchivePost
<1>3. PostsTypeOK'
  BY <1>2, PostStatus DEF ArchivePost, IInv, TypeOK, PostsTypeOK
<1>4. CatalogueTypeOK'
  BY DEF ArchivePost, IInv, TypeOK, CatalogueTypeOK, catalogueVars
<1> QED BY <1>3, <1>4, EndStep DEF ArchivePost

\* A report is made once.
LEMMA SubmitInv == ASSUME IInv, NEW r \in InFlight, Submit(r) PROVE Aside
<1>1. PICK q : q = <<request[r].row, request[r].user>>
  OBVIOUS
<1>2. report' = IF report[q] = "NONE" THEN [report EXCEPT ![q] = "OPEN"] ELSE report
  BY <1>1 DEF Submit
<1>3. PostsTypeOK'
  BY <1>2 DEF Submit, IInv, TypeOK, PostsTypeOK
<1>4. CatalogueTypeOK'
  BY DEF Submit, IInv, TypeOK, CatalogueTypeOK, catalogueVars
<1> QED BY <1>3, <1>4, EndStep DEF Submit

\* A resolution answers the reports of a post and may hide it.
LEMMA ResolveInv == ASSUME IInv, NEW r \in InFlight, Resolve(r) PROVE Aside
<1>1. PICK q, what : q = request[r].row /\ what = request[r].what
  OBVIOUS
<1>2. PICK outcome \in {"RESOLVED", "DISMISSED"} : outcome = Outcome(what)
  BY DEF Outcome
<1>3. CASE UNCHANGED <<post, report>>
  BY <1>3, EndStep
     DEF Resolve, IInv, TypeOK, PostsTypeOK, CatalogueTypeOK, catalogueVars
<1>4. CASE ~UNCHANGED <<post, report>>
  <2>1. /\ report' = [k \in DOMAIN report |->
              IF k = q \/ (what = "hide" /\ k[1] = q[1] /\ report[k] = "OPEN")
              THEN outcome ELSE report[k]]
        /\ post' = IF what = "hide" THEN [post EXCEPT ![q[1]].status = "HIDDEN"] ELSE post
    BY <1>1, <1>2, <1>4 DEF Resolve
  <2>2. report' \in [Posts \X Users -> {"NONE", "OPEN", "RESOLVED", "DISMISSED"}]
    BY <2>1 DEF IInv, TypeOK, PostsTypeOK
  <2>3. PICK p : p = q[1]
    OBVIOUS
  <2>4. CASE what = "hide"
    <3>1. post' = [post EXCEPT ![p].status = "HIDDEN"]
      BY <2>1, <2>3, <2>4
    <3>2. PostsTypeOK'
      BY <2>2, <3>1, PostStatus DEF Resolve
    <3> QED BY <3>2, EndStep DEF Resolve, IInv, TypeOK, CatalogueTypeOK, catalogueVars
  <2>5. CASE what # "hide"
    <3>1. PostsTypeOK'
      BY <2>1, <2>2, <2>5 DEF Resolve, IInv, TypeOK, PostsTypeOK
    <3> QED BY <3>1, EndStep DEF Resolve, IInv, TypeOK, CatalogueTypeOK, catalogueVars
  <2> QED BY <2>4, <2>5
<1> QED BY <1>3, <1>4

\* A notice is published with its files.
LEMMA CreateNoticeInv ==
    ASSUME IInv, NEW u, NEW n \in Notices, NEW files \in SUBSET Files, CreateNotice(u, n, files)
    PROVE  Aside
<1>1. PostsTypeOK'
  BY DEF CreateNotice, IInv, TypeOK, PostsTypeOK
<1>2. Grows => RequestsFollow
  BY AtOnceFollows DEF CreateNotice
<1> QED BY <1>1, <1>2, AttachStep DEF CreateNotice

\* It changes its status, and its files if it is told to.
LEMMA UpdateNoticeInv ==
    ASSUME IInv, NEW u, NEW n \in Notices, NEW status \in {"DRAFT", "PUBLISHED", "ARCHIVED"},
           NEW changes \in BOOLEAN, NEW files \in SUBSET Files,
           UpdateNotice(u, n, status, changes, files)
    PROVE  Aside
<1>1. PostsTypeOK'
  BY DEF UpdateNotice, IInv, TypeOK, PostsTypeOK
<1>2. Grows => RequestsFollow
  BY AtOnceFollows DEF UpdateNotice
<1>3. CASE Attach(u, "community", n, files)
  BY <1>1, <1>2, <1>3, AttachStep DEF UpdateNotice
<1>4. CASE UNCHANGED fileVars
  <2>1. Grows
    BY <1>4, StillGrows DEF UpdateNotice, fileVars, packageVars
  <2> QED BY <1>1, <1>2, <1>4, <2>1, QuietStep
          DEF UpdateNotice, IInv, TypeOK, CatalogueTypeOK, catalogueVars
<1> QED BY <1>3, <1>4 DEF UpdateNotice

\* An inquiry takes its attachment if it is still free.
LEMMA SubmitInquiryInv == ASSUME IInv, NEW r \in InFlight, SubmitInquiry(r) PROVE Aside
<1>1. PICK q \in Inquiries, files \in SUBSET Files : q = request[r].row /\ files = request[r].what
  BY DEF SubmitInquiry, IInv, RequestInv
<1>2. Grows => RequestsFollow
  BY EndFollows DEF SubmitInquiry
<1>3. UNCHANGED <<stored, deletion, due, packageVars, catalogueVars, post, report, bulletin>>
  BY DEF SubmitInquiry
<1>4. CASE /\ \A f \in files : Usable(f)
           /\ submitted' = submitted \cup {q} /\ file' = Moved(q, {}, files)
  <2>1. PostsTypeOK'
    BY <1>3, <1>4 DEF IInv, TypeOK, PostsTypeOK
  <2>2. \A f \in files : file[f].status = "READY" /\ file[f].place \subseteq {q}
    BY <1>4 DEF Usable
  <2> QED BY <1>2, <1>3, <1>4, <2>1, <2>2, ElsewhereStep
<1>5. CASE UNCHANGED <<submitted, file>>
  <2>1. Grows
    BY <1>3, <1>5, StillGrows DEF packageVars
  <2>2. PostsTypeOK' /\ CatalogueTypeOK' /\ UNCHANGED fileVars
    BY <1>3, <1>5 DEF IInv, TypeOK, PostsTypeOK, CatalogueTypeOK, catalogueVars, fileVars
  <2> QED BY <1>2, <1>3, <2>1, <2>2, QuietStep
<1> QED BY <1>1, <1>4, <1>5 DEF SubmitInquiry

\* What users and moderators begin, or do at once.
LEMMA ModeratingInv == ASSUME IInv, Moderating PROVE Aside
<1> USE DEF Ask
<1>1. ASSUME NEW u, NEW p \in Posts, NEW verdict \in {"PUBLISHED", "REJECTED"},
             StartReview(u, p, verdict)
      PROVE  Aside
  <2>1. RequestInv([op |-> "review", user |-> u, row |-> p, what |-> verdict, seen |-> {}])
    BY DEF RequestInv
  <2> QED BY <1>1, <2>1, EnterStep DEF StartReview
<1>2. ASSUME NEW u, NEW p \in Posts, StartPostArchive(u, p) PROVE Aside
  <2>1. RequestInv([op |-> "archive_post", user |-> u, row |-> p, what |-> None, seen |-> {}])
    BY DEF RequestInv
  <2> QED BY <1>2, <2>1, EnterStep DEF StartPostArchive
<1>3. ASSUME NEW u, NEW p \in Posts, StartReport(u, p) PROVE Aside
  <2>1. RequestInv([op |-> "report", user |-> u, row |-> p, what |-> None, seen |-> {}])
    BY DEF RequestInv
  <2> QED BY <1>3, <2>1, EnterStep DEF StartReport
<1>4. ASSUME NEW u, NEW q \in DOMAIN report, NEW action \in {"hide", "dismiss"},
             StartResolution(u, q, action)
      PROVE  Aside
  <2>1. RequestInv([op |-> "resolve", user |-> u, row |-> q, what |-> action, seen |-> {}])
    BY DEF RequestInv
  <2> QED BY <1>4, <2>1, EnterStep DEF StartResolution
<1>5. ASSUME NEW u, NEW q \in Inquiries, NEW files \in SUBSET Files, StartInquiry(u, q, files)
      PROVE  Aside
  <2>1. RequestInv([op |-> "inquiry", user |-> u, row |-> q, what |-> files, seen |-> {}])
    BY DEF RequestInv
  <2> QED BY <1>5, <2>1, EnterStep DEF StartInquiry
<1>6. {{}} \cup {{f} : f \in Files} \subseteq SUBSET Files
  OBVIOUS
<1> QED BY <1>1, <1>2, <1>3, <1>4, <1>5, <1>6, CreatePostInv, StartPostUpdateInv,
           CreateNoticeInv, UpdateNoticeInv DEF Moderating

\* What they finish.
LEMMA PostCommitInv == ASSUME IInv, NEW r \in InFlight, PostCommit(r) PROVE Aside
BY UpdatePostInv, ReviewInv, ArchivePostInv, SubmitInv, ResolveInv, SubmitInquiryInv
   DEF PostCommit

-----------------------------------------------------------------------------
(* Packages *)

\* As many kinds as files means no kind twice.
LEMMA OneKindEach ==
    ASSUME NEW p, NEW fs \in SUBSET Files
    PROVE  FilesFor(p, fs) <=> OneOfEach(p, fs)
<1>1. IsFiniteSet(fs)
  BY FS_Subset, PublishingAssumption
<1>2. PICK ks : ks = KindsOf(fs)
  OBVIOUS
<1>3. PICK kind : kind = [f \in fs |-> file[f].kind]
  OBVIOUS
<1>4. kind \in Surjection(fs, ks)
  BY <1>2, <1>3 DEF KindsOf, Surjection
<1>5. ks \subseteq Needed(p) <=> \A f \in fs : file[f].kind \in Needed(p)
  BY <1>2 DEF KindsOf
<1>6. Cardinality(fs) = Cardinality(ks) => kind \in Injection(fs, ks)
  BY <1>1, <1>4, FS_SurjSameCardinalityImpliesInj
<1>7. kind \in Injection(fs, ks) => Cardinality(fs) = Cardinality(ks)
  <2> SUFFICES ASSUME kind \in Injection(fs, ks) PROVE Cardinality(fs) = Cardinality(ks)
    OBVIOUS
  <2>1. ExistsBijection(fs, ks)
    BY <1>4 DEF ExistsBijection, Bijection
  <2> QED BY <1>1, <2>1, FS_Bijection
<1>8. kind \in Injection(fs, ks) <=> \A f, g \in fs : file[f].kind = file[g].kind => f = g
  BY <1>2, <1>3 DEF Injection, IsInjective, KindsOf
<1> QED BY <1>2, <1>5, <1>6, <1>7, <1>8 DEF FilesFor, OneOfEach

\* An edit is read from a package and a choice of files for it.
LEMMA EditRead ==
    ASSUME IInv, NEW op \in {"update", "restore"}, NEW u, NEW p \in Packages,
           NEW text \in Lessons, NEW files \in SUBSET Files, OneOfEach(p, files),
           package[p] # NoPackage,
           Enter(op, u, p, Edit(p, text, files), FilesOf(p)),
           UNCHANGED <<fileVars, packageVars, catalogueVars, postVars>>
    PROVE  Aside
<1>1. PICK n, was, s, seen :
        n = package[p].revision /\ was = package[p].text /\ s = package[p].status
        /\ seen = FilesOf(p)
  OBVIOUS
<1>2. n \in Nat \ {0} /\ was \in Lessons /\ s \in {"DRAFT", "PUBLISHED", "ARCHIVED"}
      /\ seen \subseteq Files
  <2>1. n \in Nat /\ s \in {"NONE", "DRAFT", "PUBLISHED", "ARCHIVED"}
    BY <1>1 DEF IInv, TypeOK, PackagesTypeOK
  <2>2. n > 0 /\ s # "NONE" /\ was \in Lessons
    BY <1>1 DEF IInv, PackageInv
  <2>3. seen \subseteq Files
    BY <1>1 DEF FilesOf
  <2> QED BY <2>1, <2>2, <2>3
<1> DEFINE what == [text |-> text, files |-> files, status |-> s, revision |-> n, was |-> was]
<1>3. what.text = text /\ what.files = files /\ what.status = s /\ what.revision = n
      /\ what.was = was
  OBVIOUS
<1>4. Enter(op, u, p, what, seen)
  BY <1>1 DEF Edit
<1> HIDE DEF what
<1> DEFINE q == [op |-> op, user |-> u, row |-> p, what |-> what, seen |-> seen]
<1>5. q.op = op /\ q.row = p /\ q.what = what /\ q.seen = seen
  OBVIOUS
<1> HIDE DEF q
<1>6. EditInv(q)
  BY <1>1, <1>2, <1>3, <1>5 DEF EditInv
<1>7. RequestInv(q)
  BY <1>5, <1>6 DEF RequestInv
<1> QED BY <1>4, <1>7, EnterStep DEF q

\* A creation carries one file of each kind.
LEMMA StartCreateInv ==
    ASSUME IInv, NEW u, NEW p \in Packages, NEW text \in Lessons, NEW files \in SUBSET Files,
           NEW status \in {"DRAFT", "PUBLISHED"},
           StartCreate(u, p, text, files, status), UNCHANGED postVars
    PROVE  Aside
<1> DEFINE what == [text |-> text, files |-> files, status |-> status]
           q == [op |-> "create", user |-> u, row |-> p, what |-> what, seen |-> {}]
<1>1. what.text = text /\ what.files = files /\ what.status = status
  OBVIOUS
<1>2. Enter("create", u, p, what, {}) /\ UNCHANGED <<fileVars, packageVars, catalogueVars>>
      /\ OneOfEach(p, files) /\ KindsOf(files) = Needed(p)
  BY OneKindEach DEF StartCreate
<1> HIDE DEF what
<1>3. RequestInv(q)
  BY <1>1, <1>2 DEF RequestInv, CreateInv
<1> QED BY <1>2, <1>3, EnterStep

\* An update brings files the package does not have.
LEMMA StartUpdateInv ==
    ASSUME IInv, NEW u, NEW p \in Packages, NEW text \in Lessons, NEW files \in SUBSET Files,
           StartUpdate(u, p, text, files), UNCHANGED postVars
    PROVE  Aside
<1>1. PICK brought \in SUBSET Files : brought = files \ FilesOf(p)
  OBVIOUS
<1>2. OneOfEach(p, files)
  BY OneKindEach DEF StartUpdate
<1>3. OneOfEach(p, brought)
  BY <1>1, <1>2 DEF OneOfEach
<1>4. Enter("update", u, p, Edit(p, text, brought), FilesOf(p))
  BY <1>1 DEF StartUpdate
<1> QED BY <1>3, <1>4, EditRead DEF StartUpdate

\* A restoration brings those of the revision that the package does not have.
LEMMA StartRestoreInv ==
    ASSUME IInv, NEW u, NEW h \in history, StartRestore(u, h), UNCHANGED postVars
    PROVE  Aside
<1>1. h \in Revisions /\ HistoryInv(h)
  BY DEF IInv, TypeOK, PackagesTypeOK
<1>2. PICK p \in Packages, text \in Lessons : p = h.package /\ text = h.text
  BY <1>1 DEF Revisions
<1>3. PICK brought \in SUBSET Files : brought = h.files \ FilesOf(p)
  BY <1>1 DEF Revisions
<1>4. OneOfEach(p, brought) /\ package[p] # NoPackage
  BY <1>1, <1>2, <1>3 DEF HistoryInv, OneOfEach
<1>5. Enter("restore", u, p, Edit(p, text, brought), FilesOf(p))
  BY <1>2, <1>3 DEF StartRestore
<1> QED BY <1>4, <1>5, EditRead DEF StartRestore

\* A change of status is asked for a package that exists.
LEMMA StartStatusInv ==
    ASSUME IInv, NEW u, NEW p \in Packages, StartPublish(u, p) \/ StartArchive(u, p),
           UNCHANGED postVars
    PROVE  Aside
<1>1. ASSUME NEW what \in {"PUBLISHED", "ARCHIVED"},
             Enter("status", u, p, what, {}), package[p] # NoPackage,
             UNCHANGED <<fileVars, packageVars, catalogueVars>>
      PROVE  Aside
  <2>1. RequestInv([op |-> "status", user |-> u, row |-> p, what |-> what, seen |-> {}])
    BY <1>1 DEF RequestInv
  <2> QED BY <1>1, <2>1, EnterStep
<1> QED BY <1>1 DEF StartPublish, StartArchive

\* Operators begin to make, edit, restore, publish and archive.
LEMMA EditingInv == ASSUME IInv, Editing, UNCHANGED postVars PROVE Aside
BY StartCreateInv, StartUpdateInv, StartRestoreInv, StartStatusInv DEF Editing

-----------------------------------------------------------------------------
(* Packages change *)

\* A package row.
PackageRow == [status: {"NONE", "DRAFT", "PUBLISHED", "ARCHIVED"},
               revision: Nat, text: Lessons \cup {None}]

\* A package changes only by its next revision, and the history gains what it was.
Faithful(p) ==
    package[p] # NoPackage =>
    LET new == {h \in history' : h.package = p} \ history IN
    IF Contents(p)' = Contents(p) /\ package'[p].revision = package[p].revision THEN new = {}
    ELSE /\ package'[p].revision = package[p].revision + 1
         /\ Cardinality(new) = 1
         /\ \A h \in new : Kept(h) = Contents(p) /\ h.revision = package[p].revision

\* Packages that stay are faithful to their history.
LEMMA StayFaithful ==
    ASSUME IInv, NEW p \in Packages, UNCHANGED history, FilesOf(p)' = FilesOf(p),
           package[p] # NoPackage => /\ package'[p].text = package[p].text
                                     /\ package'[p].revision = package[p].revision
    PROVE  Faithful(p)
BY DEF Faithful, Contents

\* What a package step has to establish.
LEMMA PackageStep ==
    ASSUME IInv, Grows, FilesTypeOK', PackagesTypeOK', UNCHANGED <<catalogueVars, postVars>>,
           \A f \in Files : FileInv(f)', \A p \in Packages : PackageInv(p)',
           \A h \in history' : h \in history \/ HistoryInv(h)',
           NEW r \in InFlight, End(r)
    PROVE  IInv'
<1>1. CatalogueTypeOK' /\ PostsTypeOK'
  BY DEF IInv, TypeOK, CatalogueTypeOK, PostsTypeOK, catalogueVars, postVars
<1>2. RequestsFollow
  BY EndFollows
<1>3. \A h \in history' : HistoryInv(h)'
  BY HistoryGrows
<1> QED BY <1>1, <1>2, <1>3 DEF IInv, TypeOK, RequestsFollow

\* A package whose row and files stay keeps its invariant.
LEMMA PackageStays ==
    ASSUME IInv, FilesGrow, NEW p \in Packages, FilesOf(p)' = FilesOf(p),
           package'[p] = package[p]
    PROVE  PackageInv(p)' /\ PackageGrows(p)
<1>1. PICK fs \in SUBSET Files : fs = FilesOf(p)
  BY DEF FilesOf
<1>2. OneOfEach(p, fs) => OneOfEach(p, fs)' /\ KindsOf(fs)' = KindsOf(fs)
  BY KindsGrow
<1>3. PackageInv(p)
  BY DEF IInv
<1>4. PackageInv(p)'
  BY <1>1, <1>2, <1>3 DEF PackageInv, OneOfEach, KindsOf, NoPackage, Needed
<1>5. PackageGrows(p)
  BY DEF PackageGrows, IInv, TypeOK, PackagesTypeOK
<1> QED BY <1>4, <1>5

\* A package is made with one file of each kind, or not at all.
LEMMA CreateInvariant ==
    ASSUME IInv, NEW r \in InFlight, Create(r), UNCHANGED postVars
    PROVE  IInv' /\ \A p \in Packages : Faithful(p)
<1>1. PICK q : q = request[r]
  OBVIOUS
<1>2. CreateInv(q) /\ End(r) /\ UNCHANGED <<stored, deletion, due, history, catalogueVars>>
  BY <1>1 DEF Create, IInv, RequestInv
<1>3. PICK p \in Packages, files \in SUBSET Files, text \in Lessons, s \in {"DRAFT", "PUBLISHED"} :
        p = q.row /\ files = q.what.files /\ text = q.what.text /\ s = q.what.status
  BY <1>2 DEF CreateInv
<1>4. OneOfEach(p, files) /\ KindsOf(files) = Needed(p)
  BY <1>2, <1>3 DEF CreateInv
<1>5. CASE UNCHANGED <<package, file>>
  <2>1. UNCHANGED <<fileVars, packageVars>> /\ Grows /\ SamePackages
    BY <1>2, <1>5, StillGrows DEF fileVars, packageVars
  <2>2. CatalogueTypeOK' /\ PostsTypeOK'
    BY <1>2 DEF IInv, TypeOK, CatalogueTypeOK, PostsTypeOK, catalogueVars, postVars
  <2>3. IInv'
    BY <1>2, <2>1, <2>2, EndStep DEF Aside
  <2> QED BY <2>1, <2>3, StayFaithful DEF SamePackages
<1>6. CASE /\ package[p] = NoPackage /\ \A f \in files : Usable(f)
           /\ package' = [package EXCEPT ![p] = [status |-> s, revision |-> 1, text |-> text]]
           /\ file' = Moved(p, {}, files)
  <2> DEFINE row == [status |-> s, revision |-> 1, text |-> text]
  <2>1. row \in PackageRow /\ row.status # "NONE" /\ row.revision = 1 /\ row.text = text
    BY DEF PackageRow
  <2>2. package' = [package EXCEPT ![p] = row] /\ package \in [Packages -> PackageRow]
    BY <1>6 DEF IInv, TypeOK, PackagesTypeOK, PackageRow
  <2> HIDE DEF row
  <2>3. \A x \in Packages : package'[x] = IF x = p THEN row ELSE package[x]
    BY <2>2
  <2>4. p \in Places
    BY PublishingAssumption
  <2>5. \A f \in files : file[f].status = "READY" /\ file[f].place \subseteq {p}
    BY <1>6 DEF Usable
  <2>6. /\ FilesGrow /\ FilesTypeOK'
        /\ \A f \in Files : FileInv(f)'
        /\ FilesOf(p)' = FilesOf(p) \cup files
        /\ \A x : x # p => FilesOf(x)' = FilesOf(x)
    BY <1>2, <1>6, <2>4, <2>5, MovedStep
  <2>7. FilesOf(p)' = files
    BY <1>6, <2>6 DEF IInv, PackageInv
  <2>8. OneOfEach(p, files)' /\ KindsOf(files)' = Needed(p)
    BY <1>4, <2>6, KindsGrow
  <2>9. PackageInv(p)'
    BY <2>1, <2>3, <2>7, <2>8 DEF PackageInv, OneOfEach, KindsOf, NoPackage, Needed
  <2>10. \A x \in Packages \ {p} : PackageInv(x)' /\ PackageGrows(x)
    BY <2>3, <2>6, PackageStays
  <2>11. PackageGrows(p)
    BY <1>6 DEF PackageGrows
  <2>12. Grows
    BY <2>6, <2>10, <2>11 DEF Grows
  <2>13. PackagesTypeOK'
    BY <1>2, <2>1, <2>2 DEF IInv, TypeOK, PackagesTypeOK, PackageRow
  <2>14. IInv'
    BY <1>2, <2>6, <2>9, <2>10, <2>12, <2>13, PackageStep
  <2>15. \A x \in Packages \ {p} : Faithful(x)
    BY <1>2, <2>3, <2>6, StayFaithful
  <2>16. Faithful(p)
    BY <1>6 DEF Faithful
  <2> QED BY <2>14, <2>15, <2>16
<1> QED BY <1>1, <1>3, <1>5, <1>6 DEF Create

\* A change of status is no revision.
LEMMA ChangeStatusInvariant ==
    ASSUME IInv, NEW r \in InFlight, ChangeStatus(r), UNCHANGED postVars
    PROVE  IInv' /\ \A p \in Packages : Faithful(p)
<1>1. PICK p \in Packages, s \in {"PUBLISHED", "ARCHIVED"} :
        p = request[r].row /\ s = request[r].what
  BY DEF ChangeStatus, IInv, RequestInv
<1>2. package[p] # NoPackage
  BY <1>1 DEF ChangeStatus, IInv, RequestInv
<1> DEFINE row == [package[p] EXCEPT !.status = s]
<1>3. package \in [Packages -> PackageRow]
  BY DEF IInv, TypeOK, PackagesTypeOK, PackageRow
<1>4. /\ row \in PackageRow /\ row.status = s /\ row.text = package[p].text
      /\ row.revision = package[p].revision
  BY <1>3 DEF PackageRow
<1>5. package' = [package EXCEPT ![p] = row]
  BY <1>1 DEF ChangeStatus
<1> HIDE DEF row
<1>6. UNCHANGED <<fileVars, history, catalogueVars>> /\ End(r)
  BY DEF ChangeStatus
<1>7. \A x \in Packages : package'[x] = IF x = p THEN row ELSE package[x]
  BY <1>3, <1>5
<1>8. FilesGrow /\ \A x : FilesOf(x)' = FilesOf(x)
  BY <1>6 DEF FilesGrow, FilesOf, fileVars
<1>9. \A x \in Packages \ {p} : PackageInv(x)' /\ PackageGrows(x)
  BY <1>7, <1>8, PackageStays
<1>10. PackageInv(p)' /\ PackageGrows(p)
  <2>1. PackageInv(p)
    BY DEF IInv
  <2>2. file' = file
    BY <1>6 DEF fileVars
  <2>3. package'[p] # NoPackage
    BY <1>4, <1>7 DEF NoPackage
  <2>4. package'[p].revision = package[p].revision /\ package'[p].text = package[p].text
        /\ package'[p].status = s /\ package[p].revision \in Nat
    BY <1>3, <1>4, <1>7 DEF PackageRow
  <2>5. PackageInv(p)'
    BY <1>2, <1>8, <2>1, <2>2, <2>3, <2>4 DEF PackageInv, OneOfEach, KindsOf, Needed
  <2>6. PackageGrows(p)
    BY <1>8, <2>3, <2>4 DEF PackageGrows
  <2> QED BY <2>5, <2>6
<1>11. Grows
  BY <1>8, <1>9, <1>10 DEF Grows
<1>12. PackagesTypeOK' /\ FilesTypeOK'
  BY <1>3, <1>4, <1>5, <1>6
     DEF IInv, TypeOK, PackagesTypeOK, PackageRow, FilesTypeOK, fileVars
<1>13. \A f \in Files : FileInv(f)'
  BY <1>6 DEF IInv, FileInv, InUse, fileVars
<1>14. IInv'
  BY <1>6, <1>9, <1>10, <1>11, <1>12, <1>13, PackageStep
<1>15. \A x \in Packages : Faithful(x)
  BY <1>4, <1>6, <1>7, <1>8, StayFaithful
<1> QED BY <1>14, <1>15

\* What is left of the files of a package, and those that take their place.
LEMMA ReplacedFiles ==
    ASSUME NEW p, NEW old \in SUBSET Files, NEW brought \in SUBSET Files,
           OneOfEach(p, old), KindsOf(old) = Needed(p), OneOfEach(p, brought),
           NEW taken, taken = {f \in old : file[f].kind \in KindsOf(brought)}
    PROVE  /\ OneOfEach(p, (old \ taken) \cup brought)
           /\ KindsOf((old \ taken) \cup brought) = Needed(p)
<1>1. PICK fs : fs = (old \ taken) \cup brought
  OBVIOUS
<1>2. \A f \in old \ taken : \A g \in brought : file[f].kind # file[g].kind
  BY DEF KindsOf
<1>3. OneOfEach(p, fs)
  BY <1>1, <1>2 DEF OneOfEach
<1>4. ASSUME NEW k \in Needed(p) PROVE \E f \in fs : file[f].kind = k
  <2>1. PICK f \in old : file[f].kind = k
    BY DEF KindsOf
  <2>2. CASE f \in taken
    BY <1>1, <2>1, <2>2 DEF KindsOf
  <2>3. CASE f \notin taken
    BY <1>1, <2>1, <2>3
  <2> QED BY <2>2, <2>3
<1>5. KindsOf(fs) = Needed(p)
  BY <1>3, <1>4 DEF KindsOf, OneOfEach
<1> QED BY <1>1, <1>3, <1>5

\* An edit or a restoration: the next revision, from what the request read.
LEMMA ReplaceInvariant ==
    ASSUME IInv, NEW r \in InFlight, Replace(r), UNCHANGED postVars
    PROVE  IInv' /\ \A p \in Packages : Faithful(p)
<1>1. PICK q : q = request[r]
  OBVIOUS
<1>2. EditInv(q) /\ End(r) /\ UNCHANGED <<stored, deletion, due, catalogueVars>>
  BY <1>1 DEF Replace, IInv, RequestInv
<1>3. PICK p \in Packages, brought \in SUBSET Files, text \in Lessons, was \in Lessons,
           s \in {"DRAFT", "PUBLISHED", "ARCHIVED"}, n \in Nat \ {0}, seen \in SUBSET Files :
        /\ p = q.row /\ brought = q.what.files /\ text = q.what.text /\ was = q.what.was
        /\ s = q.what.status /\ n = q.what.revision /\ seen = q.seen
  BY <1>2 DEF EditInv
<1>4. /\ package[p] # NoPackage /\ OneOfEach(p, brought)
      /\ n = package[p].revision => was = package[p].text /\ seen = FilesOf(p)
  BY <1>2, <1>3 DEF EditInv
<1> DEFINE before == [package |-> p, revision |-> n, text |-> was, files |-> seen, status |-> s]
           taken == {f \in seen : file[f].kind \in KindsOf(brought)}
<1>5. CASE UNCHANGED <<package, history, file>>
  <2>1. UNCHANGED <<fileVars, packageVars>> /\ Grows /\ SamePackages
    BY <1>2, <1>5, StillGrows DEF fileVars, packageVars
  <2>2. CatalogueTypeOK' /\ PostsTypeOK'
    BY <1>2 DEF IInv, TypeOK, CatalogueTypeOK, PostsTypeOK, catalogueVars, postVars
  <2>3. IInv'
    BY <1>2, <2>1, <2>2, EndStep DEF Aside
  <2> QED BY <1>5, <2>1, <2>3, StayFaithful DEF SamePackages
<1>6. CASE /\ package[p].revision = n
           /\ \A f \in brought : Usable(f)
           /\ package' = [package EXCEPT ![p].text = text, ![p].revision = n + 1]
           /\ history' = history \cup {before}
           /\ file' = Moved(p, taken, brought)
  <2>1. was = package[p].text /\ seen = FilesOf(p)
    BY <1>4, <1>6
  <2>0. PICK m \in Nat : m = n + 1
    OBVIOUS
  <2> DEFINE row == [package[p] EXCEPT !.text = text, !.revision = m]
  <2>2. package \in [Packages -> PackageRow]
    BY DEF IInv, TypeOK, PackagesTypeOK, PackageRow
  <2>3. /\ row \in PackageRow /\ row.text = text /\ row.revision = m
        /\ row.status = package[p].status
    BY <2>2 DEF PackageRow
  <2>4. package' = [package EXCEPT ![p] = row]
    BY <1>6, <2>0
  <2> HIDE DEF row
  <2>5. \A x \in Packages : package'[x] = IF x = p THEN row ELSE package[x]
    BY <2>2, <2>4
  <2>6. PackageInv(p)
    BY DEF IInv
  <2>7. before \in Revisions /\ before.package = p /\ before.revision = n
        /\ before.text = was /\ before.files = seen
    BY DEF Revisions
  <2>8. taken \subseteq FilesOf(p)
    BY <2>1
  <2>9. PICK gone : gone = taken
    OBVIOUS
  <2>10. PICK h0 : h0 = before
    OBVIOUS
  <2>11. history' = history \cup {h0} /\ file' = Moved(p, gone, brought)
    BY <1>6, <2>9, <2>10
  <2>12. gone \subseteq FilesOf(p) /\ gone = {f \in seen : file[f].kind \in KindsOf(brought)}
    BY <2>8, <2>9
  <2>13. h0 \in Revisions /\ h0.package = p /\ h0.revision = n /\ h0.text = was
         /\ h0.files = seen
    BY <2>7, <2>10
  <2> HIDE DEF before, taken
  <2>14. /\ FilesGrow /\ FilesTypeOK'
         /\ \A f \in Files : FileInv(f)'
         /\ FilesOf(p)' = (FilesOf(p) \ gone) \cup brought
         /\ \A x : x # p => FilesOf(x)' = FilesOf(x)
    <3>1. p \in Places
      BY PublishingAssumption
    <3>2. \A f \in brought : file[f].status = "READY" /\ file[f].place \subseteq {p}
      BY <1>6 DEF Usable
    <3> QED BY <1>2, <2>11, <2>12, <3>1, <3>2, MovedStep
  <2>15. PICK now \in SUBSET Files : now = (FilesOf(p) \ gone) \cup brought
    BY DEF FilesOf
  <2>16. OneOfEach(p, now) /\ KindsOf(now) = Needed(p)
    <3>1. OneOfEach(p, seen) /\ KindsOf(seen) = Needed(p)
      BY <1>4, <2>1, <2>6 DEF PackageInv
    <3>2. OneOfEach(p, (seen \ gone) \cup brought) /\ KindsOf((seen \ gone) \cup brought) = Needed(p)
      BY SMTT(60), <1>4, <2>12, <3>1, ReplacedFiles
    <3> QED BY <2>1, <2>15, <3>2
  <2>17. OneOfEach(p, now)' /\ KindsOf(now)' = Needed(p) /\ FilesOf(p)' = now
    BY <2>14, <2>15, <2>16, KindsGrow
  <2>18. package[p].status # "NONE"
    BY <1>4, <2>6 DEF PackageInv
  <2>19. /\ package'[p].status # "NONE" /\ package'[p].text = text
         /\ package'[p].revision = n + 1 /\ package'[p] # NoPackage
    BY <2>0, <2>3, <2>5, <2>18 DEF NoPackage
  <2>20. PackageInv(p)'
    BY <2>17, <2>19 DEF PackageInv, OneOfEach, KindsOf, Needed
  <2>21. PackageGrows(p)
    BY <1>6, <2>19 DEF PackageGrows
  <2>22. \A x \in Packages \ {p} : PackageInv(x)' /\ PackageGrows(x)
    BY <2>5, <2>14, PackageStays
  <2>23. Grows
    BY <2>14, <2>21, <2>22 DEF Grows
  <2>24. PackagesTypeOK'
    <3>1. package' \in [Packages -> PackageRow]
      BY <2>2, <2>3, <2>4
    <3>2. history' \subseteq Revisions
      BY <2>11, <2>13 DEF IInv, TypeOK, PackagesTypeOK
    <3> QED BY <3>1, <3>2 DEF PackagesTypeOK, PackageRow
  <2>25. HistoryInv(h0)'
    <3>1. OneOfEach(p, seen)
      BY <1>4, <2>1, <2>6 DEF PackageInv
    <3>2. OneOfEach(p, seen)'
      BY <2>14, <3>1, KindsGrow
    <3> QED BY <2>13, <2>19, <3>2 DEF HistoryInv, OneOfEach
  <2>26. IInv'
    BY <1>2, <2>11, <2>14, <2>20, <2>22, <2>23, <2>24, <2>25, PackageStep
  <2>27. ASSUME NEW x \in Packages, x # p PROVE Faithful(x)
    <3>1. {h \in history' : h.package = x} \ history = {}
      BY <2>11, <2>13, <2>27
    <3>2. Contents(x)' = Contents(x) /\ package'[x].revision = package[x].revision
      BY <2>5, <2>14, <2>27 DEF Contents
    <3> QED BY <3>1, <3>2 DEF Faithful
  <2>28. Faithful(p)
    <3>1. h0 \notin history
      BY <1>6, <2>13 DEF IInv, HistoryInv, TypeOK, PackagesTypeOK, PackageRow
    <3>2. {h \in history' : h.package = p} \ history = {h0}
      BY <2>11, <2>13, <3>1
    <3>3. Cardinality({h0}) = 1
      BY FS_Singleton
    <3>4. Kept(h0) = Contents(p)
      BY <2>1, <2>13 DEF Kept, Contents
    <3>5. package'[p].revision = package[p].revision + 1 /\ h0.revision = package[p].revision
          /\ package'[p].revision # package[p].revision
      BY <1>6, <2>13, <2>19
    <3> QED BY <3>2, <3>3, <3>4, <3>5 DEF Faithful
  <2> QED BY <2>26, <2>27, <2>28
<1> QED
  <2>1. before = [package |-> request[r].row, revision |-> request[r].what.revision,
                  text |-> request[r].what.was, files |-> request[r].seen,
                  status |-> request[r].what.status]
    BY <1>1, <1>3
  <2>2. taken = {f \in request[r].seen : file[f].kind \in KindsOf(request[r].what.files)}
    BY <1>1, <1>3
  <2> HIDE DEF before, taken
  <2> QED BY <1>1, <1>3, <1>5, <1>6, <2>1, <2>2 DEF Replace, NextRevision

-----------------------------------------------------------------------------
(* The invariant *)

\* A scenario begins with scanned files that nothing uses, and with no package.
LEMMA InitInv == Init => IInv
<1> SUFFICES ASSUME Init PROVE IInv
  OBVIOUS
<1> USE DEF Init, RequestsInit, FilesInit, CatalogueInit, PackagesInit, PostsInit
<1>1. /\ Asked.requests \in Nat /\ DOMAIN Asked.files \subseteq Files
      /\ \A f \in DOMAIN Asked.files :
            Asked.files[f] \in [status: {"READY"}, kind: Kinds, owner: Users, place: {{}}]
  BY PublishingAssumption DEF Asked
<1>2. NoFile \in FileRow /\ NoFile.place = {} /\ NoFile.status = "NONE"
  BY DEF NoFile, FileRow
<1>3. ASSUME NEW f \in Files
      PROVE  /\ file[f] \in FileRow /\ file[f].place = {} /\ file[f].status \in {"NONE", "READY"}
             /\ file[f].status = "READY" => f \in stored
  <2>1. CASE f \in DOMAIN Asked.files
    <3>1. PICK row \in [status: {"READY"}, kind: Kinds, owner: Users, place: {{}}] :
            row = Asked.files[f]
      BY <1>1, <2>1
    <3> DEFINE ready == [row EXCEPT !.status = "READY"]
    <3>2. ready \in FileRow /\ ready.place = {} /\ ready.status = "READY"
      BY DEF FileRow
    <3>3. file[f] = ready
      BY <2>1, <3>1
    <3> HIDE DEF ready
    <3> QED BY <2>1, <3>2, <3>3
  <2>2. CASE f \notin DOMAIN Asked.files
    BY <1>2, <2>2
  <2> QED BY <2>1, <2>2
<1>4. FilesTypeOK
  BY ZenonT(60), <1>1, <1>3 DEF FilesTypeOK, FileRow
<1>5. \A f \in Files : FileInv(f)
  BY <1>3 DEF FileInv, InUse
<1>6. CatalogueTypeOK
  BY DEF CatalogueTypeOK, NoLesson, NoMission
<1>7. NoPackage \in PackageRow
  BY DEF NoPackage, PackageRow
<1>8. PackagesTypeOK
  BY <1>7 DEF PackagesTypeOK, PackageRow
<1>9. \A p \in Packages : PackageInv(p)
  BY <1>3 DEF PackageInv, FilesOf
<1>10. PostsTypeOK
  BY DEF PostsTypeOK, NoPost
<1>11. RequestsTypeOK
  BY <1>1 DEF RequestsTypeOK
<1>12. \A r \in InFlight : RequestInv(request[r])
  BY DEF NoRequest, RequestInv
<1> QED BY <1>4, <1>5, <1>6, <1>8, <1>9, <1>10, <1>11, <1>12 DEF IInv, TypeOK

\* Nothing happens.
LEMMA StutterInv == ASSUME IInv, UNCHANGED vars PROVE Aside
<1>1. UNCHANGED <<fileVars, packageVars, catalogueVars, postVars, requestVars>>
  BY DEF vars
<1>2. CatalogueTypeOK' /\ PostsTypeOK'
  BY <1>1 DEF IInv, TypeOK, CatalogueTypeOK, PostsTypeOK, catalogueVars, postVars
<1>3. Grows
  BY <1>1, StillGrows DEF fileVars, packageVars
<1> QED BY <1>1, <1>2, <1>3, IdleFollows, QuietStep

\* Every package is faithful to its history where none changes.
LEMMA SameFaithful == ASSUME IInv, SamePackages PROVE \A p \in Packages : Faithful(p)
BY StayFaithful DEF SamePackages

\* Only the packages' own steps concern them.
PackageCommits == \E r \in InFlight : PackageCommit(r) /\ UNCHANGED postVars

\* They keep the invariant and the history.
LEMMA PackageCommitInv ==
    ASSUME IInv, PackageCommits
    PROVE  IInv' /\ \A p \in Packages : Faithful(p)
BY CreateInvariant, ReplaceInvariant, ChangeStatusInvariant DEF PackageCommits, PackageCommit

\* A step of a package, or a step aside.
LEMMA NextStep == ASSUME IInv, [Next]_vars PROVE Aside \/ PackageCommits
BY StutterInv, UploadingInv, CataloguingInv, EditingInv, ModeratingInv, PutInv,
   CompleteUploadInv, PostCommitInv, CleanUpInv, ChangeLessonStatusInv,
   ChangeMissionStatusInv, ScheduledTimeComesInv
   DEF Next, PackageCommits

\* Every step keeps the invariant and is faithful to the history.
LEMMA NextInv == ASSUME IInv, [Next]_vars PROVE IInv' /\ \A p \in Packages : Faithful(p)
<1>1. CASE Aside
  BY <1>1, SameFaithful DEF Aside
<1>2. CASE PackageCommits
  BY <1>2, PackageCommitInv
<1> QED BY <1>1, <1>2, NextStep

\* The inductive invariant holds, and every step is faithful to the history.
THEOREM Invariant == Spec => []IInv /\ [][\A p \in Packages : Faithful(p)]_vars
<1>1. Init => IInv
  BY InitInv
<1>2. IInv /\ [Next]_vars => IInv'
  BY NextInv
<1>3. IInv /\ [Next]_vars => [\A p \in Packages : Faithful(p)]_vars
  BY NextInv
<1> QED BY <1>1, <1>2, <1>3, PTL DEF Spec

-----------------------------------------------------------------------------
(* The properties *)

\* Every row keeps its type, however the requests of all services overlap.
THEOREM PublishingTypes == Spec => []TypeOK
<1>1. IInv => TypeOK
  BY DEF IInv
<1> QED BY <1>1, Invariant, PTL

\* A file something uses keeps its row and its object and belongs to one thing, a package
\* keeps one file of each kind, and no object outlives its row but for its deletion job.
THEOREM PublishingFiles == Spec => []FilesAreKept
<1>1. ASSUME IInv PROVE FilesAreKept
  <2>1. ASSUME NEW f \in Files, InUse(f)
        PROVE  file[f].status # "PURGED" /\ f \in stored /\ Cardinality(file[f].place) = 1
    <3>1. file[f].status # "PURGED" /\ f \in stored
      BY <1>1, <2>1 DEF IInv, FileInv
    <3>2. PICK x : file[f].place = {x}
      BY <1>1, <2>1 DEF IInv, FileInv
    <3>3. Cardinality({x}) = 1
      BY FS_Singleton
    <3> QED BY <3>1, <3>2, <3>3
  <2>2. ASSUME NEW p \in Packages, package[p] # NoPackage
        PROVE  FilesFor(p, FilesOf(p)) /\ KindsOf(FilesOf(p)) = Needed(p)
    <3>1. OneOfEach(p, FilesOf(p)) /\ KindsOf(FilesOf(p)) = Needed(p)
      BY <1>1, <2>2 DEF IInv, PackageInv
    <3>2. FilesOf(p) \in SUBSET Files
      BY DEF FilesOf
    <3>3. PICK fs \in SUBSET Files : fs = FilesOf(p)
      BY <3>2
    <3> QED BY <3>1, <3>3, OneKindEach
  <2>3. \A f \in stored : file[f].status = "PURGED" => deletion[f] = "PENDING"
    BY <1>1 DEF IInv, FileInv, TypeOK, FilesTypeOK
  <2> QED BY <2>1, <2>2, <2>3 DEF FilesAreKept
<1> QED BY <1>1, Invariant, PTL

\* A package never changes but by its next revision, and the history gains exactly what
\* it was.
THEOREM PublishingHistory == Spec => HistoryIsFaithful
<1>1. [\A p \in Packages : Faithful(p)]_vars =>
      [\A p \in Packages : package[p] # NoPackage =>
        LET new == {h \in history' : h.package = p} \ history IN
        IF Contents(p)' = Contents(p) /\ package'[p].revision = package[p].revision THEN new = {}
        ELSE /\ package'[p].revision = package[p].revision + 1
             /\ Cardinality(new) = 1
             /\ \A h \in new : Kept(h) = Contents(p) /\ h.revision = package[p].revision]_vars
  BY DEF Faithful
<1> QED BY <1>1, Invariant, PTL DEF HistoryIsFaithful

=============================================================================
