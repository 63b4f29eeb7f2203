------------------------------- MODULE Packages -------------------------------
(****************************************************************************)
(* material.service.ts and class-helper.service.ts: an operator makes a     *)
(* teaching material (one file) or a class package (a lesson, a mission and *)
(* one file of each kind), edits it, restores an earlier revision of it,    *)
(* publishes and archives it.  An edit is refused unless the revision is    *)
(* still the one it read, and keeps what it replaces in the history; the    *)
(* files it replaces are put aside, and are restored with their revision    *)
(* for as long as the clean-up leaves them.                                 *)
(*                                                                          *)
(* text stands for the columns a revision carries: the lesson, and with it  *)
(* the mission, decides which edits are allowed.                            *)
(****************************************************************************)
EXTENDS ManagedFiles, Catalogue

CONSTANTS
    Materials, Helpers    \* TeachingMaterial and ClassHelper rows

VARIABLES
    package,   \* status, revision and text
    history    \* TeachingMaterialRevision and ClassHelperRevision rows

packageVars == <<package, history>>

Packages == Materials \cup Helpers
Operators == {u \in Users : u \in Asked.operators}
NoPackage == [status |-> "NONE", revision |-> 0, text |-> None]
Revisions == [package: Packages, revision: Nat \ {0}, text: Lessons, files: SUBSET Files,
              status: {"DRAFT", "PUBLISHED", "ARCHIVED"}]

PackagesTypeOK ==
    /\ package \in [Packages -> [status: {"NONE", "DRAFT", "PUBLISHED", "ARCHIVED"},
                                 revision: Nat, text: Lessons \cup {None}]]
    /\ history \subseteq Revisions

PackagesInit ==
    /\ package = [p \in Packages |-> NoPackage]
    /\ history = {}

Needed(p) == IF p \in Materials THEN {"material"} ELSE {"plan", "slides"}
KindsOf(fs) == {file[f].kind : f \in fs}

\* One file of each kind, no kind twice.
FilesFor(p, fs) == KindsOf(fs) \subseteq Needed(p) /\ Cardinality(fs) = Cardinality(KindsOf(fs))

\* A material needs a lesson, a class package one that is public with a video and has a
\* public mission.
Teachable(p, text) ==
    /\ lesson[text] # NoLesson
    /\ p \in Helpers => /\ lesson[text] = [status |-> "PUBLISHED", film |-> TRUE]
                        /\ MissionIsPublic(text)

StartCreate(u, p, text, files, status) ==
    /\ package[p] = NoPackage /\ Teachable(p, text)
    /\ FilesFor(p, files) /\ KindsOf(files) = Needed(p)
    /\ Enter("create", u, p, [text |-> text, files |-> files, status |-> status], {})
    /\ UNCHANGED <<fileVars, packageVars, catalogueVars>>

\* The files must still be the operator's, scanned and unused.
Create(r) == LET p == request[r].row  input == request[r].what IN
    /\ request[r].op = "create"
    /\ IF /\ package[p] = NoPackage /\ Own(request[r].user, input.files)
          /\ \A f \in input.files : Usable(f)
       THEN /\ package' = [package EXCEPT ![p] = [status |-> input.status, revision |-> 1,
                                                  text |-> input.text]]
            /\ file' = Moved(p, {}, input.files)
       ELSE UNCHANGED <<package, file>>
    /\ End(r)
    /\ UNCHANGED <<stored, deletion, due, history, catalogueVars>>

Edit(p, text, files) ==
    [text |-> text, files |-> files, status |-> package[p].status,
     revision |-> package[p].revision, was |-> package[p].text]

\* update: the row and its files are read before the transaction.
StartUpdate(u, p, text, files) ==
    /\ package[p] # NoPackage /\ Teachable(p, text) /\ FilesFor(p, files)
    /\ p \in Helpers => files \cap FilesOf(p) = {}
    /\ Enter("update", u, p, Edit(p, text, files \ FilesOf(p)), FilesOf(p))
    /\ UNCHANGED <<fileVars, packageVars, catalogueVars>>

\* restoreRevision: the text and the files are those of the history.
StartRestore(u, h) == LET p == h.package IN
    /\ h \in history /\ Teachable(p, h.text)
    /\ Enter("restore", u, p, Edit(p, h.text, h.files \ FilesOf(p)), FilesOf(p))
    /\ UNCHANGED <<fileVars, packageVars, catalogueVars>>

\* Mutant of NextRevision: a change of files alone is not counted.
TextRevision(input) == IF input.text = input.was THEN input.revision ELSE input.revision + 1

NextRevision(input) == input.revision + 1

\* Both: on the revision read, with that revision added to the history, and with every
\* file it brings still usable, or not at all.
Replace(r) ==
    LET p == request[r].row
        input == request[r].what
        replaced == {f \in request[r].seen : file[f].kind \in KindsOf(input.files)}
        before == [package |-> p, revision |-> input.revision, text |-> input.was,
                   files |-> request[r].seen, status |-> input.status]
        allowed == /\ package[p].revision = input.revision
                   /\ \A h \in history : h.package = p => h.revision # input.revision
                   /\ \A f \in input.files : Usable(f)
                   /\ request[r].op = "update" => Own(request[r].user, input.files)
    IN
    /\ request[r].op \in {"update", "restore"}
    /\ IF allowed
       THEN /\ package' = [package EXCEPT ![p].text = input.text,
                                          ![p].revision = NextRevision(input)]
            /\ history' = history \cup {before}
            /\ file' = Moved(p, replaced, input.files)
       ELSE UNCHANGED <<package, history, file>>
    /\ End(r)
    /\ UNCHANGED <<stored, deletion, due, catalogueVars>>

\* A material needs a file that passed its scan; a package all its files and a video.
StartPublish(u, p) ==
    /\ package[p] # NoPackage
    /\ KindsOf(FilesOf(p)) = Needed(p)
    /\ package[p].status # "PUBLISHED"
    /\ p \in Materials => \A f \in FilesOf(p) : file[f].status = "READY"
    /\ p \in Helpers => lesson[package[p].text].film
    /\ Enter("status", u, p, "PUBLISHED", {})
    /\ UNCHANGED <<fileVars, packageVars, catalogueVars>>

StartArchive(u, p) ==
    /\ package[p] # NoPackage /\ package[p].status # "ARCHIVED"
    /\ Enter("status", u, p, "ARCHIVED", {})
    /\ UNCHANGED <<fileVars, packageVars, catalogueVars>>

\* The status is written by id alone and is not a revision.
ChangeStatus(r) ==
    /\ request[r].op = "status"
    /\ package' = [package EXCEPT ![request[r].row].status = request[r].what]
    /\ End(r)
    /\ UNCHANGED <<fileVars, history, catalogueVars>>
=============================================================================
