---------------------------- MODULE ManagedFiles ----------------------------
(****************************************************************************)
(* Files that users and operators upload: the attachments of inquiries, of  *)
(* community posts and of notices, the file of a teaching material and the  *)
(* six files of a class package.  Four services upload and scan them the    *)
(* same way, and one worker deletes the rows nothing has used for the time  *)
(* of their retention and then the objects.                                 *)
(*                                                                          *)
(* How long a row has been unused is left out: any unused row may be due.   *)
(* A signed upload ends minutes after the row is made and the retention is  *)
(* counted in hours, so no object arrives once its row is gone.  The claims *)
(* and the retries of a deletion job are in LessonVideo, for which the same *)
(* worker works.                                                            *)
(****************************************************************************)
EXTENDS Requests, FiniteSets

CONSTANTS
    Files,      \* rows, numbered in the order they are made
    Users,
    Places      \* what a file can belong to: packages, posts, notices and inquiries
    \* A scenario has fields ops, requests, operators, files (those it begins
    \* with) and kinds (those it uploads).

VARIABLES
    file,       \* the row; place holds its foreign keys (an attachment has two)
    stored,     \* files whose object is in the store
    deletion,   \* ObjectDeletionJob.status
    due         \* rows the worker has read and is about to delete

fileVars == <<file, stored, deletion, due>>

\* The table and the kind of a row; a package needs one file of each of its kinds.
Kinds == {"inquiry", "community", "material", "plan", "slides"}
NoFile == [status |-> "NONE", kind |-> "none", owner |-> None, place |-> {}]

FilesTypeOK ==
    /\ file \in [Files -> [status: {"NONE", "QUARANTINED", "READY", "REJECTED", "PURGED"},
                           kind: Kinds \cup {"none"}, owner: Users \cup {None},
                           place: SUBSET Places]]
    /\ stored \subseteq Files /\ due \subseteq Files
    /\ deletion \in [Files -> {"NONE", "PENDING", "COMPLETED"}]

\* Files a scenario begins with have been scanned.
FilesInit ==
    /\ file = [f \in Files |-> IF f \in DOMAIN Asked.files
                               THEN [Asked.files[f] EXCEPT !.status = "READY"] ELSE NoFile]
    /\ stored = DOMAIN Asked.files
    /\ deletion = [f \in Files |-> "NONE"]
    /\ due = {}

Unused(f) == file[f].place = {} /\ file[f].status \in {"QUARANTINED", "READY", "REJECTED"}
Usable(f) == file[f].place = {} /\ file[f].status = "READY"
Own(u, fs) == \A f \in fs : file[f].owner = u

FilesOf(p) == {f \in Files : p \in file[f].place}

\* What the rows are once the files taken have left p and those given have come to it.
Moved(p, taken, given) == [f \in Files |->
    IF f \in given THEN [file[f] EXCEPT !.place = @ \cup {p}]
    ELSE IF f \in taken THEN [file[f] EXCEPT !.place = @ \ {p}]
    ELSE file[f]]

(* ------------------------------- uploading ------------------------------ *)

\* The row is made before the upload is signed; the client may never send the file.
StartUpload(u, kind) ==
    /\ AtOnce("upload")
    /\ \E f \in Files :
          /\ file[f] = NoFile /\ \A g \in Files : g < f => file[g] # NoFile
          /\ file' = [file EXCEPT ![f] = [status |-> "QUARANTINED", kind |-> kind, owner |-> u,
                                          place |-> {}]]
    /\ UNCHANGED <<stored, deletion, due>>

\* The client sends the file to the store.
Put(f) ==
    /\ file[f].status = "QUARANTINED" /\ f \notin stored
    /\ stored' = stored \cup {f}
    /\ UNCHANGED <<file, deletion, due, requestVars>>

\* The owner says it has arrived: the object is fetched and scanned.
StartComplete(u, f) ==
    /\ file[f].status = "QUARANTINED" /\ Own(u, {f}) /\ file[f].place = {} /\ f \in stored
    /\ Enter("complete", u, f, None, {})
    /\ UNCHANGED fileVars

\* The verdict is written by id alone; the write fails only where the row is gone.
CompleteUpload(r) == LET f == request[r].row IN
    /\ request[r].op = "complete"
    /\ \E verdict \in {"READY", "REJECTED"} :
          file' = IF file[f].status = "PURGED" THEN file
                  ELSE [file EXCEPT ![f].status = verdict]
    /\ End(r)
    /\ UNCHANGED <<stored, deletion, due>>

(* -------------------------------- clean-up ------------------------------ *)

\* One of the four scans; the batch of twenty is one of the subsets.
ScheduleAbandoned(kinds) ==
    /\ due = {}
    /\ due' \in SUBSET {f \in Files : Unused(f) /\ file[f].kind \in kinds}
    /\ UNCHANGED <<file, stored, deletion, requestVars>>

\* Mutant of StillUnused: the row is deleted by its id alone.
StillThere(f) == file[f].status # "PURGED"

StillUnused(f) == Unused(f)

\* Each row of the batch in a transaction of its own, on the condition it was read by.  A
\* file that was used and put aside meanwhile may have a later detachedAt: it is skipped.
ScheduleDeletion(f) ==
    /\ f \in due /\ due' = due \ {f}
    /\ \/ /\ StillUnused(f)
          /\ file' = [file EXCEPT ![f].status = "PURGED"]
          /\ deletion' = [deletion EXCEPT ![f] = "PENDING"]
       \/ UNCHANGED <<file, deletion>>
    /\ UNCHANGED <<stored, requestVars>>

\* processNextDeletion.  An upload that never came has nothing to delete.
DeleteObject(f) ==
    /\ deletion[f] = "PENDING"
    /\ stored' = stored \ {f}
    /\ deletion' = [deletion EXCEPT ![f] = "COMPLETED"]
    /\ UNCHANGED <<file, due, requestVars>>

\* The worker dies, or an error ends its round; it begins another.
RoundEnds == due # {} /\ due' = {} /\ UNCHANGED <<file, stored, deletion, requestVars>>

CleanUp ==
    \/ \E kinds \in {{"inquiry"}, {"community"}, {"material"}, {"plan", "slides"}} :
          ScheduleAbandoned(kinds)
    \/ \E f \in Files : ScheduleDeletion(f) \/ DeleteObject(f)
    \/ RoundEnds
=============================================================================
