-------------------------- MODULE ClassAssignments --------------------------
(****************************************************************************)
(* class-assignment.service.ts: an instructor drafts homework for a class,  *)
(* edits, publishes, cancels, comments on and sets it again; what students  *)
(* have done is read from their lessons and missions; a worker reminds      *)
(* those who are not done before the deadline.                              *)
(****************************************************************************)
EXTENDS Organizations

CONSTANTS
    Homeworks,   \* OrganizationClassAssignment rows, numbered in the order they are made
    Missions,    \* those of Lessons that are missions
    Take,        \* how many of the due rows a scan of the worker reads (200)
    MaxDeaths    \* bound: deaths of the worker

ASSUME WorkAssumption == MaxDeaths \in Nat

VARIABLES
    homework,    \* OrganizationClassAssignment rows with their items and targets
    remark,      \* OrganizationClassAssignmentTarget.commentVersion
    notice,      \* UserNotification rows <<student, kind, homework, version>>
    learned,     \* LessonProgress and MissionAttempt rows: "started" or "done"
    reminding,   \* notices the worker is about to write
    deaths

workVars == <<homework, remark, notice, learned, reminding, deaths>>

Kinds == {"PUBLISHED", "CANCELED", "COMMENTED", "DUE_SOON"}
NoHomework == [status |-> "NONE", class |-> None, items |-> {}, targets |-> {}, due |-> "later",
               revision |-> 0]

WorkTypeOK ==
    /\ homework \in [Homeworks -> [status: {"NONE", "DRAFT", "PUBLISHED", "CANCELED"},
                                   class: Classes \cup {None}, items: SUBSET Lessons,
                                   targets: SUBSET Students, due: {"later", "soon", "past"},
                                   revision: Nat]]
    /\ remark \in [Homeworks \X Students -> Nat]
    /\ notice \subseteq Students \X Kinds \X Homeworks \X (Nat \ {0})
    /\ learned \in [Students \X Lessons -> {"none", "started", "done"}]
    /\ reminding \subseteq Students \X {"DUE_SOON"} \X Homeworks \X Nat
    /\ deaths \in 0 .. MaxDeaths

WorkInit ==
    /\ homework = [h \in Homeworks |-> NoHomework]
    /\ remark = [p \in Homeworks \X Students |-> 0]
    /\ notice = {}
    /\ learned = [p \in Students \X Lessons |-> "none"]
    /\ reminding = {}
    /\ deaths = 0

vars == <<schoolVars, workVars, requestVars>>

Ask(op, t, row, what, seen) == Enter(op, t, row, what, seen) /\ UNCHANGED <<schoolVars, workVars>>
Turndown(r) == End(r) /\ UNCHANGED <<schoolVars, workVars>>

Teacher(t, h) == homework[h].status # "NONE" /\ Teaches(t, homework[h].class)

\* createMany with skipDuplicates: one notification per student, kind, homework, version.
Notices(kind, h, w) == {<<s, kind, h, w.revision>> : s \in w.targets}

(* ---------------------------- drafts, publication ----------------------- *)

\* Students and items are checked before the transaction.
StartDraft(t, c, items, targets) ==
    /\ Teaches(t, c) /\ items \subseteq offered /\ targets \subseteq Present(c)
    /\ Ask("draft", t, c, [items |-> items, targets |-> targets], {})

NewHomework(h, w) ==
    /\ homework[h].status = "NONE" /\ \A k \in Homeworks : k < h => homework[k].status # "NONE"
    /\ homework' = [homework EXCEPT ![h] = w]

Create(r) == LET input == request[r].what IN
    /\ request[r].op = "draft"
    /\ \E h \in Homeworks, due \in {"later", "soon"} :
          NewHomework(h, [status |-> "DRAFT", class |-> request[r].row, items |-> input.items,
                          targets |-> input.targets, due |-> due, revision |-> 1])
    /\ End(r)
    /\ UNCHANGED <<schoolVars, remark, notice, learned, reminding, deaths>>

StartEdit(t, h, items, targets) ==
    /\ Teacher(t, h) /\ homework[h].status = "DRAFT"
    /\ items \subseteq offered /\ targets \subseteq Present(homework[h].class)
    /\ Ask("edit", t, h, [items |-> items, targets |-> targets], {})

\* The items and targets are deleted and made again; the status is not read again.
Update(r) == LET h == request[r].row IN
    /\ request[r].op = "edit"
    /\ \E due \in {"later", "soon"} :
          homework' = [homework EXCEPT ![h].items = request[r].what.items,
                                       ![h].targets = request[r].what.targets,
                                       ![h].due = due, ![h].revision = @ + 1]
    /\ remark' = [p \in Homeworks \X Students |-> IF p[1] = h THEN 0 ELSE remark[p]]
    /\ End(r)
    /\ UNCHANGED <<schoolVars, notice, learned, reminding, deaths>>

StartPublication(t, h) ==
    /\ Teacher(t, h) /\ homework[h].status = "DRAFT" /\ homework[h].due # "past"
    /\ homework[h].targets \subseteq Present(homework[h].class)
    /\ Ask("publish", t, h, None, {})

\* The draft is claimed; the targets are those it has by then.
Publish(r) == LET h == request[r].row IN
    /\ request[r].op = "publish"
    /\ IF homework[h].status # "DRAFT" \/ homework[h].due = "past" THEN Turndown(r)
       ELSE /\ homework' = [homework EXCEPT ![h].status = "PUBLISHED"]
            /\ notice' = notice \cup Notices("PUBLISHED", h, homework[h])
            /\ End(r)
            /\ UNCHANGED <<schoolVars, remark, learned, reminding, deaths>>

StartCancellation(t, h) ==
    /\ Teacher(t, h) /\ homework[h].status = "PUBLISHED" /\ Ask("cancel", t, h, None, {})

Cancel(r) == LET h == request[r].row IN
    /\ request[r].op = "cancel"
    /\ homework' = [homework EXCEPT ![h].status = "CANCELED"]
    /\ notice' = notice \cup Notices("CANCELED", h, homework[h])
    /\ End(r)
    /\ UNCHANGED <<schoolVars, remark, learned, reminding, deaths>>

\* A target is found with the homework and written by its id: an edit deletes that row.
StartComment(t, h, s, text) ==
    /\ Teacher(t, h) /\ s \in homework[h].targets
    /\ Ask("comment", t, h, [student |-> s, text |-> text], {homework[h].revision})

\* Mutant of Comment: announced with the version before.
CommentBefore(r) == LET h == request[r].row  s == request[r].what.student IN
    /\ request[r].op = "comment"
    /\ remark' = [remark EXCEPT ![<<h, s>>] = @ + 1]
    /\ notice' = IF request[r].what.text
                 THEN notice \cup {<<s, "COMMENTED", h, remark[<<h, s>>]>>} ELSE notice
    /\ End(r)
    /\ UNCHANGED <<schoolVars, homework, learned, reminding, deaths>>

\* The notification is unique per version: where one is there the request fails.
Comment(r) == LET h == request[r].row
                  s == request[r].what.student
                  version == remark[<<h, s>>] + 1
                  new == <<s, "COMMENTED", h, version>> IN
    /\ request[r].op = "comment"
    /\ IF \/ homework[h].revision \notin request[r].seen
          \/ request[r].what.text /\ new \in notice
       THEN Turndown(r)
       ELSE /\ remark' = [remark EXCEPT ![<<h, s>>] = version]
            /\ notice' = IF request[r].what.text THEN notice \cup {new} ELSE notice
            /\ End(r)
            /\ UNCHANGED <<schoolVars, homework, learned, reminding, deaths>>

StartReassignment(t, h, students) ==
    /\ Teacher(t, h) /\ homework[h].status # "DRAFT"
    /\ students \subseteq homework[h].targets \cap Present(homework[h].class)
    /\ Ask("reassign", t, h, [items |-> homework[h].items, targets |-> students], {})

\* The copy is public at once.
Reassign(r) ==
    /\ request[r].op = "reassign"
    /\ \E h \in Homeworks, due \in {"later", "soon"} :
          LET w == [status |-> "PUBLISHED", class |-> homework[request[r].row].class,
                    items |-> request[r].what.items, targets |-> request[r].what.targets,
                    due |-> due, revision |-> 1]
          IN  NewHomework(h, w) /\ notice' = notice \cup Notices("PUBLISHED", h, w)
    /\ End(r)
    /\ UNCHANGED <<schoolVars, remark, learned, reminding, deaths>>

(* ------------------------------ the reminders --------------------------- *)

\* evaluate: done when every item is.
Completed(s, h) == \A l \in homework[h].items : learned[<<s, l>>] = "done"

DueSoon == {h \in Homeworks : homework[h].status = "PUBLISHED" /\ homework[h].due = "soon"}

\* Mutant of Incomplete: who has begun is not reminded.
Untouched(h) == {s \in homework[h].targets : \A l \in homework[h].items : learned[<<s, l>>] = "none"}

Incomplete(h) == {s \in homework[h].targets : ~Completed(s, h)}

\* sendDueSoonReminders reads the first Take of those that are due, in the order of the
\* deadline, and then writes homework by homework.
Scan == \E due \in SUBSET DueSoon :
    /\ reminding = {}
    /\ Cardinality(due) <= Take /\ (due # DueSoon => Cardinality(due) = Take)
    /\ reminding' = UNION {{<<s, "DUE_SOON", h, homework[h].revision>> : s \in Incomplete(h)} :
                           h \in due}
    /\ UNCHANGED <<schoolVars, homework, remark, notice, learned, deaths, requestVars>>

Remind(h) ==
    /\ \E n \in reminding : n[3] = h
    /\ notice' = notice \cup {n \in reminding : n[3] = h}
    /\ reminding' = {n \in reminding : n[3] # h}
    /\ UNCHANGED <<schoolVars, homework, remark, learned, deaths, requestVars>>

WorkerStep == Scan \/ \E h \in Homeworks : Remind(h)

\* The worker dies or the database fails it; runReminderWorker scans again.
WorkerDies ==
    /\ reminding # {} /\ deaths < MaxDeaths
    /\ reminding' = {} /\ deaths' = deaths + 1
    /\ UNCHANGED <<schoolVars, homework, remark, notice, learned, requestVars>>

(* ------------------------- seen from other modules ---------------------- *)

\* lesson-progress.service.ts never takes back what was done; retry of mission.service.ts
\* does, where the attempt is the student's only one.
Learn(s, l) ==
    /\ AtOnce("learn") /\ s \notin gone
    /\ \/ learned[<<s, l>>] = "none" /\ learned' = [learned EXCEPT ![<<s, l>>] = "started"]
       \/ learned[<<s, l>>] = "started" /\ learned' = [learned EXCEPT ![<<s, l>>] = "done"]
       \/ /\ learned[<<s, l>>] = "done" /\ l \in Missions
          /\ learned' = [learned EXCEPT ![<<s, l>>] = "started"]
    /\ UNCHANGED <<schoolVars, homework, remark, notice, reminding, deaths>>

\* The last day before a deadline begins, and the deadline passes.
TimePasses(h) ==
    /\ AtOnce("time") /\ homework[h].status # "NONE"
    /\ \/ homework[h].due = "later" /\ homework' = [homework EXCEPT ![h].due = "soon"]
       \/ homework[h].due = "soon" /\ homework' = [homework EXCEPT ![h].due = "past"]
    /\ UNCHANGED <<schoolVars, remark, notice, learned, reminding, deaths>>
=============================================================================
