---------------------------- MODULE CommunityPosts ----------------------------
(****************************************************************************)
(* community.service.ts and community-report.service.ts: a user writes a    *)
(* post, an operator publishes or rejects it, others report it and an       *)
(* operator hides it.  With them the notices of editorial.service.ts and    *)
(* the inquiries of inquiry.service.ts as far as they use files.            *)
(*                                                                          *)
(* A post is dated while its publishedAt is set.                            *)
(****************************************************************************)
EXTENDS Packages

CONSTANTS Posts, Notices, Inquiries

VARIABLES
    post,        \* CommunityPost rows
    report,      \* CommunityPostReport.status per post and reporter
    bulletin,    \* EditorialContent.status of notices
    submitted    \* inquiries made

postVars == <<post, report, bulletin, submitted>>
vars == <<fileVars, packageVars, catalogueVars, postVars, requestVars>>

NoPost == [status |-> "NONE", author |-> None, dated |-> FALSE]

PostsTypeOK ==
    /\ post \in [Posts -> [status: {"NONE", "PENDING_REVIEW", "PUBLISHED", "REJECTED", "HIDDEN",
                                    "ARCHIVED"},
                           author: Users \cup {None}, dated: BOOLEAN]]
    /\ report \in [Posts \X Users -> {"NONE", "OPEN", "RESOLVED", "DISMISSED"}]
    /\ bulletin \in [Notices -> {"NONE", "DRAFT", "PUBLISHED", "ARCHIVED"}]
    /\ submitted \subseteq Inquiries

PostsInit ==
    /\ post = [p \in Posts |-> NoPost]
    /\ report = [q \in Posts \X Users |-> "NONE"]
    /\ bulletin = [n \in Notices |-> "NONE"]
    /\ submitted = {}

Moderator(u) == u \in Operators
Mine(u, p) == Moderator(u) \/ post[p].author = u

Ask(op, u, row, what, seen) ==
    Enter(op, u, row, what, seen) /\ UNCHANGED <<fileVars, packageVars, catalogueVars, postVars>>

\* u owns the files, and they are usable once p has let go of those it had.
Attachable(u, kind, p, files) ==
    /\ Own(u, files) /\ KindsOf(files) \subseteq {kind}
    /\ \A f \in files : file[f].status = "READY" /\ file[f].place \subseteq {p}

\* The files of p become files.
Attach(u, kind, p, files) ==
    /\ Attachable(u, kind, p, files)
    /\ file' = Moved(p, FilesOf(p) \ files, files)
    /\ UNCHANGED <<stored, deletion, due>>

(* --------------------------------- posts -------------------------------- *)

CreatePost(u, p, files) ==
    /\ AtOnce("post") /\ post[p] = NoPost
    /\ post' = [post EXCEPT ![p] =
          IF Moderator(u)
          THEN [status |-> "PUBLISHED", author |-> u, dated |-> TRUE]
          ELSE [status |-> "PENDING_REVIEW", author |-> u, dated |-> FALSE]]
    /\ Attach(u, "community", p, files)
    /\ UNCHANGED <<packageVars, catalogueVars, report, bulletin, submitted>>

StartPostUpdate(u, p, changes, files) ==
    /\ post[p].status # "NONE" /\ post[p].status # "ARCHIVED" /\ Mine(u, p)
    /\ post[p].status = "HIDDEN" => Moderator(u)
    /\ Ask("edit_post", u, p,
           [changes |-> changes, files |-> files, status |-> post[p].status], {})

\* A moderator writes the status that was read; any other author sends the post back to
\* review, and its publication is undone.
UpdatePost(r) == LET u == request[r].user  p == request[r].row  input == request[r].what IN
    /\ request[r].op = "edit_post"
    /\ \/ /\ post' = [post EXCEPT ![p] =
                IF Moderator(u) THEN [@ EXCEPT !.status = input.status]
                ELSE [@ EXCEPT !.status = "PENDING_REVIEW", !.dated = FALSE]]
          /\ IF input.changes THEN Attach(u, "community", p, input.files)
                              ELSE UNCHANGED fileVars
       \/ /\ input.changes /\ ~Attachable(u, "community", p, input.files)
          /\ UNCHANGED <<post, fileVars>>
    /\ End(r)
    /\ UNCHANGED <<packageVars, catalogueVars, report, bulletin, submitted>>

\* The status is checked on the row read first, and written by id alone.
StartReview(u, p, verdict) ==
    /\ Moderator(u)
    /\ \/ verdict = "PUBLISHED" /\ post[p].status \in {"PENDING_REVIEW", "REJECTED", "HIDDEN"}
       \/ verdict = "REJECTED" /\ post[p].status = "PENDING_REVIEW"
    /\ Ask("review", u, p, verdict, {})

Review(r) == LET p == request[r].row  verdict == request[r].what IN
    /\ request[r].op = "review"
    /\ post' = [post EXCEPT ![p].status = verdict, ![p].dated = (verdict = "PUBLISHED")]
    /\ End(r)
    /\ UNCHANGED <<fileVars, packageVars, catalogueVars, report, bulletin, submitted>>

StartPostArchive(u, p) ==
    /\ post[p].status # "NONE" /\ post[p].status # "ARCHIVED" /\ Mine(u, p)
    /\ Ask("archive_post", u, p, None, {})

ArchivePost(r) ==
    /\ request[r].op = "archive_post"
    /\ post' = [post EXCEPT ![request[r].row].status = "ARCHIVED"]
    /\ End(r)
    /\ UNCHANGED <<fileVars, packageVars, catalogueVars, report, bulletin, submitted>>

(* -------------------------------- reports ------------------------------- *)

StartReport(u, p) == post[p].status = "PUBLISHED" /\ Ask("report", u, p, None, {})

\* One report per post and reporter: a second one is refused by the unique index.
Submit(r) == LET q == <<request[r].row, request[r].user>> IN
    /\ request[r].op = "report"
    /\ report' = IF report[q] = "NONE" THEN [report EXCEPT ![q] = "OPEN"] ELSE report
    /\ End(r)
    /\ UNCHANGED <<fileVars, packageVars, catalogueVars, post, bulletin, submitted>>

StartResolution(u, q, action) ==
    /\ Moderator(u) /\ report[q] = "OPEN"
    /\ action = "hide" => post[q[1]].status # "ARCHIVED"
    /\ Ask("resolve", u, q, action, {})

\* Mutant of Outcome: the resolution is written where the status belongs.
Resolution(action) == IF action = "hide" THEN "HIDDEN" ELSE "DISMISSED"

Outcome(action) == IF action = "hide" THEN "RESOLVED" ELSE "DISMISSED"

\* The report is claimed; hiding the post answers every other open report of it.
Resolve(r) == LET q == request[r].row  hides == request[r].what = "hide" IN
    /\ request[r].op = "resolve"
    /\ IF report[q] # "OPEN" THEN UNCHANGED <<post, report>>
       ELSE /\ report' = [k \in DOMAIN report |->
                  IF k = q \/ (hides /\ k[1] = q[1] /\ report[k] = "OPEN")
                  THEN Outcome(request[r].what) ELSE report[k]]
            /\ post' = IF hides THEN [post EXCEPT ![q[1]].status = "HIDDEN"] ELSE post
    /\ End(r)
    /\ UNCHANGED <<fileVars, packageVars, catalogueVars, bulletin, submitted>>

(* -------------------------- notices and inquiries ----------------------- *)

CreateNotice(u, n, files) ==
    /\ AtOnce("notice") /\ bulletin[n] = "NONE" /\ Moderator(u)
    /\ bulletin' = [bulletin EXCEPT ![n] = "PUBLISHED"]
    /\ Attach(u, "community", n, files)
    /\ UNCHANGED <<packageVars, catalogueVars, post, report, submitted>>

\* Nothing read before the transaction decides what it writes, so the two are one step.
UpdateNotice(u, n, status, changes, files) ==
    /\ AtOnce("edit_notice") /\ bulletin[n] # "NONE" /\ Moderator(u)
    /\ bulletin' = [bulletin EXCEPT ![n] = status]
    /\ IF changes THEN Attach(u, "community", n, files) ELSE UNCHANGED fileVars
    /\ UNCHANGED <<packageVars, catalogueVars, post, report, submitted>>

\* The attachment is read before the transaction and claimed in it.
StartInquiry(u, q, files) ==
    /\ q \notin submitted /\ Own(u, files) /\ KindsOf(files) \subseteq {"inquiry"}
    /\ \A f \in files : Usable(f)
    /\ Ask("inquiry", u, q, files, {})

SubmitInquiry(r) == LET q == request[r].row IN
    /\ request[r].op = "inquiry"
    /\ IF q \notin submitted /\ \A f \in request[r].what : Usable(f)
       THEN submitted' = submitted \cup {q} /\ file' = Moved(q, {}, request[r].what)
       ELSE UNCHANGED <<submitted, file>>
    /\ End(r)
    /\ UNCHANGED <<stored, deletion, due, packageVars, catalogueVars, post, report, bulletin>>
=============================================================================
