------------------------- MODULE MCPublishingSystem -------------------------
(* Small instances of PublishingSystem for TLC.  Each scenario takes the    *)
(* operations that meet in one place of the code.                           *)
EXTENDS PublishingSystem, TLC

Scanned(kind, owner) == [status |-> "READY", kind |-> kind, owner |-> owner, place |-> {}]
Scenario(ops, requests, operators, files, kinds) ==
    [ops |-> ops, requests |-> requests, operators |-> operators, files |-> files,
     kinds |-> kinds, lessons |-> {"l1", "l2"}]

\* A material is made, edited by two operators and restored; the clean-up takes what it
\* no longer uses.
Material == Scenario({"create", "update", "restore", "status"}, 4, {"ann", "bob"},
    (1 :> Scanned("material", "ann")) @@ (2 :> Scanned("material", "ann")), {})

\* A package of two kinds of file, of which one is replaced.
Helper == Scenario({"create", "update", "restore", "status"}, 4, {"ann"},
    (1 :> Scanned("plan", "ann")) @@ (2 :> Scanned("slides", "ann"))
    @@ (3 :> Scanned("plan", "ann")), {})

\* What a package is about comes and goes.
Lesson == [Scenario({"lesson", "film", "mission", "edit_mission", "create", "update", "status"}, 4,
                    {"ann"}, (1 :> Scanned("plan", "ann")) @@ (2 :> Scanned("slides", "ann")), {})
           EXCEPT !.lessons = {"l1"}]

\* Files come in, are scanned twice at once, are used and taken away.
Upload == Scenario({"upload", "complete", "inquiry", "create"}, 4, {"ann"}, << >>,
                   {"inquiry", "material"})

\* Posts, their review and the reports of them.
Moderation == Scenario({"post", "edit_post", "review", "archive_post", "report", "resolve"}, 6,
                       {"ann"}, << >>, {})

\* Two files for a post and a notice.
Attachment == Scenario({"post", "edit_post", "notice", "edit_notice"}, 4, {"ann"},
    (1 :> Scanned("community", "ann")) @@ (2 :> Scanned("community", "bob")), {})

MCScenarios == [material |-> Material, helper |-> Helper, lesson |-> Lesson, upload |-> Upload,
                moderation |-> Moderation, attachment |-> Attachment]
MCPlaces == Packages \cup Posts \cup Notices \cup Inquiries
=============================================================================
