------------------------------ MODULE Catalogue ------------------------------
(****************************************************************************)
(* lesson-admin.service.ts and mission-admin.service.ts: the lessons and    *)
(* the missions that operators make, check, publish and archive.            *)
(*                                                                          *)
(* A row's columns are left out but for those that decide who sees it: a    *)
(* lesson's video and whether a mission's definition passes its check.  The *)
(* order of a lesson in its era and the ids are taken care of by their      *)
(* unique indexes.                                                          *)
(****************************************************************************)
EXTENDS Requests

CONSTANTS
    Lessons      \* lessons, each with a mission of its own; a scenario has a field
                 \* lessons, those it begins with, public

VARIABLES
    lesson,      \* status, and whether it has a video
    mission      \* status, whether its definition is valid, whether scheduledAt has come

catalogueVars == <<lesson, mission>>

NoLesson == [status |-> "NONE", film |-> FALSE]
NoMission == [status |-> "NONE", valid |-> FALSE, come |-> FALSE]

CatalogueTypeOK ==
    /\ lesson \in [Lessons -> [status: {"NONE", "DRAFT", "PUBLISHED", "ARCHIVED"}, film: BOOLEAN]]
    /\ mission \in [Lessons -> [status: {"NONE", "DRAFT", "PENDING_REVIEW", "SCHEDULED",
                                          "PUBLISHED", "ARCHIVED"},
                                 valid: BOOLEAN, come: BOOLEAN]]

CatalogueInit ==
    /\ lesson = [l \in Lessons |-> IF l \in Asked.lessons
                                   THEN [status |-> "PUBLISHED", film |-> TRUE] ELSE NoLesson]
    /\ mission = [m \in Lessons |-> IF m \in Asked.lessons
                        THEN [status |-> "PUBLISHED", valid |-> TRUE, come |-> FALSE]
                        ELSE NoMission]

\* publicAvailabilityWhere
MissionIsPublic(m) ==
    \/ mission[m].status = "PUBLISHED"
    \/ mission[m].status = "SCHEDULED" /\ mission[m].come

(* -------------------------------- lessons ------------------------------- *)

CreateLesson(l) ==
    /\ AtOnce("lesson") /\ lesson[l] = NoLesson
    /\ lesson' = [lesson EXCEPT ![l].status = "DRAFT"]
    /\ UNCHANGED mission

\* A lesson needs a video to be public; the row is read before the transaction.
StartLessonStatus(u, l, status) ==
    /\ lesson[l] # NoLesson /\ lesson[l].status # status
    /\ status = "PUBLISHED" => lesson[l].film
    /\ Enter("lesson", u, l, status, {})
    /\ UNCHANGED catalogueVars

ChangeLessonStatus(r) ==
    /\ request[r].op = "lesson"
    /\ lesson' = [lesson EXCEPT ![request[r].row].status = request[r].what]
    /\ End(r)
    /\ UNCHANGED mission

\* LessonVideo attaches a video; where videos are local files, operators add and remove them.
VideoTurns(l) ==
    /\ AtOnce("film") /\ lesson[l] # NoLesson
    /\ lesson' = [lesson EXCEPT ![l].film = ~@]
    /\ UNCHANGED mission

(* -------------------------------- missions ------------------------------ *)

CreateMission(m, valid) ==
    /\ AtOnce("mission") /\ mission[m] = NoMission
    /\ mission' = [mission EXCEPT ![m] = [NoMission EXCEPT !.status = "DRAFT", !.valid = valid]]
    /\ UNCHANGED lesson

\* A mission may be edited whatever its status, and is not checked again.
UpdateMission(m, valid) ==
    /\ AtOnce("edit_mission") /\ mission[m] # NoMission
    /\ mission' = [mission EXCEPT ![m].valid = valid]
    /\ UNCHANGED lesson

\* requestReview and publish check the definition they read; archive checks nothing.
StartMissionStatus(u, m, status) ==
    /\ mission[m] # NoMission
    /\ status # "ARCHIVED" => mission[m].valid
    /\ Enter("mission", u, m, status, {})
    /\ UNCHANGED catalogueVars

ChangeMissionStatus(r) ==
    /\ request[r].op = "mission"
    /\ mission' = [mission EXCEPT ![request[r].row].status = request[r].what,
                                  ![request[r].row].come = FALSE]
    /\ End(r)
    /\ UNCHANGED lesson

ScheduledTimeComes(m) ==
    /\ mission[m].status = "SCHEDULED" /\ ~mission[m].come
    /\ mission' = [mission EXCEPT ![m].come = TRUE]
    /\ UNCHANGED <<lesson, requestVars>>
=============================================================================
