------------------------- MODULE MCClassroomSystem -------------------------
(* Small instances of ClassroomSystem for TLC.  Each scenario takes the     *)
(* operations that meet in one place of the code.                           *)
EXTENDS ClassroomSystem

\* An administrator and an instructor, the class they share and who is in it.
School(ops, requests, limit, limits, pupils) ==
    [ops |-> ops, requests |-> requests, limit |-> limit, limits |-> limits, pupils |-> pupils,
     staff |-> [boss |-> "ADMIN", teacher |-> "INSTRUCTOR"], teaching |-> {<<"go", "teacher">>}]

\* Two students and one seat.
Seats == School({"enroll", "unenroll", "code", "claim", "leave"}, 6, 1, {}, {})

\* The limit moves while seats are taken and given back.
Limit == School({"settings", "enroll", "update_class", "claim", "code"}, 5, 2, {1, Unlimited},
                {<<"go", "ann">>})

\* Members and classes come and go.
Staffing == School({"add_member", "update_member", "create_class", "update_class", "assign",
                    "unassign", "time", "goal", "offer"}, 4, Unlimited, {}, {})

\* Homework is drafted, edited, published, cancelled, commented on and set again.
Work == School({"draft", "edit", "publish", "cancel", "comment", "reassign", "unenroll"}, 4,
               Unlimited, {}, {<<"go", "ann">>, <<"go", "bob">>})

\* Deadlines come while students learn and the worker dies.
Deadlines == School({"draft", "edit", "publish", "cancel", "learn", "time"}, 6, Unlimited, {},
                    {<<"go", "ann">>})

MCScenarios == [seats |-> Seats, limit |-> Limit, staffing |-> Staffing, work |-> Work,
                deadlines |-> Deadlines]
=============================================================================
