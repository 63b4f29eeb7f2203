---------------------------- MODULE Organizations ----------------------------
(****************************************************************************)
(* organization-management.service.ts and the class invite codes and class  *)
(* goal of organization-access.service.ts, for one organization.            *)
(*                                                                          *)
(* enrollStudent and claimClassInviteCode are serializable transactions:    *)
(* each reads one snapshot and commits only if PostgreSQL finds an order    *)
(* for the serializable ones and no row it writes changed since.  Every     *)
(* other transaction is read committed and is not part of that order.       *)
(* startsAt and endsAt place an assignment of an instructor before, in or   *)
(* after its time.                                                          *)
(****************************************************************************)
EXTENDS Requests, FiniteSets

CONSTANTS
    Staff,       \* accounts that are, or may become, members of the organization
    Students,
    Classes,
    Codes,       \* invite codes, numbered in the order they are made
    Lessons,     \* lessons and missions a class may be set
    Unlimited    \* seatLimit null
    \* A scenario has fields ops, requests, limits, limit, staff, teaching and pupils.

VARIABLES
    seatLimit,
    seat,        \* OrganizationSeat: the students who have one
    member,      \* OrganizationMembership rows
    class,       \* OrganizationClass.status
    teaching,    \* OrganizationClassTeacherAssignment rows
    enrolled,    \* OrganizationClassEnrollment rows
    code,        \* OrganizationClassInviteCode rows
    goal,        \* OrganizationClassProgressSetting.currentLessonId
    offered,     \* lessons and missions that are PUBLISHED
    gone,        \* students who deleted their account
    ceiling      \* the highest seatLimit so far

schoolVars == <<seatLimit, seat, member, class, teaching, enrolled, code, goal, offered, gone,
                ceiling>>

Pairs == Classes \X Students
Posts == Classes \X Staff
Limits == Nat \cup {Unlimited}
NoMember == [role |-> "NONE", status |-> "NONE"]
NoCode == [status |-> "NONE", class |-> None, by |-> None, uses |-> 0]

Within(n, limit) == IF limit = Unlimited THEN TRUE ELSE n <= limit
Higher(x, y) == IF Unlimited \in {x, y} THEN Unlimited ELSE IF x < y THEN y ELSE x

ASSUME SchoolAssumption ==
    /\ IsFiniteSet(Students)
    /\ Unlimited \notin Nat
    /\ \A c \in DOMAIN Scenarios :
          /\ Scenarios[c].requests \in Nat
          /\ Scenarios[c].limits \subseteq Limits /\ Scenarios[c].limit \in Limits
          /\ \A m \in DOMAIN Scenarios[c].staff :
                Scenarios[c].staff[m] \in {"ADMIN", "INSTRUCTOR"}
          /\ Scenarios[c].pupils \subseteq Pairs
          /\ Within(Cardinality({p[2] : p \in Scenarios[c].pupils}), Scenarios[c].limit)

SchoolTypeOK ==
    /\ seatLimit \in Limits /\ ceiling \in Limits
    /\ seat \subseteq Students /\ gone \subseteq Students /\ offered \subseteq Lessons
    /\ member \in [Staff -> [role: {"NONE", "ADMIN", "INSTRUCTOR"},
                             status: {"NONE", "ACTIVE", "SUSPENDED"}]]
    /\ class \in [Classes -> {"NONE", "ACTIVE", "ARCHIVED"}]
    /\ teaching \in [Posts -> {"NONE", "FUTURE", "CURRENT", "ENDED"}]
    /\ enrolled \in [Pairs -> {"NONE", "CURRENT", "ENDED"}]
    /\ code \in [Codes -> [status: {"NONE", "OPEN", "CONSUMED", "REVOKED"},
                           class: Classes \cup {None}, by: Staff \cup {None}, uses: Nat]]
    /\ goal \in [Classes -> Lessons \cup {None}]

SchoolInit ==
    /\ seatLimit = Asked.limit /\ ceiling = Asked.limit
    /\ seat = {p[2] : p \in Asked.pupils}
    /\ member = [m \in Staff |-> IF m \in DOMAIN Asked.staff
                                 THEN [role |-> Asked.staff[m], status |-> "ACTIVE"] ELSE NoMember]
    /\ class = [c \in Classes |-> IF \E p \in Asked.teaching : p[1] = c THEN "ACTIVE" ELSE "NONE"]
    /\ teaching = [p \in Posts |-> IF p \in Asked.teaching THEN "CURRENT" ELSE "NONE"]
    /\ enrolled = [p \in Pairs |-> IF p \in Asked.pupils THEN "CURRENT" ELSE "NONE"]
    /\ code = [k \in Codes |-> NoCode]
    /\ goal = [c \in Classes |-> None]
    /\ offered = Lessons
    /\ gone = {}

IsAdmin(a) == member[a] = [role |-> "ADMIN", status |-> "ACTIVE"]
IsInstructor(t) == member[t] = [role |-> "INSTRUCTOR", status |-> "ACTIVE"]

\* requireCurrentClassAssignment
Teaches(t, c) == IsInstructor(t) /\ class[c] = "ACTIVE" /\ teaching[<<c, t>>] = "CURRENT"

\* activeClassStudents
Present(c) == {s \in Students \ gone : enrolled[<<c, s>>] = "CURRENT"}

EndPosts(ps) == [p \in Posts |-> IF p \in ps /\ teaching[p] \in {"FUTURE", "CURRENT"}
                                 THEN "ENDED" ELSE teaching[p]]

(* -------------------------- seats and members --------------------------- *)

\* The seats in use are counted before the transaction.
StartSettings(a, limit) ==
    /\ IsAdmin(a) /\ Within(Cardinality(seat), limit)
    /\ Enter("settings", a, 0, limit, {})
    /\ UNCHANGED schoolVars

UpdateOrganization(r) ==
    /\ request[r].op = "settings"
    /\ seatLimit' = request[r].what
    /\ ceiling' = Higher(ceiling, seatLimit')
    /\ End(r)
    /\ UNCHANGED <<seat, member, class, teaching, enrolled, code, goal, offered, gone>>

StartMember(a, m, role) ==
    /\ IsAdmin(a) /\ Enter("add_member", a, m, role, {}) /\ UNCHANGED schoolVars

AddMember(r) ==
    /\ request[r].op = "add_member"
    /\ member' = [member EXCEPT ![request[r].row] = [role |-> request[r].what, status |-> "ACTIVE"]]
    /\ End(r)
    /\ UNCHANGED <<seatLimit, seat, class, teaching, enrolled, code, goal, offered, gone, ceiling>>

\* What the body leaves out is filled in from the row read here; an admin may not
\* demote or suspend the membership the request came in by.  ENDED is treated as
\* SUSPENDED is, and stands with it.
StartMemberUpdate(a, m, role, status) ==
    /\ IsAdmin(a) /\ member[m] # NoMember
    /\ a = m => role = "ADMIN" /\ status = "ACTIVE"
    /\ Enter("update_member", a, m, [role |-> role, status |-> status], {})
    /\ UNCHANGED schoolVars

UpdateMember(r) == LET m == request[r].row IN
    /\ request[r].op = "update_member"
    /\ member' = [member EXCEPT ![m] = request[r].what]
    /\ teaching' = IF request[r].what = [role |-> "INSTRUCTOR", status |-> "ACTIVE"] THEN teaching
                   ELSE EndPosts(Classes \X {m})
    /\ End(r)
    /\ UNCHANGED <<seatLimit, seat, class, enrolled, code, goal, offered, gone, ceiling>>

(* -------------------------------- classes ------------------------------- *)

\* Classes have names of their own: one that is taken is refused.
StartClass(a, c) ==
    /\ IsAdmin(a) /\ class[c] = "NONE" /\ Enter("create_class", a, c, None, {})
    /\ UNCHANGED schoolVars

CreateClass(r) == LET c == request[r].row IN
    /\ request[r].op = "create_class"
    /\ class' = IF class[c] = "NONE" THEN [class EXCEPT ![c] = "ACTIVE"] ELSE class
    /\ End(r)
    /\ UNCHANGED <<seatLimit, seat, member, teaching, enrolled, code, goal, offered, gone, ceiling>>

StartClassUpdate(a, c, status) ==
    /\ IsAdmin(a) /\ class[c] # "NONE" /\ Enter("update_class", a, c, status, {})
    /\ UNCHANGED schoolVars

\* An archived class loses its instructors, its students, and the seats of those who
\* are in no other class.
UpdateClass(r) == LET c == request[r].row  status == request[r].what IN
    /\ request[r].op = "update_class"
    /\ class' = [class EXCEPT ![c] = status]
    /\ IF status # "ARCHIVED" THEN UNCHANGED <<teaching, enrolled, seat>>
       ELSE /\ teaching' = EndPosts({c} \X Staff)
            /\ enrolled' = [p \in Pairs |-> IF p[1] = c /\ enrolled[p] = "CURRENT"
                                            THEN "ENDED" ELSE enrolled[p]]
            /\ seat' = {s \in seat : \E k \in Classes : enrolled'[<<k, s>>] = "CURRENT"}
    /\ End(r)
    /\ UNCHANGED <<seatLimit, member, code, goal, offered, gone, ceiling>>

\* The class and the membership are read before the transaction.  The period may lie
\* ahead, or be over.
StartPost(a, c, t, begins) ==
    /\ IsAdmin(a) /\ class[c] = "ACTIVE" /\ IsInstructor(t)
    /\ Enter("assign", a, <<c, t>>, begins, {}) /\ UNCHANGED schoolVars

AssignInstructor(r) ==
    /\ request[r].op = "assign"
    /\ teaching' = [teaching EXCEPT ![request[r].row] = request[r].what]
    /\ End(r)
    /\ UNCHANGED <<seatLimit, seat, member, class, enrolled, code, goal, offered, gone, ceiling>>

StartPostEnd(a, p) ==
    /\ IsAdmin(a) /\ teaching[p] # "NONE" /\ Enter("unassign", a, p, "ENDED", {})
    /\ UNCHANGED schoolVars

EndInstructorAssignment(r) ==
    /\ request[r].op = "unassign"
    /\ teaching' = [teaching EXCEPT ![request[r].row] = "ENDED"]
    /\ End(r)
    /\ UNCHANGED <<seatLimit, seat, member, class, enrolled, code, goal, offered, gone, ceiling>>

\* The time an admin set for an instructor comes, or is over.
PostTurns(p) ==
    /\ AtOnce("time")
    /\ \/ teaching[p] = "FUTURE" /\ teaching' = [teaching EXCEPT ![p] = "CURRENT"]
       \/ teaching[p] = "CURRENT" /\ teaching' = [teaching EXCEPT ![p] = "ENDED"]
    /\ UNCHANGED <<seatLimit, seat, member, class, enrolled, code, goal, offered, gone, ceiling>>

(* ------------------------------- enrolment ------------------------------ *)

\* The class and the student are read before the transaction; for a code, so are the
\* code and the seat limit.
StartEnrolment(a, c, s) ==
    /\ IsAdmin(a) /\ class[c] = "ACTIVE" /\ s \notin gone
    /\ Enter("enroll", a, <<c, s>>, None, {}) /\ UNCHANGED schoolVars

StartClaim(k, s) ==
    /\ code[k].status = "OPEN" /\ class[code[k].class] = "ACTIVE" /\ s \notin gone
    /\ Enter("claim", k, <<code[k].class, s>>, seatLimit, {}) /\ UNCHANGED schoolVars

\* A transaction begun by an administrator takes the limit from its own snapshot.
Snapshot(r) == LET p == request[r].row
                   claim == request[r].op = "claim"
                   limit == IF claim THEN request[r].what ELSE seatLimit IN
    /\ request[r].op \in {"enroll", "claim"}
    /\ IF \/ p[2] \notin seat /\ ~Within(Cardinality(seat) + 1, limit)
          \/ claim /\ (enrolled[p] = "CURRENT" \/ class[p[1]] # "ACTIVE")
       THEN End(r)
       ELSE Proceed(r, [op |-> IF claim THEN "claim_seat" ELSE "enroll_seat",
                        user |-> request[r].user, row |-> p,
                        what |-> enrolled[p], seen |-> seat])
    /\ UNCHANGED schoolVars

\* A row another transaction has written and not committed makes this one wait.
Locked(p) == \E k \in InFlight : request[k].op = "unenroll_seat" /\ request[k].row = p

\* Mutant of Serializable: the default isolation level, and only the unique index.
AnyOrder(r) == request[r].row[2] \notin request[r].seen => request[r].row[2] \notin seat

\* No order exists for two that each counted the seats before the other took one.
Serializable(r) == request[r].row[2] \notin request[r].seen => seat \subseteq request[r].seen

\* Mutant of TakeSeat: the code is read again but not claimed.
TakeSeatUnclaimed(r) == LET p == request[r].row  k == request[r].user
                            claim == request[r].op = "claim_seat" IN
    /\ request[r].op \in {"enroll_seat", "claim_seat"} /\ ~Locked(p)
    /\ IF ~Serializable(r) \/ enrolled[p] # request[r].what THEN UNCHANGED schoolVars
       ELSE /\ seat' = IF p[2] \in request[r].seen THEN seat ELSE seat \cup {p[2]}
            /\ enrolled' = [enrolled EXCEPT ![p] = "CURRENT"]
            /\ code' = IF claim THEN [code EXCEPT ![k].uses = @ + 1] ELSE code
            /\ UNCHANGED <<seatLimit, member, class, teaching, goal, offered, gone, ceiling>>
    /\ End(r)

\* The seat, the code and the enrolment, or nothing.
TakeSeat(r) == LET p == request[r].row  k == request[r].user
                   claim == request[r].op = "claim_seat" IN
    /\ request[r].op \in {"enroll_seat", "claim_seat"} /\ ~Locked(p)
    /\ IF \/ ~Serializable(r) \/ enrolled[p] # request[r].what
          \/ claim /\ code[k].status # "OPEN"
       THEN UNCHANGED schoolVars
       ELSE /\ seat' = IF p[2] \in request[r].seen THEN seat ELSE seat \cup {p[2]}
            /\ enrolled' = [enrolled EXCEPT ![p] = "CURRENT"]
            /\ code' = IF claim THEN [code EXCEPT ![k].status = "CONSUMED", ![k].uses = @ + 1]
                       ELSE code
            /\ UNCHANGED <<seatLimit, member, class, teaching, goal, offered, gone, ceiling>>
    /\ End(r)

StartEnrolmentEnd(a, p) ==
    /\ IsAdmin(a) /\ enrolled[p] # "NONE" /\ Enter("unenroll", a, p, None, {})
    /\ UNCHANGED schoolVars

\* The other classes of the student are counted once the row is written.
CountClasses(r) == LET p == request[r].row IN
    /\ request[r].op = "unenroll" /\ ~Locked(p)
    /\ Proceed(r, [op |-> "unenroll_seat", user |-> request[r].user, row |-> p, what |-> None,
                   seen |-> {c \in Classes \ {p[1]} : enrolled[<<c, p[2]>>] = "CURRENT"}])
    /\ UNCHANGED schoolVars

EndStudentEnrollment(r) == LET p == request[r].row IN
    /\ request[r].op = "unenroll_seat"
    /\ enrolled' = [enrolled EXCEPT ![p] = "ENDED"]
    /\ seat' = IF request[r].seen = {} THEN seat \ {p[2]} ELSE seat
    /\ End(r)
    /\ UNCHANGED <<seatLimit, member, class, teaching, code, goal, offered, gone, ceiling>>

(* ---------------------- codes and the goal of a class ------------------- *)

Open(t, c) == {k \in Codes : code[k].status = "OPEN" /\ code[k].class = c /\ code[k].by = t}

StartCode(t, c) ==
    /\ Teaches(t, c) /\ Enter("code", t, c, None, Open(t, c)) /\ UNCHANGED schoolVars

\* The codes revoked are those committed when the update runs, which may be before
\* another transaction commits its own.
CreateClassInviteCode(r) == LET t == request[r].user  c == request[r].row IN
    /\ request[r].op = "code"
    /\ \E k \in Codes, old \in {request[r].seen, Open(t, c)} :
          /\ code[k].status = "NONE" /\ \A j \in Codes : j < k => code[j].status # "NONE"
          /\ code' = [j \in Codes |->
                IF j = k THEN [status |-> "OPEN", class |-> c, by |-> t, uses |-> 0]
                ELSE IF j \in old /\ code[j].status = "OPEN"
                     THEN [code[j] EXCEPT !.status = "REVOKED"] ELSE code[j]]
    /\ End(r)
    /\ UNCHANGED <<seatLimit, seat, member, class, teaching, enrolled, goal, offered, gone, ceiling>>

\* A lesson must be public when it becomes the goal, or none is named.
StartGoal(t, c, lesson) ==
    /\ Teaches(t, c) /\ lesson \in offered \cup {None}
    /\ Enter("goal", t, c, lesson, {}) /\ UNCHANGED schoolVars

UpdateClassProgressSetting(r) ==
    /\ request[r].op = "goal"
    /\ goal' = [goal EXCEPT ![request[r].row] = request[r].what]
    /\ End(r)
    /\ UNCHANGED <<seatLimit, seat, member, class, teaching, enrolled, code, offered, gone, ceiling>>

(* ------------------------- seen from other modules ---------------------- *)

\* anonymizeAccount leaves the rows of a student here as they are.
Leave(s) ==
    /\ AtOnce("leave") /\ gone' = gone \cup {s} /\ s \notin gone
    /\ UNCHANGED <<seatLimit, seat, member, class, teaching, enrolled, code, goal, offered, ceiling>>

\* An operator takes a lesson or a mission out of the public ones, or puts it back.
Offer(lessons) ==
    /\ AtOnce("offer") /\ offered' = lessons /\ offered # lessons
    /\ UNCHANGED <<seatLimit, seat, member, class, teaching, enrolled, code, goal, gone, ceiling>>
=============================================================================
