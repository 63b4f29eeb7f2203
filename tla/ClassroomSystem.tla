--------------------------- MODULE ClassroomSystem ---------------------------
(****************************************************************************)
(* An organization, its classes and their homework, over one database.      *)
(****************************************************************************)
EXTENDS ClassAssignments

Init == RequestsInit /\ SchoolInit /\ WorkInit

Management ==
    \/ \E a \in Staff, limit \in Asked.limits : StartSettings(a, limit)
    \/ \E a \in Staff, m \in Staff, role \in {"ADMIN", "INSTRUCTOR"} :
          \/ StartMember(a, m, role)
          \/ \E status \in {"ACTIVE", "SUSPENDED"} : StartMemberUpdate(a, m, role, status)
    \/ \E a \in Staff, c \in Classes :
          \/ StartClass(a, c)
          \/ \E status \in {"ACTIVE", "ARCHIVED"} : StartClassUpdate(a, c, status)
          \/ \E t \in Staff, begins \in {"FUTURE", "CURRENT", "ENDED"} :
                StartPost(a, c, t, begins)
          \/ \E t \in Staff : StartPostEnd(a, <<c, t>>)
          \/ \E s \in Students : StartEnrolment(a, c, s) \/ StartEnrolmentEnd(a, <<c, s>>)
    \/ \E k \in Codes, s \in Students : StartClaim(k, s)
    \/ \E t \in Staff, c \in Classes :
          StartCode(t, c) \/ \E l \in Lessons \cup {None} : StartGoal(t, c, l)

Teaching ==
    \/ \E t \in Staff, items \in SUBSET Lessons \ {{}}, targets \in SUBSET Students \ {{}} :
          \/ \E c \in Classes : StartDraft(t, c, items, targets)
          \/ \E h \in Homeworks : StartEdit(t, h, items, targets)
    \/ \E t \in Staff, h \in Homeworks :
          \/ StartPublication(t, h)
          \/ StartCancellation(t, h)
          \/ \E s \in Students, text \in BOOLEAN : StartComment(t, h, s, text)
          \/ \E students \in SUBSET Students \ {{}} : StartReassignment(t, h, students)

SchoolCommit(r) ==
    \/ UpdateOrganization(r)
    \/ AddMember(r)
    \/ UpdateMember(r)
    \/ CreateClass(r)
    \/ UpdateClass(r)
    \/ AssignInstructor(r)
    \/ EndInstructorAssignment(r)
    \/ Snapshot(r)
    \/ TakeSeat(r)
    \/ CountClasses(r)
    \/ EndStudentEnrollment(r)
    \/ CreateClassInviteCode(r)
    \/ UpdateClassProgressSetting(r)

WorkCommit(r) ==
    \/ Create(r)
    \/ Update(r)
    \/ Publish(r)
    \/ Cancel(r)
    \/ Comment(r)
    \/ Reassign(r)

Elsewhere ==
    \/ \E p \in Posts : PostTurns(p)
    \/ \E s \in Students : Leave(s)
    \/ \E lessons \in SUBSET Lessons : Offer(lessons)

Next ==
    \/ left > 0 /\ Management /\ UNCHANGED workVars
    \/ left > 0 /\ Teaching
    \/ \E r \in InFlight : SchoolCommit(r) /\ UNCHANGED workVars
    \/ \E r \in InFlight : WorkCommit(r)
    \/ WorkerStep
    \/ WorkerDies
    \/ Elsewhere /\ UNCHANGED workVars
    \/ \E s \in Students, l \in Lessons : Learn(s, l)
    \/ \E h \in Homeworks : TimePasses(h)

Spec == Init /\ [][Next]_vars

\* The worker scans every fifteen minutes for as long as the process runs.
FairSpec == Spec /\ WF_vars(WorkerStep)

-----------------------------------------------------------------------------
\* The rows have their types.
TypeOK == SchoolTypeOK /\ WorkTypeOK /\ RequestsTypeOK

\* Students never take more seats than the organization ever had, however enrolments by
\* an administrator, claims of codes and departures overlap.
SeatsWithinCeiling == Within(Cardinality(seat), ceiling)

\* An invite code admits one student, and none once it was revoked, even when several
\* students claim it while its instructor makes another.
CodeAdmitsOne == \A k \in Codes :
    code[k].uses <= 1 /\ (code[k].status = "REVOKED" => code[k].uses = 0)

\* A student who has not finished homework that stays published and due soon is
\* reminded, though the worker may die in the middle of its round and the homework be
\* edited meanwhile.
Unreminded(s, h) == h \in DueSoon /\ s \in homework[h].targets /\ ~Completed(s, h)
                    /\ \A v \in 0 .. homework[h].revision : <<s, "DUE_SOON", h, v>> \notin notice
DueSoonIsReminded == \A s \in Students, h \in Homeworks : []<>~Unreminded(s, h)
=============================================================================
