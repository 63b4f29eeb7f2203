------------------------ MODULE OrganizationsProofs ------------------------
(****************************************************************************)
(* The seats and the invite codes of an organization, for any number of     *)
(* students, classes, codes, requests in flight and requests in all.        *)
(*                                                                          *)
(* Neither property is inductive: a request that counted the seats may      *)
(* commit much later.  IInv adds what such a request may rely on.           *)
(****************************************************************************)
EXTENDS ClassroomSystem, FiniteSetTheorems, TLAPS

\* At most y, where y may be unlimited.
AtMost(x, y) == y = Unlimited \/ (x # Unlimited /\ x <= y)

\* What the row of a code says: used at most once, and only if it was consumed.
CodeOK(k) ==
    /\ code[k].uses <= 1
    /\ code[k].status # "CONSUMED" => code[k].uses = 0

\* What a request in flight may rely on.
ReqOK(q) ==
    /\ q.op = "settings" => q.what \in Limits
    /\ q.op = "claim" => q.what \in Limits /\ AtMost(q.what, ceiling)
    /\ q.op \in {"enroll", "claim"} => q.row[2] \in Students
    /\ q.op \in {"enroll_seat", "claim_seat"} =>
          /\ q.row[2] \in Students /\ q.seen \subseteq Students
          /\ q.row[2] \notin q.seen => Within(Cardinality(q.seen) + 1, ceiling)
    /\ q.op = "code" => q.row \in Classes /\ q.user \in Staff

\* The table of invite codes.
CodeRows == [Codes -> [status: {"NONE", "OPEN", "CONSUMED", "REVOKED"},
                       class: Classes \cup {None}, by: Staff \cup {None}, uses: Nat]]

\* The seats and their limits.
SeatInv ==
    /\ seatLimit \in Limits /\ ceiling \in Limits /\ AtMost(seatLimit, ceiling)
    /\ seat \subseteq Students
    /\ SeatsWithinCeiling

\* The codes, each used as often as its status says.
CodeInv ==
    /\ code \in CodeRows
    /\ \A k \in Codes : CodeOK(k)

\* What a request saw in its snapshot and may still rely on at its commit.
RequestInv ==
    /\ scenario \in DOMAIN Scenarios
    /\ DOMAIN request = InFlight
    /\ \A r \in InFlight : ReqOK(request[r])

\* The inductive invariant of the seats and the codes.
IInv == SeatInv /\ CodeInv /\ RequestInv

-----------------------------------------------------------------------------
\* Limits compare as numbers do, and the ceiling only rises.
LEMMA Rises == ASSUME NEW c \in Limits, NEW y \in Limits
               PROVE  /\ Higher(c, y) \in Limits
                      /\ AtMost(y, Higher(c, y))
                      /\ \A x \in Limits : AtMost(x, c) => AtMost(x, Higher(c, y))
                      /\ \A n \in Nat : Within(n, c) => Within(n, Higher(c, y))
  BY SchoolAssumption DEF Limits, Higher, AtMost, Within

\* Seats are counted: fewer students take fewer seats.
LEMMA Fewer == ASSUME NEW S \in SUBSET Students, NEW T \in SUBSET S, NEW c \in Limits,
                      Within(Cardinality(S), c)
               PROVE  Within(Cardinality(T), c)
  <1>1. IsFiniteSet(S)
    BY SchoolAssumption, FS_Subset
  <1>2. /\ Cardinality(S) \in Nat /\ Cardinality(T) \in Nat
        /\ Cardinality(T) <= Cardinality(S)
    BY <1>1, FS_Subset, FS_CardinalityType
  <1> QED
    BY <1>2, SchoolAssumption DEF Within, Limits

\* One more student than those who were counted.
LEMMA OneMore == ASSUME NEW S \in SUBSET Students, NEW T \in SUBSET S, NEW s \in Students,
                        s \notin S, NEW c \in Limits, Within(Cardinality(S) + 1, c)
                 PROVE  Within(Cardinality(T \cup {s}), c)
  <1>1. IsFiniteSet(S)
    BY SchoolAssumption, FS_Subset
  <1>2. Cardinality(S \cup {s}) = Cardinality(S) + 1
    BY <1>1, FS_AddElement
  <1> QED
    BY <1>2, Fewer

\* A room that fits below a limit fits below whatever the limit does not exceed.
LEMMA Fits == ASSUME NEW n \in Nat, NEW x \in Limits, NEW c \in Limits,
                     Within(n, x), AtMost(x, c)
              PROVE  Within(n, c)
  BY SchoolAssumption DEF Within, AtMost, Limits

\* A request that begins, where nothing else changes, may rely on what it read.
LEMMA Begun == ASSUME IInv, NEW op, NEW u, NEW row, NEW what, NEW seen,
                      Enter(op, u, row, what, seen), UNCHANGED schoolVars,
                      ReqOK([op |-> op, user |-> u, row |-> row, what |-> what, seen |-> seen])
               PROVE  IInv'
  <1> DEFINE q == [op |-> op, user |-> u, row |-> row, what |-> what, seen |-> seen]
  <1>1. PICK r \in InFlight : request' = [request EXCEPT ![r] = q]
    BY DEF Enter
  <1>2. RequestInv'
    <2>1. scenario' \in DOMAIN Scenarios /\ DOMAIN request' = InFlight
      BY <1>1 DEF IInv, RequestInv, Enter
    <2>2. ASSUME NEW k \in InFlight PROVE ReqOK(request[k])'
      <3>1. ReqOK(request'[k])
        BY <1>1 DEF IInv, RequestInv
      <3> QED
        BY <3>1 DEF ReqOK, schoolVars
    <2> QED
      BY <2>1, <2>2 DEF RequestInv
  <1>3. SeatInv' /\ CodeInv'
    BY DEF IInv, SeatInv, CodeInv, CodeOK, schoolVars, SeatsWithinCeiling
  <1> QED
    BY <1>2, <1>3 DEF IInv

\* A request goes on, to q; what the others rely on holds below a higher ceiling.
LEMMA Goes == ASSUME IInv, NEW r \in InFlight, NEW q, Proceed(r, q), ReqOK(q)',
                     ceiling' = ceiling \/ \E y \in Limits : ceiling' = Higher(ceiling, y)
              PROVE  RequestInv'
  <1>1. scenario' \in DOMAIN Scenarios /\ DOMAIN request' = InFlight
    BY DEF IInv, RequestInv, Proceed
  <1>2. ASSUME NEW k \in InFlight, k # r PROVE ReqOK(request[k])'
    <2>1. request'[k] = request[k] /\ ReqOK(request[k])
      BY <1>2 DEF IInv, RequestInv, Proceed
    <2>2. ceiling \in Limits
      BY DEF IInv, SeatInv
    <2>3. CASE ceiling' = ceiling
      BY <2>1, <2>3 DEF ReqOK
    <2>4. CASE \E y \in Limits : ceiling' = Higher(ceiling, y)
      <3>1. \A x \in Limits : AtMost(x, ceiling) => AtMost(x, ceiling')
        BY <2>2, <2>4, Rises
      <3>2. \A n \in Nat : Within(n, ceiling) => Within(n, ceiling')
        BY <2>2, <2>4, Rises
      <3>3. ASSUME request[k].seen \subseteq Students PROVE Cardinality(request[k].seen) + 1 \in Nat
        BY <3>3, SchoolAssumption, FS_Subset, FS_CardinalityType
      <3> QED
        BY <2>1, <3>1, <3>2, <3>3 DEF ReqOK
    <2> QED
      BY <2>3, <2>4
  <1>3. request'[r] = q
    BY DEF IInv, RequestInv, Proceed
  <1>4. ReqOK(request[r])'
    BY <1>3
  <1> QED
    BY <1>1, <1>2, <1>4 DEF RequestInv

\* A request that ends relies on nothing.
LEMMA Ends == ASSUME IInv, NEW r \in InFlight, End(r),
                     ceiling' = ceiling \/ \E y \in Limits : ceiling' = Higher(ceiling, y)
              PROVE  RequestInv'
  <1>1. ReqOK(NoRequest)'
    BY DEF ReqOK, NoRequest
  <1> QED
    BY <1>1, Goes DEF End

\* Nothing here changes but the requests' number.
LEMMA SchoolRests == ASSUME IInv, request' = request, scenario' = scenario,
                           UNCHANGED <<seatLimit, seat, code, ceiling>>
                    PROVE  IInv'
  BY DEF IInv, SeatInv, CodeInv, CodeOK, RequestInv, ReqOK, SeatsWithinCeiling

-----------------------------------------------------------------------------
\* The empty organization of a scenario, or one within its limit.
LEMMA Starts == ASSUME Init PROVE IInv
  <1>1. Asked.limit \in Limits /\ Asked.pupils \subseteq Pairs
        /\ Within(Cardinality({p[2] : p \in Asked.pupils}), Asked.limit)
    BY SchoolAssumption DEF Init, RequestsInit, Asked
  <1>2. SeatInv
    BY <1>1, SchoolAssumption
    DEF Init, SchoolInit, SeatInv, SeatsWithinCeiling, AtMost, Limits, Pairs
  <1>3. CodeInv
    BY DEF Init, SchoolInit, CodeInv, CodeOK, CodeRows, NoCode
  <1>4. RequestInv
    BY DEF Init, RequestsInit, RequestInv, ReqOK, NoRequest
  <1> QED
    BY <1>2, <1>3, <1>4 DEF IInv

\* Requests about the organization begin.
LEMMA Manages == ASSUME IInv, Management PROVE IInv'
  <1> USE DEF ReqOK
  <1>1. ASSUME NEW a \in Staff, NEW limit \in Asked.limits, StartSettings(a, limit) PROVE IInv'
    <2>1. limit \in Limits
      BY SchoolAssumption DEF IInv, RequestInv, Asked
    <2> QED
      BY <1>1, <2>1, Begun DEF StartSettings
  <1>2. ASSUME NEW a, NEW m, NEW role, StartMember(a, m, role) PROVE IInv'
    BY <1>2, Begun DEF StartMember
  <1>3. ASSUME NEW a, NEW m, NEW role, NEW status, StartMemberUpdate(a, m, role, status)
        PROVE  IInv'
    BY <1>3, Begun DEF StartMemberUpdate
  <1>4. ASSUME NEW a, NEW c, StartClass(a, c) PROVE IInv'
    BY <1>4, Begun DEF StartClass
  <1>5. ASSUME NEW a, NEW c, NEW status, StartClassUpdate(a, c, status) PROVE IInv'
    BY <1>5, Begun DEF StartClassUpdate
  <1>6. ASSUME NEW a, NEW c, NEW t, NEW begins, StartPost(a, c, t, begins) PROVE IInv'
    BY <1>6, Begun DEF StartPost
  <1>7. ASSUME NEW a, NEW p, StartPostEnd(a, p) PROVE IInv'
    BY <1>7, Begun DEF StartPostEnd
  <1>8. ASSUME NEW a, NEW c, NEW s \in Students, StartEnrolment(a, c, s) PROVE IInv'
    BY <1>8, Begun DEF StartEnrolment
  <1>9. ASSUME NEW a, NEW p, StartEnrolmentEnd(a, p) PROVE IInv'
    BY <1>9, Begun DEF StartEnrolmentEnd
  <1>10. ASSUME NEW k, NEW s \in Students, StartClaim(k, s) PROVE IInv'
    <2>1. seatLimit \in Limits /\ AtMost(seatLimit, ceiling)
      BY DEF IInv, SeatInv
    <2> QED
      BY <1>10, <2>1, Begun DEF StartClaim
  <1>11. ASSUME NEW t \in Staff, NEW c \in Classes, StartCode(t, c) PROVE IInv'
    BY <1>11, Begun DEF StartCode
  <1>12. ASSUME NEW t, NEW c, NEW l, StartGoal(t, c, l) PROVE IInv'
    BY <1>12, Begun DEF StartGoal
  <1> QED
    BY <1>1, <1>2, <1>3, <1>4, <1>5, <1>6, <1>7, <1>8, <1>9, <1>10, <1>11, <1>12
    DEF Management

\* Requests about homework begin; they rely on nothing here.
LEMMA Sets == ASSUME IInv, Teaching PROVE IInv'
  <1>1. ASSUME NEW op, NEW t, NEW row, NEW what, NEW seen, Ask(op, t, row, what, seen),
               op \in {"draft", "edit", "publish", "cancel", "comment", "reassign"}
        PROVE  IInv'
    <2>1. ReqOK([op |-> op, user |-> t, row |-> row, what |-> what, seen |-> seen])
      BY <1>1 DEF ReqOK
    <2> QED
      BY <1>1, <2>1, Begun DEF Ask
  <1>2. ASSUME NEW t, NEW c, NEW items, NEW targets, StartDraft(t, c, items, targets) PROVE IInv'
    BY <1>1, <1>2 DEF StartDraft
  <1>3. ASSUME NEW t, NEW h, NEW items, NEW targets, StartEdit(t, h, items, targets) PROVE IInv'
    BY <1>1, <1>3 DEF StartEdit
  <1>4. ASSUME NEW t, NEW h, StartPublication(t, h) PROVE IInv'
    BY <1>1, <1>4 DEF StartPublication
  <1>5. ASSUME NEW t, NEW h, StartCancellation(t, h) PROVE IInv'
    BY <1>1, <1>5 DEF StartCancellation
  <1>6. ASSUME NEW t, NEW h, NEW s, NEW text, StartComment(t, h, s, text) PROVE IInv'
    BY <1>1, <1>6 DEF StartComment
  <1>7. ASSUME NEW t, NEW h, NEW students, StartReassignment(t, h, students) PROVE IInv'
    BY <1>1, <1>7 DEF StartReassignment
  <1> QED
    BY <1>2, <1>3, <1>4, <1>5, <1>6, <1>7 DEF Teaching

-----------------------------------------------------------------------------
\* The end of a request that leaves limit, seats and codes alone.
LEMMA EndsQuietly == ASSUME IInv, NEW r \in InFlight, End(r),
                            UNCHANGED <<seatLimit, seat, code, ceiling>>
                     PROVE  IInv'
  <1>1. RequestInv'
    BY Ends
  <1>2. SeatInv' /\ CodeInv'
    BY DEF IInv, SeatInv, CodeInv, CodeOK, SeatsWithinCeiling
  <1> QED
    BY <1>1, <1>2 DEF IInv

\* The end of a request that gives seats back.
LEMMA EndsWithFewer == ASSUME IInv, NEW r \in InFlight, End(r), seat' \subseteq seat,
                              UNCHANGED <<seatLimit, code, ceiling>>
                       PROVE  IInv'
  <1>1. RequestInv'
    BY Ends
  <1>2. SeatInv'
    BY Fewer DEF IInv, SeatInv, SeatsWithinCeiling
  <1>3. CodeInv'
    BY DEF IInv, CodeInv, CodeOK
  <1> QED
    BY <1>1, <1>2, <1>3 DEF IInv

\* A new limit: it may lie below the seats in use, never above the ceiling.
LEMMA Settings == ASSUME IInv, NEW r \in InFlight, UpdateOrganization(r) PROVE IInv'
  <1>1. seatLimit' \in Limits /\ ceiling' = Higher(ceiling, seatLimit') /\ End(r)
    BY DEF UpdateOrganization, IInv, RequestInv, ReqOK
  <1>2. RequestInv'
    BY <1>1, Ends
  <1>3. SeatInv'
    <2>1. Cardinality(seat) \in Nat
      BY SchoolAssumption, FS_Subset, FS_CardinalityType DEF IInv, SeatInv
    <2>2. UNCHANGED seat
      BY DEF UpdateOrganization
    <2> QED
      BY <1>1, <2>1, <2>2, Rises DEF IInv, SeatInv, SeatsWithinCeiling
  <1>4. CodeInv'
    BY DEF UpdateOrganization, IInv, CodeInv, CodeOK
  <1> QED
    BY <1>2, <1>3, <1>4 DEF IInv

\* The snapshot of an enrolment finds room, below a limit of now or of before.
LEMMA Counts == ASSUME IInv, NEW r \in InFlight, Snapshot(r) PROVE IInv'
  <1> DEFINE p == request[r].row
             claim == request[r].op = "claim"
             limit == IF claim THEN request[r].what ELSE seatLimit
             q == [op |-> IF claim THEN "claim_seat" ELSE "enroll_seat",
                   user |-> request[r].user, row |-> p, what |-> enrolled[p], seen |-> seat]
  <1>1. request[r].op \in {"enroll", "claim"} /\ UNCHANGED schoolVars /\ ReqOK(request[r])
    BY DEF Snapshot, IInv, RequestInv
  <1>2. CASE End(r)
    BY <1>1, <1>2, EndsQuietly DEF schoolVars
  <1>3. CASE Proceed(r, q) /\ ~(p[2] \notin seat /\ ~Within(Cardinality(seat) + 1, limit))
    <2>1. limit \in Limits /\ AtMost(limit, ceiling) /\ ceiling \in Limits
      BY <1>1 DEF IInv, SeatInv, ReqOK
    <2>2. Cardinality(seat) + 1 \in Nat
      BY SchoolAssumption, FS_Subset, FS_CardinalityType DEF IInv, SeatInv
    <2>3. p[2] \notin seat => Within(Cardinality(seat) + 1, ceiling)
      BY <1>3, <2>1, <2>2, Fits
    <2>4. p[2] \in Students /\ seat \subseteq Students
      BY <1>1 DEF IInv, SeatInv, ReqOK
    <2>5. ceiling' = ceiling
      BY <1>1 DEF schoolVars
    <2>6. PICK v : v = q
      OBVIOUS
    <2>7. ReqOK(v)'
      <3>1. ReqOK(v)
        BY <2>3, <2>4, <2>6 DEF ReqOK
      <3> QED
        BY <3>1, <2>5 DEF ReqOK
    <2>8. Proceed(r, v)
      BY <1>3, <2>6
    <2>9. RequestInv'
      BY <2>5, <2>7, <2>8, Goes
    <2> QED
      BY <1>1, <2>9 DEF IInv, SeatInv, CodeInv, CodeOK, schoolVars, SeatsWithinCeiling
  <1> QED
    BY <1>2, <1>3 DEF Snapshot

\* The commit of an enrolment: no seat was taken since they were counted, no other
\* request consumed the code.
LEMMA Seats == ASSUME IInv, NEW r \in InFlight, TakeSeat(r) PROVE IInv'
  <1> DEFINE p == request[r].row
             k == request[r].user
  <1>1. End(r) /\ ReqOK(request[r]) /\ request[r].op \in {"enroll_seat", "claim_seat"}
    BY DEF TakeSeat, IInv, RequestInv
  <1>2. CASE UNCHANGED schoolVars
    BY <1>1, <1>2, EndsQuietly DEF schoolVars
  <1>3. CASE ~UNCHANGED schoolVars
    <2>1. /\ Serializable(r) /\ UNCHANGED <<seatLimit, ceiling>>
          /\ seat' = IF p[2] \in request[r].seen THEN seat ELSE seat \cup {p[2]}
          /\ code' = IF request[r].op = "claim_seat"
                     THEN [code EXCEPT ![k].status = "CONSUMED", ![k].uses = @ + 1] ELSE code
          /\ request[r].op = "claim_seat" => code[k].status = "OPEN"
      BY <1>3 DEF TakeSeat
    <2>2. RequestInv'
      BY <1>1, <2>1, Ends
    <2>3. SeatInv'
      <3>1. CASE p[2] \in request[r].seen
        BY <2>1, <3>1 DEF IInv, SeatInv, SeatsWithinCeiling
      <3>2. CASE p[2] \notin request[r].seen
        <4>1. seat \subseteq request[r].seen /\ seat' = seat \cup {p[2]}
          BY <2>1, <3>2 DEF Serializable
        <4>2. /\ p[2] \in Students /\ request[r].seen \subseteq Students
              /\ Within(Cardinality(request[r].seen) + 1, ceiling)
          BY <1>1, <3>2 DEF ReqOK
        <4>3. Within(Cardinality(seat'), ceiling)
          BY <3>2, <4>1, <4>2, OneMore DEF IInv, SeatInv
        <4> QED
          BY <2>1, <4>1, <4>2, <4>3 DEF IInv, SeatInv, SeatsWithinCeiling
      <3> QED
        BY <3>1, <3>2
    <2>4. CodeInv'
      <3>1. CASE code' = code
        BY <3>1 DEF IInv, CodeInv, CodeOK
      <3>2. CASE /\ code' = [code EXCEPT ![k].status = "CONSUMED", ![k].uses = @ + 1]
                 /\ k \in Codes /\ code[k].status = "OPEN"
        <4>1. code \in CodeRows /\ code[k].uses = 0 /\ \A j \in Codes : CodeOK(j)
          BY <3>2 DEF IInv, CodeInv, CodeOK
        <4>2. code' \in CodeRows
          BY <3>2, <4>1 DEF CodeRows
        <4>3. code'[k].uses = 1 /\ code'[k].status = "CONSUMED"
              /\ \A j \in Codes \ {k} : code'[j] = code[j]
          BY <3>2, <4>1 DEF CodeRows
        <4> QED
          BY <4>1, <4>2, <4>3 DEF CodeInv, CodeOK
      <3>3. k \notin Codes /\ request[r].op = "claim_seat" => code' = code
        BY <2>1 DEF IInv, CodeInv, CodeRows
      <3> QED
        BY <2>1, <3>1, <3>2, <3>3
    <2> QED
      BY <2>2, <2>3, <2>4 DEF IInv
  <1> QED
    BY <1>2, <1>3

\* A new code; those of the instructor that are still open are revoked.
LEMMA Invites == ASSUME IInv, NEW r \in InFlight, CreateClassInviteCode(r) PROVE IInv'
  <1>1. End(r) /\ ReqOK(request[r]) /\ request[r].op = "code"
        /\ UNCHANGED <<seatLimit, seat, ceiling>>
    BY DEF CreateClassInviteCode, IInv, RequestInv
  <1>2. RequestInv'
    BY <1>1, Ends
  <1>3. SeatInv'
    BY <1>1 DEF IInv, SeatInv, SeatsWithinCeiling
  <1>4. CodeInv'
    <2> DEFINE new == [status |-> "OPEN", class |-> request[r].row, by |-> request[r].user,
                       uses |-> 0]
    <2>1. PICK k \in Codes, old \in {request[r].seen, Open(request[r].user, request[r].row)} :
             code' = [j \in Codes |->
               IF j = k THEN new
               ELSE IF j \in old /\ code[j].status = "OPEN"
                    THEN [code[j] EXCEPT !.status = "REVOKED"] ELSE code[j]]
      BY DEF CreateClassInviteCode
    <2>2. code \in CodeRows /\ \A j \in Codes : CodeOK(j)
      BY DEF IInv, CodeInv
    <2>3. request[r].row \in Classes /\ request[r].user \in Staff
      BY <1>1 DEF ReqOK
    <2>4. code' \in CodeRows
      BY <2>1, <2>2, <2>3 DEF CodeRows
    <2>5. ASSUME NEW j \in Codes PROVE CodeOK(j)'
      <3>1. code'[j] \in {new, [code[j] EXCEPT !.status = "REVOKED"], code[j]}
            /\ (code'[j] = [code[j] EXCEPT !.status = "REVOKED"] /\ code'[j] # new
                 /\ code'[j] # code[j] => code[j].status = "OPEN")
        BY <2>1
      <3>2. code[j].uses <= 1 /\ (code[j].status # "CONSUMED" => code[j].uses = 0)
            /\ code[j] \in [status: {"NONE", "OPEN", "CONSUMED", "REVOKED"},
                       class: Classes \cup {None}, by: Staff \cup {None}, uses: Nat]
        BY <2>2 DEF CodeOK, CodeRows
      <3> QED
        BY <3>1, <3>2 DEF CodeOK
    <2> QED
      BY <2>4, <2>5 DEF CodeInv
  <1> QED
    BY <1>2, <1>3, <1>4 DEF IInv

-----------------------------------------------------------------------------
\* What is committed about the organization.
LEMMA CommitsSchool == ASSUME IInv, NEW r \in InFlight, SchoolCommit(r) PROVE IInv'
  <1>1. CASE UpdateOrganization(r)
    BY <1>1, Settings
  <1>2. CASE AddMember(r)
    BY <1>2, EndsQuietly DEF AddMember
  <1>3. CASE UpdateMember(r)
    BY <1>3, EndsQuietly DEF UpdateMember
  <1>4. CASE CreateClass(r)
    BY <1>4, EndsQuietly DEF CreateClass
  <1>5. CASE UpdateClass(r)
    <2>1. End(r) /\ UNCHANGED <<seatLimit, code, ceiling>> /\ seat' \subseteq seat
      BY <1>5 DEF UpdateClass
    <2> QED
      BY <2>1, EndsWithFewer
  <1>6. CASE AssignInstructor(r)
    BY <1>6, EndsQuietly DEF AssignInstructor
  <1>7. CASE EndInstructorAssignment(r)
    BY <1>7, EndsQuietly DEF EndInstructorAssignment
  <1>8. CASE Snapshot(r)
    BY <1>8, Counts
  <1>9. CASE TakeSeat(r)
    BY <1>9, Seats
  <1>10. CASE CountClasses(r)
    <2>1. PICK q : Proceed(r, q) /\ q.op = "unenroll_seat"
      BY <1>10 DEF CountClasses
    <2>2. UNCHANGED schoolVars /\ ReqOK(q)'
      BY <1>10, <2>1 DEF CountClasses, ReqOK
    <2>3. RequestInv'
      BY <2>1, <2>2, Goes DEF schoolVars
    <2> QED
      BY <2>2, <2>3 DEF IInv, SeatInv, CodeInv, CodeOK, schoolVars, SeatsWithinCeiling
  <1>11. CASE EndStudentEnrollment(r)
    <2>1. End(r) /\ UNCHANGED <<seatLimit, code, ceiling>> /\ seat' \subseteq seat
      BY <1>11 DEF EndStudentEnrollment
    <2> QED
      BY <2>1, EndsWithFewer
  <1>12. CASE CreateClassInviteCode(r)
    BY <1>12, Invites
  <1>13. CASE UpdateClassProgressSetting(r)
    BY <1>13, EndsQuietly DEF UpdateClassProgressSetting
  <1> QED
    BY <1>1, <1>2, <1>3, <1>4, <1>5, <1>6, <1>7, <1>8, <1>9, <1>10, <1>11, <1>12, <1>13
    DEF SchoolCommit

\* What is committed about homework leaves the organization as it is.
LEMMA CommitsWork == ASSUME IInv, NEW r \in InFlight, WorkCommit(r) PROVE IInv'
  <1>1. End(r) /\ UNCHANGED schoolVars
    BY ZenonT(60) DEF WorkCommit, Create, Update, Publish, Cancel, Comment, Reassign, Turndown
  <1> QED
    BY SMTT(60), <1>1, EndsQuietly DEF schoolVars

\* Every step keeps the invariant.
LEMMA Steps == ASSUME IInv, [Next]_vars PROVE IInv'
  <1>1. CASE Management
    BY <1>1, Manages
  <1>2. CASE Teaching
    BY <1>2, Sets
  <1>3. ASSUME NEW r \in InFlight, SchoolCommit(r) PROVE IInv'
    BY <1>3, CommitsSchool
  <1>4. ASSUME NEW r \in InFlight, WorkCommit(r) PROVE IInv'
    BY <1>4, CommitsWork
  <1>5. CASE WorkerStep \/ WorkerDies
    <2>1. UNCHANGED <<request, scenario, schoolVars>>
      BY <1>5 DEF WorkerStep, Scan, Remind, WorkerDies, requestVars
    <2> QED
      BY <2>1, SchoolRests DEF schoolVars
  <1>6. CASE Elsewhere
    BY <1>6, SchoolRests DEF Elsewhere, PostTurns, Leave, Offer, AtOnce
  <1>7. ASSUME NEW s, NEW l, Learn(s, l) PROVE IInv'
    BY <1>7, SchoolRests DEF Learn, AtOnce, schoolVars
  <1>8. ASSUME NEW h, TimePasses(h) PROVE IInv'
    BY <1>8, SchoolRests DEF TimePasses, AtOnce, schoolVars
  <1>9. CASE UNCHANGED vars
    BY <1>9, SchoolRests DEF vars, schoolVars, requestVars
  <1> QED
    BY <1>1, <1>2, <1>3, <1>4, <1>5, <1>6, <1>7, <1>8, <1>9 DEF Next

\* IInv is an invariant.
LEMMA Invariant == Spec => []IInv
  BY Starts, Steps, PTL DEF Spec

\* However enrolments, claims, departures and changes of the limit overlap, students
\* never take more seats than the organization ever had.
THEOREM SeatsAreBounded == Spec => []SeatsWithinCeiling
  <1>1. IInv => SeatsWithinCeiling
    BY DEF IInv, SeatInv
  <1> QED
    BY <1>1, Invariant, PTL

\* A code admits one student at most, and none after it was revoked: a claim commits on
\* the condition that the code is still open.
THEOREM CodesAdmitOne == Spec => []CodeAdmitsOne
  <1>1. IInv => CodeAdmitsOne
    BY DEF IInv, CodeInv, CodeOK, CodeAdmitsOne
  <1> QED
    BY <1>1, Invariant, PTL

-----------------------------------------------------------------------------
(* The rows have their types: what a request carries from its reads to its  *)
(* commit, and the revisions of homework.                                   *)

\* Homework that was made has a revision, and so has what is announced of it.
HomeworkInv ==
    /\ \A h \in Homeworks : homework[h].status # "NONE" => homework[h].revision # 0
    /\ reminding \subseteq Students \X {"DUE_SOON"} \X Homeworks \X (Nat \ {0})

\* What a request in flight will write.
Carries(q) ==
    /\ q.op = "add_member" => q.what \in {"ADMIN", "INSTRUCTOR"}
    /\ q.op = "update_member" => q.what \in [role : {"ADMIN", "INSTRUCTOR"},
                                             status : {"ACTIVE", "SUSPENDED"}]
    /\ q.op = "update_class" => q.what \in {"ACTIVE", "ARCHIVED"}
    /\ q.op = "assign" => q.what \in {"FUTURE", "CURRENT", "ENDED"}
    /\ q.op = "goal" => q.what \in Lessons \cup {None}
    /\ q.op \in {"draft", "edit", "reassign"} =>
          q.what.items \subseteq Lessons /\ q.what.targets \subseteq Students
    /\ q.op = "draft" => q.row \in Classes
    /\ q.op \in {"publish", "cancel", "comment", "reassign"} =>
          q.row \in Homeworks /\ homework[q.row].status # "NONE"
    /\ q.op = "comment" => q.what.student \in Students

\* The inductive invariant of the types, on top of IInv.
TypeInv ==
    /\ TypeOK
    /\ HomeworkInv
    /\ \A r \in InFlight : Carries(request[r])

\* The rows of the organization that IInv says nothing about.
PlaceRows ==
    /\ gone \subseteq Students /\ offered \subseteq Lessons
    /\ member \in [Staff -> [role: {"NONE", "ADMIN", "INSTRUCTOR"},
                             status: {"NONE", "ACTIVE", "SUSPENDED"}]]
    /\ class \in [Classes -> {"NONE", "ACTIVE", "ARCHIVED"}]
    /\ teaching \in [Posts -> {"NONE", "FUTURE", "CURRENT", "ENDED"}]
    /\ enrolled \in [Pairs -> {"NONE", "CURRENT", "ENDED"}]
    /\ goal \in [Classes -> Lessons \cup {None}]

\* Homework stays made.
HomeworkStays ==
    \A h \in Homeworks : homework[h].status # "NONE" => homework'[h].status # "NONE"

\* The parts of the type invariant, now and after a step.
LEMMA Parts == IInv => (TypeInv <=> /\ PlaceRows /\ WorkTypeOK /\ RequestsTypeOK
                                    /\ HomeworkInv
                                    /\ \A r \in InFlight : Carries(request[r]))
  BY DEF IInv, SeatInv, CodeInv, CodeRows, TypeInv, TypeOK, SchoolTypeOK, PlaceRows

LEMMA PartsNext == IInv' /\ PlaceRows' /\ WorkTypeOK' /\ RequestsTypeOK' /\ HomeworkInv'
                     /\ (\A r \in InFlight : Carries(request[r])') => TypeInv'
  BY DEF IInv, SeatInv, CodeInv, CodeRows, TypeInv, TypeOK, SchoolTypeOK, PlaceRows

\* What a request carries stays good as long as homework stays made.
LEMMA CarriesOn == ASSUME HomeworkStays, NEW q, Carries(q) PROVE Carries(q)'
  BY DEF HomeworkStays, Carries

\* A request begins, and nothing else happens.
LEMMA BegunTyped ==
    ASSUME IInv, TypeInv, IInv', NEW op, NEW u, NEW row, NEW what, NEW seen,
           Enter(op, u, row, what, seen), UNCHANGED <<schoolVars, workVars>>,
           Carries([op |-> op, user |-> u, row |-> row, what |-> what, seen |-> seen])
    PROVE  TypeInv'
  <1> DEFINE q == [op |-> op, user |-> u, row |-> row, what |-> what, seen |-> seen]
  <1>1. PICK r \in InFlight : request' = [request EXCEPT ![r] = q]
    BY DEF Enter
  <1>2. RequestsTypeOK'
    BY <1>1 DEF TypeInv, TypeOK, RequestsTypeOK, Enter
  <1>3. HomeworkStays
    BY DEF HomeworkStays, workVars
  <1>4. ASSUME NEW k \in InFlight PROVE Carries(request[k])'
    <2>1. request'[k] = IF k = r THEN q ELSE request[k]
      BY <1>1 DEF TypeInv, TypeOK, RequestsTypeOK
    <2>2. PICK v : v = request'[k]
      OBVIOUS
    <2>3. Carries(v)
      BY <2>1, <2>2 DEF TypeInv
    <2>4. Carries(v)'
      BY <1>3, <2>3, CarriesOn
    <2> QED
      BY <2>2, <2>4 DEF Carries
  <1>5. (PlaceRows /\ WorkTypeOK /\ HomeworkInv)'
    BY Parts DEF PlaceRows, WorkTypeOK, HomeworkInv, schoolVars, workVars
  <1> QED
    BY <1>2, <1>4, <1>5, PartsNext

\* A request goes on to q, or ends.
LEMMA GoesTyped ==
    ASSUME IInv, TypeInv, NEW r \in InFlight, NEW q, Proceed(r, q), Carries(q), HomeworkStays
    PROVE  RequestsTypeOK' /\ \A k \in InFlight : Carries(request[k])'
  <1>1. RequestsTypeOK'
    BY DEF TypeInv, TypeOK, RequestsTypeOK, Proceed
  <1>2. ASSUME NEW k \in InFlight PROVE Carries(request[k])'
    <2>1. request'[k] = IF k = r THEN q ELSE request[k]
      BY DEF TypeInv, TypeOK, RequestsTypeOK, Proceed
    <2>2. PICK v : v = request'[k]
      OBVIOUS
    <2>3. Carries(v)
      BY <2>1, <2>2 DEF TypeInv
    <2>4. Carries(v)'
      BY <2>3, CarriesOn
    <2> QED
      BY <2>2, <2>4 DEF Carries
  <1> QED
    BY <1>1, <1>2

\* A request ends, and carries nothing.
LEMMA EndsTyped ==
    ASSUME IInv, TypeInv, NEW r \in InFlight, End(r), HomeworkStays
    PROVE  RequestsTypeOK' /\ \A k \in InFlight : Carries(request[k])'
  <1>1. Carries(NoRequest)
    BY DEF Carries, NoRequest
  <1> QED
    BY <1>1, GoesTyped DEF End

\* The end of a request that wrote rows of the organization.
LEMMA EndsSchoolTyped ==
    ASSUME IInv, TypeInv, IInv', NEW r \in InFlight, End(r), UNCHANGED workVars, PlaceRows'
    PROVE  TypeInv'
  <1>1. HomeworkStays
    BY DEF HomeworkStays, workVars
  <1>2. (WorkTypeOK /\ HomeworkInv)'
    BY DEF TypeInv, TypeOK, WorkTypeOK, HomeworkInv, workVars
  <1> QED
    BY <1>1, <1>2, EndsTyped, PartsNext

\* The end of a request that wrote rows of the homework.
LEMMA EndsWorkTyped ==
    ASSUME IInv, TypeInv, IInv', NEW r \in InFlight, End(r), UNCHANGED schoolVars,
           HomeworkStays, WorkTypeOK', HomeworkInv'
    PROVE  TypeInv'
  <1>1. PlaceRows'
    BY Parts DEF PlaceRows, schoolVars
  <1> QED
    BY <1>1, EndsTyped, PartsNext

\* No request moves.
LEMMA RestsTyped ==
    ASSUME IInv, TypeInv, IInv', request' = request, scenario' = scenario, left' \in Nat,
           PlaceRows', WorkTypeOK', HomeworkInv', HomeworkStays
    PROVE  TypeInv'
  <1>1. RequestsTypeOK'
    BY DEF TypeInv, TypeOK, RequestsTypeOK
  <1>2. ASSUME NEW k \in InFlight PROVE Carries(request[k])'
    BY CarriesOn DEF TypeInv, Carries
  <1> QED
    BY <1>1, <1>2, PartsNext

-----------------------------------------------------------------------------
\* The rows of a scenario are of their types.
LEMMA StartsTyped == ASSUME Init PROVE TypeInv
  <1>1. IInv
    BY Starts
  <1>2. Asked \in {Scenarios[c] : c \in DOMAIN Scenarios}
    BY DEF Init, RequestsInit, Asked
  <1>3. /\ Asked.requests \in Nat
        /\ \A m \in DOMAIN Asked.staff : Asked.staff[m] \in {"ADMIN", "INSTRUCTOR"}
    BY <1>2, SchoolAssumption
  <1>4. PlaceRows
    BY <1>3 DEF Init, SchoolInit, PlaceRows, NoMember
  <1>5. WorkTypeOK /\ HomeworkInv
    BY WorkAssumption DEF Init, WorkInit, WorkTypeOK, HomeworkInv, NoHomework
  <1>6. RequestsTypeOK /\ \A r \in InFlight : Carries(request[r])
    BY <1>3 DEF Init, RequestsInit, RequestsTypeOK, Carries, NoRequest
  <1> QED
    BY <1>1, <1>4, <1>5, <1>6, Parts

\* Requests about the organization begin.
LEMMA ManagesTyped ==
    ASSUME IInv, TypeInv, IInv', Management, UNCHANGED workVars
    PROVE  TypeInv'
  <1> USE DEF Carries
  <1>1. ASSUME NEW a, NEW limit, StartSettings(a, limit) PROVE TypeInv'
    BY <1>1, BegunTyped DEF StartSettings
  <1>2. ASSUME NEW a, NEW m, NEW role \in {"ADMIN", "INSTRUCTOR"}, StartMember(a, m, role)
        PROVE  TypeInv'
    BY <1>2, BegunTyped DEF StartMember
  <1>3. ASSUME NEW a, NEW m, NEW role \in {"ADMIN", "INSTRUCTOR"},
               NEW status \in {"ACTIVE", "SUSPENDED"}, StartMemberUpdate(a, m, role, status)
        PROVE  TypeInv'
    BY <1>3, BegunTyped DEF StartMemberUpdate
  <1>4. ASSUME NEW a, NEW c, StartClass(a, c) PROVE TypeInv'
    BY <1>4, BegunTyped DEF StartClass
  <1>5. ASSUME NEW a, NEW c, NEW status \in {"ACTIVE", "ARCHIVED"},
               StartClassUpdate(a, c, status)
        PROVE  TypeInv'
    BY <1>5, BegunTyped DEF StartClassUpdate
  <1>6. ASSUME NEW a, NEW c, NEW t, NEW begins \in {"FUTURE", "CURRENT", "ENDED"},
               StartPost(a, c, t, begins)
        PROVE  TypeInv'
    BY <1>6, BegunTyped DEF StartPost
  <1>7. ASSUME NEW a, NEW p, StartPostEnd(a, p) PROVE TypeInv'
    BY <1>7, BegunTyped DEF StartPostEnd
  <1>8. ASSUME NEW a, NEW c, NEW s, StartEnrolment(a, c, s) PROVE TypeInv'
    BY <1>8, BegunTyped DEF StartEnrolment
  <1>9. ASSUME NEW a, NEW p, StartEnrolmentEnd(a, p) PROVE TypeInv'
    BY <1>9, BegunTyped DEF StartEnrolmentEnd
  <1>10. ASSUME NEW k, NEW s, StartClaim(k, s) PROVE TypeInv'
    BY <1>10, BegunTyped DEF StartClaim
  <1>11. ASSUME NEW t, NEW c, StartCode(t, c) PROVE TypeInv'
    BY <1>11, BegunTyped DEF StartCode
  <1>12. ASSUME NEW t, NEW c, NEW l \in Lessons \cup {None}, StartGoal(t, c, l) PROVE TypeInv'
    BY <1>12, BegunTyped DEF StartGoal
  <1> QED
    BY <1>1, <1>2, <1>3, <1>4, <1>5, <1>6, <1>7, <1>8, <1>9, <1>10, <1>11, <1>12
    DEF Management

\* Requests about homework begin.
LEMMA SetsTyped ==
    ASSUME IInv, TypeInv, IInv', Teaching
    PROVE  TypeInv'
  <1> USE DEF Carries
  <1>1. ASSUME NEW t, NEW c \in Classes, NEW items \in SUBSET Lessons,
               NEW targets \in SUBSET Students, StartDraft(t, c, items, targets)
        PROVE  TypeInv'
    BY <1>1, BegunTyped DEF StartDraft, Ask
  <1>2. ASSUME NEW t, NEW h, NEW items \in SUBSET Lessons,
               NEW targets \in SUBSET Students, StartEdit(t, h, items, targets)
        PROVE  TypeInv'
    BY <1>2, BegunTyped DEF StartEdit, Ask
  <1>3. ASSUME NEW t, NEW h \in Homeworks, StartPublication(t, h) PROVE TypeInv'
    BY <1>3, BegunTyped DEF StartPublication, Ask, Teacher
  <1>4. ASSUME NEW t, NEW h \in Homeworks, StartCancellation(t, h) PROVE TypeInv'
    BY <1>4, BegunTyped DEF StartCancellation, Ask, Teacher
  <1>5. ASSUME NEW t, NEW h \in Homeworks, NEW s \in Students, NEW text,
               StartComment(t, h, s, text)
        PROVE  TypeInv'
    BY <1>5, BegunTyped DEF StartComment, Ask, Teacher
  <1>6. ASSUME NEW t, NEW h \in Homeworks, NEW students \in SUBSET Students,
               StartReassignment(t, h, students)
        PROVE  TypeInv'
    <2>1. PICK items \in SUBSET Lessons : items = homework[h].items
      BY DEF TypeInv, TypeOK, WorkTypeOK
    <2> QED
      BY <1>6, <2>1, BegunTyped DEF StartReassignment, Ask, Teacher
  <1> QED
    BY <1>1, <1>2, <1>3, <1>4, <1>5, <1>6 DEF Teaching

\* A row replaced under a key, which may be none of the table's.
LEMMA Replaced == ASSUME NEW S, NEW T, NEW f \in [S -> T], NEW x, NEW v \in T
                  PROVE  [f EXCEPT ![x] = v] \in [S -> T]
  OBVIOUS

\* What is committed about the organization.
LEMMA CommitsSchoolTyped ==
    ASSUME IInv, TypeInv, IInv', NEW r \in InFlight, SchoolCommit(r), UNCHANGED workVars
    PROVE  TypeInv'
  <1> DEFINE q == request[r]
  <1>1. PlaceRows /\ Carries(q)
    BY Parts
  <1>2. \A ps : EndPosts(ps) \in [Posts -> {"NONE", "FUTURE", "CURRENT", "ENDED"}]
    BY <1>1 DEF PlaceRows, EndPosts
  <1>3. CASE UpdateOrganization(r)
    BY <1>1, <1>3, EndsSchoolTyped DEF UpdateOrganization, PlaceRows
  <1>4. CASE AddMember(r)
    <2>1. PICK v : v = q.row
      OBVIOUS
    <2>2. PICK role \in {"ADMIN", "INSTRUCTOR"} : role = q.what
      BY <1>1, <1>4 DEF AddMember, Carries
    <2>3. member' = [member EXCEPT ![v] = [role |-> role, status |-> "ACTIVE"]]
      BY <1>4, <2>1, <2>2 DEF AddMember
    <2>4. member' \in [Staff -> [role: {"NONE", "ADMIN", "INSTRUCTOR"},
                                status: {"NONE", "ACTIVE", "SUSPENDED"}]]
      <3>1. [role |-> role, status |-> "ACTIVE"]
              \in [role: {"NONE", "ADMIN", "INSTRUCTOR"},
                   status: {"NONE", "ACTIVE", "SUSPENDED"}]
        OBVIOUS
      <3> QED
        BY <1>1, <2>3, <3>1, Replaced DEF PlaceRows
    <2>5. PlaceRows'
      BY <1>1, <1>4, <2>4 DEF AddMember, PlaceRows
    <2> QED
      BY <1>4, <2>5, EndsSchoolTyped DEF AddMember
  <1>5. CASE UpdateMember(r)
    <2>1. PICK v, w : v = q.row /\ w = q.what
      OBVIOUS
    <2>2. w \in [role : {"ADMIN", "INSTRUCTOR"}, status : {"ACTIVE", "SUSPENDED"}]
      BY <1>1, <1>5, <2>1 DEF UpdateMember, Carries
    <2>3. member' = [member EXCEPT ![v] = w]
      BY <1>5, <2>1 DEF UpdateMember
    <2>4. teaching' \in [Posts -> {"NONE", "FUTURE", "CURRENT", "ENDED"}]
      BY <1>1, <1>2, <1>5 DEF UpdateMember, PlaceRows
    <2>5. member' \in [Staff -> [role: {"NONE", "ADMIN", "INSTRUCTOR"},
                                status: {"NONE", "ACTIVE", "SUSPENDED"}]]
      <3>1. w \in [role: {"NONE", "ADMIN", "INSTRUCTOR"},
                   status: {"NONE", "ACTIVE", "SUSPENDED"}]
        BY <2>2
      <3> QED
        BY <1>1, <2>3, <3>1, Replaced DEF PlaceRows
    <2>6. PlaceRows'
      BY <1>1, <1>5, <2>4, <2>5 DEF UpdateMember, PlaceRows
    <2> QED
      BY <1>5, <2>6, EndsSchoolTyped DEF UpdateMember
  <1>6. CASE CreateClass(r)
    <2>1. PICK c : c = q.row
      OBVIOUS
    <2>2. class' = [class EXCEPT ![c] = "ACTIVE"] \/ class' = class
      BY <1>6, <2>1 DEF CreateClass
    <2> QED
      BY <1>1, <1>6, <2>2, EndsSchoolTyped DEF CreateClass, PlaceRows
  <1>7. CASE UpdateClass(r)
    <2>1. PICK c : c = q.row
      OBVIOUS
    <2>2. PICK status \in {"ACTIVE", "ARCHIVED"} : status = q.what
      BY <1>1, <1>7 DEF UpdateClass, Carries
    <2>3. class' = [class EXCEPT ![c] = status]
      BY <1>7, <2>1, <2>2 DEF UpdateClass
    <2>4. teaching' \in [Posts -> {"NONE", "FUTURE", "CURRENT", "ENDED"}]
      BY <1>1, <1>2, <1>7 DEF UpdateClass, PlaceRows
    <2>5. \/ enrolled' = enrolled
          \/ enrolled' = [p \in Pairs |-> IF p[1] = c /\ enrolled[p] = "CURRENT"
                                          THEN "ENDED" ELSE enrolled[p]]
      BY <1>7, <2>1 DEF UpdateClass
    <2>6. enrolled' \in [Pairs -> {"NONE", "CURRENT", "ENDED"}]
      BY <1>1, <2>5 DEF PlaceRows
    <2>7. class' \in [Classes -> {"NONE", "ACTIVE", "ARCHIVED"}]
      BY <1>1, <2>3, Replaced DEF PlaceRows
    <2>8. PlaceRows'
      BY <1>1, <1>7, <2>4, <2>6, <2>7 DEF UpdateClass, PlaceRows
    <2> QED
      BY <1>7, <2>8, EndsSchoolTyped DEF UpdateClass
  <1>8. CASE AssignInstructor(r)
    <2>1. PICK p : p = q.row
      OBVIOUS
    <2>2. PICK begins \in {"FUTURE", "CURRENT", "ENDED"} : begins = q.what
      BY <1>1, <1>8 DEF AssignInstructor, Carries
    <2>3. teaching' = [teaching EXCEPT ![p] = begins]
      BY <1>8, <2>1, <2>2 DEF AssignInstructor
    <2>4. teaching' \in [Posts -> {"NONE", "FUTURE", "CURRENT", "ENDED"}]
      BY <1>1, <2>3, Replaced DEF PlaceRows
    <2>5. PlaceRows'
      BY <1>1, <1>8, <2>4 DEF AssignInstructor, PlaceRows
    <2> QED
      BY <1>8, <2>5, EndsSchoolTyped DEF AssignInstructor
  <1>9. CASE EndInstructorAssignment(r)
    <2>1. PICK p : p = q.row
      OBVIOUS
    <2>2. teaching' = [teaching EXCEPT ![p] = "ENDED"]
      BY <1>9, <2>1 DEF EndInstructorAssignment
    <2> QED
      BY ZenonT(60), <1>1, <1>9, <2>2, EndsSchoolTyped DEF EndInstructorAssignment, PlaceRows
  <1>10. ASSUME NEW v, Proceed(r, v), v.op \in {"claim_seat", "enroll_seat", "unenroll_seat"},
                UNCHANGED schoolVars
         PROVE  TypeInv'
    <2>1. Carries(v)
      BY <1>10 DEF Carries
    <2>2. HomeworkStays
      BY DEF HomeworkStays, workVars
    <2>3. (PlaceRows /\ WorkTypeOK /\ HomeworkInv)'
      BY <1>10, Parts DEF PlaceRows, WorkTypeOK, HomeworkInv, schoolVars, workVars
    <2> QED
      BY <1>10, <2>1, <2>2, <2>3, GoesTyped, PartsNext
  <1>11. CASE Snapshot(r)
    <2>1. CASE End(r)
      BY <1>1, <1>11, <2>1, EndsSchoolTyped DEF Snapshot, schoolVars, PlaceRows
    <2>2. CASE ~End(r)
      <3>1. PICK v : Proceed(r, v) /\ v.op \in {"claim_seat", "enroll_seat"}
        BY <1>11, <2>2 DEF Snapshot
      <3> QED
        BY <1>10, <1>11, <3>1 DEF Snapshot
    <2> QED
      BY <2>1, <2>2
  <1>12. CASE TakeSeat(r)
    <2>1. PICK p : p = q.row
      OBVIOUS
    <2>2. /\ enrolled' = [enrolled EXCEPT ![p] = "CURRENT"] \/ enrolled' = enrolled
          /\ UNCHANGED <<member, class, teaching, goal, offered, gone>> /\ End(r)
      BY <1>12, <2>1 DEF TakeSeat, schoolVars
    <2> QED
      BY <1>1, <2>2, EndsSchoolTyped DEF PlaceRows
  <1>13. CASE CountClasses(r)
    <2>1. PICK v : Proceed(r, v) /\ v.op = "unenroll_seat"
      BY <1>13 DEF CountClasses
    <2> QED
      BY <1>10, <1>13, <2>1 DEF CountClasses
  <1>14. CASE EndStudentEnrollment(r)
    <2>1. PICK p : p = q.row
      OBVIOUS
    <2>2. enrolled' = [enrolled EXCEPT ![p] = "ENDED"]
      BY <1>14, <2>1 DEF EndStudentEnrollment
    <2> QED
      BY ZenonT(60), <1>1, <1>14, <2>2, EndsSchoolTyped DEF EndStudentEnrollment, PlaceRows
  <1>15. CASE CreateClassInviteCode(r)
    BY <1>1, <1>15, EndsSchoolTyped DEF CreateClassInviteCode, PlaceRows
  <1>16. CASE UpdateClassProgressSetting(r)
    <2>1. PICK c : c = q.row
      OBVIOUS
    <2>2. PICK l \in Lessons \cup {None} : l = q.what
      BY <1>1, <1>16 DEF UpdateClassProgressSetting, Carries
    <2>3. goal' = [goal EXCEPT ![c] = l]
      BY <1>16, <2>1, <2>2 DEF UpdateClassProgressSetting
    <2> QED
      BY ZenonT(60), <1>1, <1>16, <2>3, EndsSchoolTyped DEF UpdateClassProgressSetting, PlaceRows
  <1> QED
    BY <1>3, <1>4, <1>5, <1>6, <1>7, <1>8, <1>9, <1>11, <1>12, <1>13, <1>14, <1>15, <1>16
    DEF SchoolCommit

-----------------------------------------------------------------------------
\* A row of homework, and a row of the notifications, as WorkTypeOK has them.
HomeworkRow == [status: {"NONE", "DRAFT", "PUBLISHED", "CANCELED"},
                class: Classes \cup {None}, items: SUBSET Lessons,
                targets: SUBSET Students, due: {"later", "soon", "past"}, revision: Nat]

NoticeRows == Students \X Kinds \X Homeworks \X (Nat \ {0})

\* A row of homework is written: it is there, with a revision.
LEMMA WritesHomework ==
    ASSUME TypeInv, NEW h \in Homeworks, NEW w \in HomeworkRow,
           w.status # "NONE", w.revision # 0, homework' = [homework EXCEPT ![h] = w],
           reminding' = reminding
    PROVE  homework' \in [Homeworks -> HomeworkRow] /\ HomeworkInv' /\ HomeworkStays
  <1>1. homework \in [Homeworks -> HomeworkRow] /\ HomeworkInv
    BY DEF TypeInv, TypeOK, WorkTypeOK, HomeworkRow
  <1>2. \A k \in Homeworks : homework'[k] = IF k = h THEN w ELSE homework[k]
    BY <1>1
  <1> QED
    BY <1>1, <1>2 DEF HomeworkInv, HomeworkStays

\* What is announced to the students of homework.
LEMMA NoticesType ==
    ASSUME NEW kind \in Kinds, NEW h \in Homeworks, NEW w \in HomeworkRow, w.revision # 0
    PROVE  Notices(kind, h, w) \subseteq NoticeRows
  <1>1. w.targets \subseteq Students /\ w.revision \in Nat \ {0}
    BY DEF HomeworkRow
  <1> QED
    BY <1>1 DEF Notices, NoticeRows

\* A row that was read, with its revision.
LEMMA MadeRow ==
    ASSUME TypeInv, NEW h \in Homeworks, homework[h].status # "NONE"
    PROVE  \E w \in HomeworkRow : w = homework[h] /\ w.revision # 0
  BY DEF TypeInv, TypeOK, WorkTypeOK, HomeworkRow, HomeworkInv

\* What is committed about homework.
LEMMA CommitsWorkTyped ==
    ASSUME IInv, TypeInv, IInv', NEW r \in InFlight, WorkCommit(r)
    PROVE  TypeInv'
  <1> DEFINE q == request[r]
  <1>1. Carries(q) /\ WorkTypeOK /\ HomeworkInv
    BY Parts
  <1>2. CASE UNCHANGED workVars /\ End(r) /\ UNCHANGED schoolVars
    <2>1. HomeworkStays /\ WorkTypeOK' /\ HomeworkInv'
      BY <1>1, <1>2 DEF HomeworkStays, WorkTypeOK, HomeworkInv, workVars
    <2> QED
      BY <1>2, <2>1, EndsWorkTyped
  \* Everything a commit writes but its rows of homework, remarks and notices.
  <1>3. ASSUME End(r), UNCHANGED <<schoolVars, learned, reminding, deaths>>,
               homework' \in [Homeworks -> HomeworkRow], HomeworkInv', HomeworkStays,
               remark' \in [Homeworks \X Students -> Nat], notice' \subseteq NoticeRows
        PROVE  TypeInv'
    <2>1. WorkTypeOK'
      BY <1>1, <1>3 DEF WorkTypeOK, HomeworkRow, NoticeRows
    <2> QED
      BY <1>3, <2>1, EndsWorkTyped
  <1>4. remark \in [Homeworks \X Students -> Nat] /\ notice \subseteq NoticeRows
    BY <1>1 DEF WorkTypeOK, NoticeRows
  <1>5. CASE Create(r)
    <2>1. PICK c \in Classes : c = q.row
      BY <1>1, <1>5 DEF Create, Carries
    <2>2. PICK items \in SUBSET Lessons, targets \in SUBSET Students :
            items = q.what.items /\ targets = q.what.targets
      BY <1>1, <1>5 DEF Create, Carries
    <2>3. PICK h \in Homeworks, due \in {"later", "soon"} :
            homework' = [homework EXCEPT ![h] =
              [status |-> "DRAFT", class |-> c, items |-> items, targets |-> targets,
               due |-> due, revision |-> 1]]
      BY <1>5, <2>1, <2>2 DEF Create, NewHomework
    <2> DEFINE w == [status |-> "DRAFT", class |-> c, items |-> items,
                     targets |-> targets, due |-> due, revision |-> 1]
    <2>4. w \in HomeworkRow /\ w.status # "NONE" /\ w.revision # 0
      BY DEF HomeworkRow
    <2>5. homework' = [homework EXCEPT ![h] = w] /\ reminding' = reminding
      BY <1>5, <2>3 DEF Create
    <2> HIDE DEF w
    <2>6. homework' \in [Homeworks -> HomeworkRow] /\ HomeworkInv' /\ HomeworkStays
      BY <2>4, <2>5, WritesHomework
    <2>7. End(r) /\ UNCHANGED <<schoolVars, remark, notice, learned, reminding, deaths>>
      BY Zenon, <1>5 DEF Create
    <2>8. remark' = remark /\ notice' = notice /\ UNCHANGED <<schoolVars, learned, reminding, deaths>>
      BY <2>7
    <2> QED
      BY <1>3, <1>4, <2>6, <2>7, <2>8
  <1>6. CASE Update(r)
    <2>1. PICK h : h = q.row
      OBVIOUS
    <2>2. PICK items \in SUBSET Lessons, targets \in SUBSET Students :
            items = q.what.items /\ targets = q.what.targets
      BY Zenon, <1>1, <1>6 DEF Update, Carries
    <2>3. PICK due \in {"later", "soon"} :
            homework' = [homework EXCEPT ![h].items = items, ![h].targets = targets,
                                         ![h].due = due, ![h].revision = @ + 1]
      BY Zenon, <1>6, <2>1, <2>2 DEF Update
    <2>4. homework \in [Homeworks -> HomeworkRow]
      BY <1>1 DEF WorkTypeOK, HomeworkRow
    <2>5. homework' \in [Homeworks -> HomeworkRow] /\ HomeworkInv' /\ HomeworkStays
      <3>1. CASE h \in Homeworks
        <4>1. PICK old \in HomeworkRow : old = homework[h]
          BY <2>4, <3>1
        <4> DEFINE row == [status |-> old.status, class |-> old.class, items |-> items,
                           targets |-> targets, due |-> due, revision |-> old.revision + 1]
        <4>11. homework'[h] = row
          BY <2>3, <2>4, <3>1, <4>1 DEF HomeworkRow
        <4>12. row \in HomeworkRow /\ row.status = old.status /\ row.revision # 0
          BY DEF HomeworkRow
        <4>13. \A k \in Homeworks : k # h => homework'[k] = homework[k]
          BY <2>3, <2>4
        <4>14. homework' = [k \in Homeworks |-> homework'[k]]
          BY <2>3, <2>4
        <4> HIDE DEF row
        <4>15. homework' = [homework EXCEPT ![h] = row]
          BY <2>4, <4>11, <4>13, <4>14
        <4>2. PICK w \in HomeworkRow :
                 /\ homework' = [homework EXCEPT ![h] = w]
                 /\ w.status = old.status /\ w.revision # 0
          BY <4>12, <4>15
        <4>3. reminding' = reminding
          BY Zenon, <1>6 DEF Update
        <4>4. \A k \in Homeworks : homework'[k] = IF k = h THEN w ELSE homework[k]
          BY <2>4, <4>2
        <4>5. homework' \in [Homeworks -> HomeworkRow]
          BY <2>4, <4>2
        <4> QED
          BY <1>1, <4>1, <4>2, <4>3, <4>4, <4>5 DEF HomeworkInv, HomeworkStays
      <3>2. CASE h \notin Homeworks
        <4>1. homework' = homework
          BY <2>3, <2>4, <3>2
        <4>2. reminding' = reminding
          BY Zenon, <1>6 DEF Update
        <4> QED
          BY <1>1, <2>4, <4>1, <4>2 DEF HomeworkInv, HomeworkStays
      <3> QED
        BY <3>1, <3>2
    <2>6. remark' = [p \in Homeworks \X Students |-> IF p[1] = h THEN 0 ELSE remark[p]]
      BY Zenon, <1>6, <2>1 DEF Update
    <2>7. remark' \in [Homeworks \X Students -> Nat]
      BY <1>4, <2>6
    <2>8. End(r) /\ UNCHANGED <<schoolVars, notice, learned, reminding, deaths>>
      BY Zenon, <1>6 DEF Update
    <2>9. notice' = notice /\ UNCHANGED <<schoolVars, learned, reminding, deaths>>
      BY <2>8
    <2> QED
      BY <1>3, <1>4, <2>5, <2>7, <2>8, <2>9
  <1>7. ASSUME NEW status \in {"PUBLISHED", "CANCELED"}, NEW kind \in Kinds,
               NEW h \in Homeworks, homework[h].status # "NONE",
               homework' = [homework EXCEPT ![h].status = status],
               notice' = notice \cup Notices(kind, h, homework[h]),
               End(r), UNCHANGED <<schoolVars, remark, learned, reminding, deaths>>
        PROVE  TypeInv'
    <2>1. PICK old \in HomeworkRow : old = homework[h] /\ old.revision # 0
      BY <1>7, MadeRow
    <2> DEFINE w == [old EXCEPT !.status = status]
    <2>2. w \in HomeworkRow /\ w.status # "NONE" /\ w.revision # 0
      BY <2>1 DEF HomeworkRow
    <2>3. homework' = [homework EXCEPT ![h] = w]
      BY <1>7, <2>1
    <2> HIDE DEF w
    <2>4. homework' \in [Homeworks -> HomeworkRow] /\ HomeworkInv' /\ HomeworkStays
      BY <1>7, <2>2, <2>3, WritesHomework
    <2>5. notice' \subseteq NoticeRows
      BY <1>4, <1>7, <2>1, NoticesType
    <2> QED
      BY <1>3, <1>4, <1>7, <2>4, <2>5
  <1>8. CASE Publish(r)
    <2>1. PICK h \in Homeworks : h = q.row /\ homework[h].status # "NONE"
      BY <1>1, <1>8 DEF Publish, Carries
    <2>2. CASE Turndown(r)
      BY <1>2, <2>2 DEF Turndown
    <2>3. CASE ~Turndown(r)
      <3>1. /\ homework' = [homework EXCEPT ![h].status = "PUBLISHED"]
            /\ notice' = notice \cup Notices("PUBLISHED", h, homework[h])
            /\ End(r) /\ UNCHANGED <<schoolVars, remark, learned, reminding, deaths>>
        BY <1>8, <2>1, <2>3 DEF Publish
      <3>2. "PUBLISHED" \in Kinds
        BY DEF Kinds
      <3> QED
        BY <1>7, <2>1, <3>1, <3>2
    <2> QED
      BY <2>2, <2>3
  <1>9. CASE Cancel(r)
    <2>1. PICK h \in Homeworks : h = q.row /\ homework[h].status # "NONE"
      BY <1>1, <1>9 DEF Cancel, Carries
    <2>2. /\ homework' = [homework EXCEPT ![h].status = "CANCELED"]
          /\ notice' = notice \cup Notices("CANCELED", h, homework[h])
          /\ End(r) /\ UNCHANGED <<schoolVars, remark, learned, reminding, deaths>>
      BY <1>9, <2>1 DEF Cancel
    <2>3. "CANCELED" \in Kinds
      BY DEF Kinds
    <2> QED
      BY <1>7, <2>1, <2>2, <2>3
  <1>10. CASE Comment(r)
    <2>1. PICK h \in Homeworks : h = q.row
      BY <1>1, <1>10 DEF Comment, Carries
    <2>2. PICK s \in Students : s = q.what.student
      BY <1>1, <1>10 DEF Comment, Carries
    <2>3. PICK n \in Nat \ {0} : n = remark[<<h, s>>] + 1
      BY <1>4
    <2>4. CASE Turndown(r)
      BY <1>2, <2>4 DEF Turndown
    <2>5. CASE ~Turndown(r)
      <3>1. /\ remark' = [remark EXCEPT ![<<h, s>>] = n]
            /\ notice' \in {notice, notice \cup {<<s, "COMMENTED", h, n>>}}
            /\ End(r) /\ UNCHANGED <<schoolVars, homework, learned, reminding, deaths>>
        BY <1>10, <2>1, <2>2, <2>3, <2>5 DEF Comment
      <3>2. remark' \in [Homeworks \X Students -> Nat]
        BY <1>4, <3>1
      <3>3. notice' \subseteq NoticeRows
        BY <1>4, <3>1 DEF NoticeRows, Kinds
      <3>4. homework' \in [Homeworks -> HomeworkRow] /\ HomeworkInv' /\ HomeworkStays
        BY <1>1, <3>1 DEF WorkTypeOK, HomeworkRow, HomeworkInv, HomeworkStays
      <3> QED
        BY <1>3, <3>1, <3>2, <3>3, <3>4
    <2> QED
      BY <2>4, <2>5
  <1>11. CASE Reassign(r)
    <2>1. PICK c \in Classes \cup {None} : c = homework[q.row].class
      BY <1>1, <1>11 DEF Reassign, Carries, WorkTypeOK
    <2>2. PICK items \in SUBSET Lessons, targets \in SUBSET Students :
            items = q.what.items /\ targets = q.what.targets
      BY <1>1, <1>11 DEF Reassign, Carries
    <2>3. PICK h \in Homeworks, due \in {"later", "soon"} :
            LET w == [status |-> "PUBLISHED", class |-> c, items |-> items,
                      targets |-> targets, due |-> due, revision |-> 1]
            IN  homework' = [homework EXCEPT ![h] = w]
                /\ notice' = notice \cup Notices("PUBLISHED", h, w)
      BY ZenonT(60), <1>11, <2>1, <2>2 DEF Reassign, NewHomework
    <2> DEFINE w == [status |-> "PUBLISHED", class |-> c, items |-> items,
                     targets |-> targets, due |-> due, revision |-> 1]
    <2>4. w \in HomeworkRow /\ w.status # "NONE" /\ w.revision # 0 /\ "PUBLISHED" \in Kinds
      BY DEF HomeworkRow, Kinds
    <2>5. /\ homework' = [homework EXCEPT ![h] = w] /\ reminding' = reminding
          /\ notice' = notice \cup Notices("PUBLISHED", h, w)
      BY <1>11, <2>3 DEF Reassign
    <2> HIDE DEF w
    <2>6. homework' \in [Homeworks -> HomeworkRow] /\ HomeworkInv' /\ HomeworkStays
      BY <2>4, <2>5, WritesHomework
    <2>7. notice' \subseteq NoticeRows
      BY <1>4, <2>4, <2>5, NoticesType
    <2> QED
      BY <1>3, <1>4, <1>11, <2>6, <2>7 DEF Reassign
  <1> QED
    BY <1>5, <1>6, <1>8, <1>9, <1>10, <1>11 DEF WorkCommit

-----------------------------------------------------------------------------
\* The worker reads homework that has a revision, and announces what it read.
LEMMA WorksTyped ==
    ASSUME IInv, TypeInv, IInv', WorkerStep \/ WorkerDies
    PROVE  TypeInv'
  <1>1. PlaceRows /\ WorkTypeOK /\ HomeworkInv /\ left \in Nat
    BY Parts DEF RequestsTypeOK
  <1>2. UNCHANGED <<schoolVars, homework, remark, learned, requestVars>>
    BY DEF WorkerStep, Scan, Remind, WorkerDies
  <1>3. PlaceRows' /\ HomeworkStays
    BY <1>1, <1>2 DEF PlaceRows, HomeworkStays, schoolVars
  <1>4. CASE Scan
    <2>1. PICK due \in SUBSET DueSoon :
            reminding' = UNION {{<<s, "DUE_SOON", h, homework[h].revision>> :
                                 s \in Incomplete(h)} : h \in due}
      BY <1>4 DEF Scan
    <2>2. ASSUME NEW h \in due, NEW s \in Incomplete(h)
          PROVE  <<s, "DUE_SOON", h, homework[h].revision>>
                   \in Students \X {"DUE_SOON"} \X Homeworks \X (Nat \ {0})
      BY <1>1, <2>2 DEF DueSoon, Incomplete, WorkTypeOK, HomeworkInv
    <2>3. reminding' \subseteq Students \X {"DUE_SOON"} \X Homeworks \X (Nat \ {0})
      BY <2>1, <2>2
    <2>4. (WorkTypeOK /\ HomeworkInv)'
      BY <1>1, <1>4, <2>3 DEF Scan, WorkTypeOK, HomeworkInv
    <2> QED
      BY <1>1, <1>2, <1>3, <2>4, RestsTyped DEF requestVars
  <1>5. ASSUME NEW h \in Homeworks, Remind(h)
        PROVE  TypeInv'
    <2>1. (WorkTypeOK /\ HomeworkInv)'
      BY <1>1, <1>5 DEF Remind, WorkTypeOK, HomeworkInv, Kinds
    <2> QED
      BY <1>1, <1>2, <1>3, <2>1, RestsTyped DEF requestVars
  <1>6. CASE WorkerDies
    <2>1. (WorkTypeOK /\ HomeworkInv)'
      BY <1>1, <1>6, WorkAssumption DEF WorkerDies, WorkTypeOK, HomeworkInv
    <2> QED
      BY <1>1, <1>2, <1>3, <2>1, RestsTyped DEF requestVars
  <1> QED
    BY <1>4, <1>5, <1>6 DEF WorkerStep

\* Time passes, students learn and leave, lessons come and go.
LEMMA ElsewhereTyped ==
    ASSUME IInv, TypeInv, IInv', Elsewhere, UNCHANGED workVars
    PROVE  TypeInv'
  <1>1. PlaceRows /\ WorkTypeOK /\ HomeworkInv /\ left \in Nat
    BY Parts DEF RequestsTypeOK
  <1>2. HomeworkStays /\ WorkTypeOK' /\ HomeworkInv'
    BY <1>1 DEF HomeworkStays, WorkTypeOK, HomeworkInv, workVars
  <1>3. PlaceRows'
    <2>1. ASSUME NEW p \in Posts, PostTurns(p) PROVE PlaceRows'
      BY <1>1, <2>1 DEF PostTurns, PlaceRows
    <2>2. ASSUME NEW s \in Students, Leave(s) PROVE PlaceRows'
      BY <1>1, <2>2 DEF Leave, PlaceRows
    <2>3. ASSUME NEW lessons \in SUBSET Lessons, Offer(lessons) PROVE PlaceRows'
      BY <1>1, <2>3 DEF Offer, PlaceRows
    <2> QED
      BY <2>1, <2>2, <2>3 DEF Elsewhere
  <1>4. request' = request /\ scenario' = scenario /\ left' \in Nat
    BY <1>1 DEF Elsewhere, PostTurns, Leave, Offer, AtOnce
  <1> QED
    BY <1>2, <1>3, <1>4, RestsTyped

\* A student begins a lesson, finishes it, or retries a mission.
LEMMA LearnsTyped ==
    ASSUME IInv, TypeInv, IInv', NEW s \in Students, NEW l \in Lessons, Learn(s, l)
    PROVE  TypeInv'
  <1>1. PlaceRows /\ WorkTypeOK /\ HomeworkInv /\ left \in Nat
    BY Parts DEF RequestsTypeOK
  <1>2. PlaceRows' /\ HomeworkInv' /\ HomeworkStays
    BY <1>1 DEF Learn, PlaceRows, HomeworkInv, HomeworkStays, schoolVars
  <1>3. learned' \in [Students \X Lessons -> {"none", "started", "done"}]
    BY SMTT(60), <1>1 DEF Learn, WorkTypeOK
  <1>4. WorkTypeOK'
    BY <1>1, <1>3 DEF Learn, WorkTypeOK
  <1>5. request' = request /\ scenario' = scenario /\ left' \in Nat
    BY <1>1 DEF Learn, AtOnce
  <1> QED
    BY <1>2, <1>4, <1>5, RestsTyped

\* The last day before a deadline begins, or the deadline passes.
LEMMA PassesTyped ==
    ASSUME IInv, TypeInv, IInv', NEW h \in Homeworks, TimePasses(h)
    PROVE  TypeInv'
  <1>1. PlaceRows /\ WorkTypeOK /\ HomeworkInv /\ left \in Nat
    BY Parts DEF RequestsTypeOK
  <1>2. PICK old \in HomeworkRow : old = homework[h] /\ old.status # "NONE" /\ old.revision # 0
    BY MadeRow DEF TimePasses
  <1>3. PICK due \in {"soon", "past"} : homework' = [homework EXCEPT ![h].due = due]
    BY DEF TimePasses
  <1> DEFINE w == [old EXCEPT !.due = due]
  <1>4. w \in HomeworkRow /\ w.status # "NONE" /\ w.revision # 0
    BY <1>2 DEF HomeworkRow
  <1>5. homework' = [homework EXCEPT ![h] = w]
    BY <1>2, <1>3
  <1>6. reminding' = reminding
    BY DEF TimePasses
  <1> HIDE DEF w
  <1>7. homework' \in [Homeworks -> HomeworkRow] /\ HomeworkInv' /\ HomeworkStays
    BY <1>4, <1>5, <1>6, WritesHomework
  <1>8. WorkTypeOK' /\ PlaceRows'
    BY <1>1, <1>7 DEF TimePasses, WorkTypeOK, HomeworkRow, PlaceRows, schoolVars
  <1>9. request' = request /\ scenario' = scenario /\ left' \in Nat
    BY <1>1 DEF TimePasses, AtOnce
  <1> QED
    BY <1>7, <1>8, <1>9, RestsTyped

\* Every step keeps the types.
LEMMA StepsTyped == ASSUME IInv, TypeInv, [Next]_vars PROVE TypeInv'
  <1>1. IInv'
    BY Steps
  <1>2. CASE left > 0 /\ Management /\ UNCHANGED workVars
    BY <1>1, <1>2, ManagesTyped
  <1>3. CASE Teaching
    BY <1>1, <1>3, SetsTyped
  <1>4. ASSUME NEW r \in InFlight, SchoolCommit(r), UNCHANGED workVars PROVE TypeInv'
    BY <1>1, <1>4, CommitsSchoolTyped
  <1>5. ASSUME NEW r \in InFlight, WorkCommit(r) PROVE TypeInv'
    BY <1>1, <1>5, CommitsWorkTyped
  <1>6. CASE WorkerStep \/ WorkerDies
    BY <1>1, <1>6, WorksTyped
  <1>7. CASE Elsewhere /\ UNCHANGED workVars
    BY <1>1, <1>7, ElsewhereTyped
  <1>8. ASSUME NEW s \in Students, NEW l \in Lessons, Learn(s, l) PROVE TypeInv'
    BY <1>1, <1>8, LearnsTyped
  <1>9. ASSUME NEW h \in Homeworks, TimePasses(h) PROVE TypeInv'
    BY <1>1, <1>9, PassesTyped
  <1>10. CASE UNCHANGED vars
    <2>1. PlaceRows /\ WorkTypeOK /\ HomeworkInv /\ left \in Nat
      BY Parts DEF RequestsTypeOK
    <2>2. /\ PlaceRows' /\ WorkTypeOK' /\ HomeworkInv' /\ HomeworkStays
          /\ request' = request /\ scenario' = scenario /\ left' \in Nat
      BY <1>10, <2>1 DEF PlaceRows, WorkTypeOK, HomeworkInv, HomeworkStays, vars,
         schoolVars, workVars, requestVars
    <2> QED
      BY <1>1, <2>2, RestsTyped
  <1> QED
    BY <1>2, <1>3, <1>4, <1>5, <1>6, <1>7, <1>8, <1>9, <1>10 DEF Next

\* The rows have their types, whatever operations overlap: a request writes what it
\* carries since its reads (SchoolTypeOK and WorkTypeOK), and the worker announces only
\* homework that was made.
THEOREM ClassroomTypes == Spec => []TypeOK
  <1>1. Init => TypeInv
    BY StartsTyped
  <1>2. IInv /\ TypeInv /\ [Next]_vars => TypeInv'
    BY StepsTyped
  <1>3. TypeInv => TypeOK
    BY DEF TypeInv
  <1> QED
    BY <1>1, <1>2, <1>3, Invariant, PTL DEF Spec

=============================================================================
