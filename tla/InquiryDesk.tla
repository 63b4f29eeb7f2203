----------------------------- MODULE InquiryDesk -----------------------------
(****************************************************************************)
(* inquiry.service.ts: operators answer the inquiries of a member, edit     *)
(* their answers, reopen and close.  An answer is announced by mail and in  *)
(* the app.  Every edit changes the text.                                   *)
(****************************************************************************)
EXTENDS AccountTables

Requester == 1

StartAnswer(q) == inquiry[q].status # "CLOSED" /\ Begin("answer", 0, q, None, {})

\* Mutant of Answer: only the first answer is notified.
AnswerOnce(r) == LET q == request[r].row  v == inquiry[q].version + 1 IN
    /\ request[r].op = "answer" /\ v <= N
    /\ inquiry' = [inquiry EXCEPT ![q] = [status |-> "ANSWERED", answer |-> TRUE, version |-> v,
                                          notified |-> IF @.answer THEN @.notified
                                                       ELSE @.notified \cup {v}]]
    /\ job' = [job EXCEPT ![AnswerJob(q, v)] = NewJob("inquiry")]
    /\ End(r)
    /\ UNCHANGED <<accountVars, familyVars, mailer, mailed, reopened, faults>>

\* Nothing of what was read is compared again.
Answer(r) == LET q == request[r].row  v == inquiry[q].version + 1 IN
    /\ request[r].op = "answer" /\ v <= N
    /\ inquiry' = [inquiry EXCEPT ![q] = [status |-> "ANSWERED", answer |-> TRUE, version |-> v,
                                          notified |-> @.notified \cup {v}]]
    /\ job' = [job EXCEPT ![AnswerJob(q, v)] = NewJob("inquiry")]
    /\ End(r)
    /\ UNCHANGED <<accountVars, familyVars, mailer, mailed, reopened, faults>>

Transitions == [SUBMITTED |-> {"IN_REVIEW", "CLOSED"}, IN_REVIEW |-> {"CLOSED"},
                ANSWERED |-> {"IN_REVIEW", "CLOSED"}, CLOSED |-> {"IN_REVIEW"}]

StartStatus(q, next) ==
    /\ next \in Transitions[inquiry[q].status]
    /\ Begin("status", 0, q, <<inquiry[q].status, next>>, {inquiry[q].version})

\* The status read is a condition of the update; the version read is not, and the
\* notification deleted is the one of that version.
UpdateStatus(r) ==
    LET q == request[r].row
        previous == request[r].what[1]
        next == request[r].what[2]
        withdrawn == previous = "ANSWERED" /\ next = "IN_REVIEW"
    IN  /\ request[r].op = "status"
        /\ IF inquiry[q].status # previous THEN Refuse(r)
           ELSE /\ inquiry' = [inquiry EXCEPT
                      ![q].status = next,
                      ![q].answer = @ /\ ~withdrawn,
                      ![q].notified = IF withdrawn THEN @ \ request[r].seen ELSE @]
                /\ End(r)
                /\ UNCHANGED <<accountVars, familyVars, mailVars>>

Announces(j, q, v) == j = AnswerJob(q, v) /\ inquiry[q].version = v /\ inquiry[q].answer
                      /\ inquiry[q].status \in {"ANSWERED", "CLOSED"}

Current(j) == \E q \in Inquiries, v \in Rows : Announces(j, q, v)

\* What the inquiry worker asks of the answer and the recipient.
AnswerFit(j) == Current(j) /\ Active(Requester) /\ user[Requester].verified
                /\ user[Requester].email # None

\* inquiry-notification-admin.service.ts, retry.
RetryAnswer(j) ==
    /\ AtOnce("retry") /\ Current(j) /\ Reopen(j)
    /\ UNCHANGED <<accountVars, familyVars, inquiry>>
=============================================================================
