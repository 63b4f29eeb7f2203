---------------------------- MODULE AccountSystem ----------------------------
(****************************************************************************)
(* Accounts, guardians, inquiries and the two mail outboxes, over one       *)
(* database.                                                                *)
(****************************************************************************)
EXTENDS Accounts, Guardians, InquiryDesk

Init == TablesInit /\ MailInit

Rest == <<accountVars, familyVars, inquiry, requestVars>>

Begins ==
    \/ \E e \in Emails : StartSignup(e)
    \/ \E u \in Rows, m \in Asked.minors : StartDeclaration(u, m)
    \/ \E u \in Rows : StartResetRequest(u) \/ StartVerificationRequest(u)
                       \/ StartLogin(u) \/ StartDeletion(u)
    \/ \E t \in Rows, op \in {"confirm_reset", "confirm_verification"} : StartConfirmation(t, op)
    \/ \E s \in Rows : StartRefresh(s) \/ StartLogout(s)
    \/ \E u \in Rows, i \in Identities : StartUnlink(u, i)
    \/ \E u \in Rows, e \in Emails : StartInvitation(u, e)
    \/ \E g \in Rows, i \in Rows, paid \in SUBSET {"minor_paid_subscription"} :
          StartAcceptance(g, i, paid)
    \/ \E u \in Rows, p \in Rows \X Rows : StartRevocation(u, p)
    \/ \E q \in Inquiries : StartAnswer(q)
    \/ \E q \in Inquiries, next \in {"IN_REVIEW", "CLOSED"} : StartStatus(q, next)

OAuthSteps ==
    \/ \E a \in Rows, purpose \in {"LOGIN", "LINK", "DELETE_ACCOUNT"}, u \in Rows \cup {0},
          p \in Providers : (purpose = "LOGIN" \/ u # 0) /\ StartOAuth(a, purpose, u, p)
    \/ \E a \in Rows, i \in Identities : ClaimState(a, i)

Commits(r) ==
    \/ \E m \in Asked.minors : Signup(r, m)
    \/ DeclareAgeBand(r)
    \/ IssueToken(r)
    \/ ConfirmReset(r)
    \/ ConfirmVerification(r)
    \/ OpenSession(r)
    \/ Refresh(r)
    \/ Logout(r)
    \/ ResolveUser(r)
    \/ \E verified \in BOOLEAN : OAuthSignup(r, verified)
    \/ CheckLink(r)
    \/ LinkIdentity(r)
    \/ Unlink(r)
    \/ CheckDeletion(r)
    \/ DeleteAccount(r)
    \/ CreateInvitation(r)
    \/ AcceptInvitation(r)
    \/ RevokeLink(r)
    \/ Answer(r)
    \/ UpdateStatus(r)

Fit(j, fit) == IF j \in Rows THEN fit => AccountFit(j) ELSE ~fit

MailStep(w) ==
    \/ \E j \in Jobs, fit \in BOOLEAN : Fit(j, fit) /\ Pick(w, j, fit)
    \/ CloseStale(w)
    \/ Claim(w)
    \/ Check(w, AnswerFit(mailer[w].job))
    \/ Skip(w)
    \/ \E accepted \in BOOLEAN, answered \in BOOLEAN : Send(w, accepted, answered)
    \/ RecordSent(w)
    \/ RecordError(w)

Next ==
    \/ left > 0 /\ Begins
    \/ left > 0 /\ OAuthSteps
    \/ \E i \in Rows : ExpireInvitation(i)
    \/ \E j \in Jobs : RetryAnswer(j)
    \/ \E r \in InFlight : request[r].op # "none" /\ Commits(r)
    \/ \E w \in Asked.workers : (MailStep(w) \/ Die(w)) /\ UNCHANGED Rest
    \/ \E j \in Jobs : Bounce(j) /\ UNCHANGED Rest

Spec == Init /\ [][Next]_vars

\* A worker polls for ever (runForever) and comes to the end of what it does.
FairSpec == Spec /\ \A w \in MailWorkers :
                       WF_vars(w \in Asked.workers /\ MailStep(w) /\ UNCHANGED Rest)

-----------------------------------------------------------------------------
\* The rows and the workers have their types.
TypeOK == TablesTypeOK /\ MailTypeOK

\* A secret that is good for one use has at most one effect: however many requests
\* present it at once, one reset or verification follows a token, one completion an
\* OAuth state, one link a guardian's invitation.
OneTimeOnly ==
    /\ \A t \in Rows : token[t].uses <= 1
    /\ \A a \in Rows : state[a].uses <= 1
    /\ \A i \in Rows : invitation[i].uses <= 1

\* An account once deleted stays without address, password and verification, whatever
\* was in flight when anonymizeAccount committed.
DeletedStaysAnonymous == \A u \in Rows : user[u].status = "DELETED" =>
    user[u].email = None /\ user[u].password = 0 /\ ~user[u].verified

\* An inquiry shown as answered has its answer, and the requester's notification of
\* that very version, however answers and changes of status overlap.
AnswerIsNotified == \A q \in Inquiries : inquiry[q].status = "ANSWERED" =>
    inquiry[q].answer /\ inquiry[q].version \in inquiry[q].notified

\* Both outboxes keep what DeliveryBudget promises: no job is tried more often than
\* maxAttempts per queueing and no mail leaves without a claim of its own.
Tried(j) == job[j].attempts + MaxAttempts * reopened[j]
Budget == INSTANCE DeliveryBudget WITH
    Tries <- MaxAttempts,
    granted <- [j \in Jobs |-> MaxAttempts * (1 + reopened[j])],
    tried <- [j \in Jobs |-> Tried(j)]
MailWithinBudget == Budget!BudgetSpec

\* Every mail job comes to rest for good - sent, skipped, bounced or out of attempts -
\* even when workers die with it or overwrite each other's results.
Polled(j) == \E w \in Asked.workers : w[1] = job[j].table
MailSettles == \A j \in Jobs : <>[](Polled(j) => Rests(j))
=============================================================================
