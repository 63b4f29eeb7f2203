------------------------- MODULE AccountSystemProofs -------------------------
(****************************************************************************)
(* Accounts, guardians, inquiries and their mails, for any number of rows,  *)
(* requests, workers and attempts: what the runs check on small instances,  *)
(* and that both outboxes implement DeliveryBudget.                         *)
(*                                                                          *)
(* IInv has one part per table, what a request in flight may rely on        *)
(* (ReqOK, ConfirmOK), which jobs are still to come (Fresh), and what a     *)
(* worker may rely on (WorkerOK, Room).                                     *)
(****************************************************************************)
EXTENDS AccountSystem, FiniteSetTheorems, TLAPS

\* Groups of operations that carry the same.
Confirmations == {"confirm_reset", "confirm_verification"}
Callbacks == {"login_callback", "link_callback", "delete_callback"}
AboutIdentity == Callbacks \cup {"oauth_signup", "link", "unlink"}

\* What a request in flight may rely on whatever the tables become.
ReqOK(q) ==
    /\ q = [op |-> q.op, user |-> q.user, row |-> q.row, what |-> q.what, seen |-> q.seen]
    /\ q.user \in Rows \cup {0}
    /\ q.op \in {"request_reset", "request_verification"} => q.user \in Rows
    /\ q.op \in {"signup", "invite"} => q.what \in Emails
    /\ q.op = "declare" => q.what \in MinorStatus
    /\ q.op \in AboutIdentity => q.what \in Identities
    /\ q.op \in Confirmations \cup {"refresh", "logout", "accept"} => q.row \in Rows
    /\ q.op = "accept" => q.seen \subseteq Consents
    /\ q.op \in {"answer", "status"} => q.row \in Inquiries
    /\ q.op = "status" => q.what[2] \in {"IN_REVIEW", "CLOSED"}

\* What requests in flight carry.
ReqInv == RequestsTypeOK /\ \A r \in InFlight : ReqOK(request[r])

\* A confirmation holds a token of its user; once the user is deleted it is dead.
ConfirmOK(q) == q.op \in Confirmations =>
    /\ token[q.row].status # "NONE" /\ token[q.row].user = q.user
    /\ q.user \in Rows
    /\ user[q.user].status = "DELETED" => token[q.row].status # "LIVE"

ConfirmInv == \A r \in InFlight : ConfirmOK(request[r])

\* The tables, each with its type.
UserRows == [Rows -> [status: AccountStatus, email: Emails \cup {None}, password: Nat,
                      verified: BOOLEAN, minor: MinorStatus, consented: BOOLEAN]]
SessionRows == [Rows -> [status: {"NONE", "LIVE", "REVOKED", "DELETED"}, user: Rows \cup {0}]]
TokenRows == [Rows -> [status: {"NONE", "LIVE", "CONSUMED", "DELETED"},
                       purpose: {"PASSWORD_RESET", "EMAIL_VERIFICATION"},
                       user: Rows \cup {0}, uses: Nat]]
StateRows == [Rows -> [status: {"NONE", "LIVE", "CONSUMED", "DELETED"},
                       purpose: {"LOGIN", "LINK", "DELETE_ACCOUNT"}, user: Rows \cup {0},
                       provider: Providers \cup {None}, uses: Nat]]
InvitationRow == [status: {"NONE", "PENDING", "REVOKED", "EXPIRED", "ACCEPTED", "DELETED"},
                  student: Rows \cup {0}, email: Emails \cup {None}, uses: Nat]
InvitationRows == [Rows -> InvitationRow]
LinkRows == [Rows \X Rows -> [status: {"NONE", "ACTIVE", "REVOKED"}, consents: SUBSET Consents]]
InquiryRows == [Inquiries -> [status: {"SUBMITTED", "IN_REVIEW", "ANSWERED", "CLOSED"},
                              answer: BOOLEAN, version: 0 .. N, notified: SUBSET Rows]]

UserInv == user \in UserRows /\ DeletedStaysAnonymous
SessionInv == session \in SessionRows
SocialInv == social \in [Identities -> Rows \cup {0}]
TokenInv == token \in TokenRows
    /\ \A t \in Rows : /\ token[t].uses <= 1
                       /\ token[t].status \in {"NONE", "LIVE"} => token[t].uses = 0
                       /\ token[t].status # "NONE" => token[t].user \in Rows
StateInv == state \in StateRows
    /\ \A a \in Rows : /\ state[a].uses <= 1
                       /\ state[a].status \in {"NONE", "LIVE"} => state[a].uses = 0
InvitationInv == invitation \in InvitationRows
    /\ \A i \in Rows : /\ invitation[i].uses <= 1
                       /\ invitation[i].status \in {"NONE", "PENDING"} => invitation[i].uses = 0
LinkInv == guards \in LinkRows
InquiryInv == inquiry \in InquiryRows /\ AnswerIsNotified

\* The job of a token or an answer that does not exist yet.
Fresh(j) == job[j].status = "NONE" /\ job[j].attempts = 0
\* What is not written yet has no mail job.
FreshInv ==
    /\ \A t \in Rows : token[t].status = "NONE" => Fresh(TokenJob(t))
    /\ \A q \in Inquiries, v \in Rows : inquiry[q].version < v => Fresh(AnswerJob(q, v))

JobRow == [table: Tables, status: JobStatus, attempts: 0 .. MaxAttempts, secret: BOOLEAN]
MailerRow == [at: {"idle", "picked", "claimed", "checked", "mailed", "refused"},
              job: Jobs \cup {0}, status: JobStatus, attempts: 0 .. MaxAttempts,
              secret: BOOLEAN, fit: BOOLEAN]
MailRows ==
    /\ job \in [Jobs -> JobRow]
    /\ mailer \in [MailWorkers -> MailerRow]
    /\ mailed \in [Jobs -> Nat]
    /\ reopened \in [Jobs -> 0 .. MaxReopens]
    /\ faults \in 0 .. MaxFaults

\* A job is selected when it may be tried, or when its last try is overdue.
WorkerOK(w) ==
    /\ mailer[w].at # "idle" => mailer[w].job \in Jobs
    /\ mailer[w].at = "picked" =>
          \/ mailer[w].status = "SENDING"
          \/ mailer[w].status \in {"PENDING", "ERROR"} /\ mailer[w].attempts < MaxAttempts

\* Every mail and every worker about to send one has a try of its own.
Holders(j) == {w \in MailWorkers : mailer[w].job = j /\ mailer[w].at \in {"claimed", "checked"}}
\* A job is mailed no more often than it was tried.
Room(j) == mailed[j] + Cardinality(Holders(j)) <= Tried(j)

\* The mail outbox: jobs, mailers, and what was mailed.
MailInv ==
    /\ MailRows
    /\ \A w \in MailWorkers : WorkerOK(w)
    /\ \A j \in Jobs : Room(j)

\* The inductive invariant.
IInv ==
    /\ ReqInv /\ ConfirmInv
    /\ UserInv /\ SessionInv /\ SocialInv /\ TokenInv /\ StateInv
    /\ InvitationInv /\ LinkInv /\ InquiryInv
    /\ FreshInv /\ MailInv

\* A step as DeliveryBudget sees it.
Kept == [Budget!BudgetNext]_<<[j \in Jobs |-> MaxAttempts * (1 + reopened[j])],
                              [j \in Jobs |-> Tried(j)], mailed>>

-----------------------------------------------------------------------------
\* Each token and each version of an answer has a job of its own.
LEMMA JobsDiffer ==
    /\ \A t \in Rows : TokenJob(t) \in Jobs
    /\ \A q \in Inquiries, v \in Rows : AnswerJob(q, v) \in Jobs
    /\ \A t \in Rows, q \in Inquiries, v \in Rows : TokenJob(t) # AnswerJob(q, v)
    /\ \A p, q \in Inquiries, v, w \in Rows :
          AnswerJob(p, v) = AnswerJob(q, w) => p = q /\ v = w
  <1>1. /\ \A t \in Rows : TokenJob(t) \in Jobs
        /\ \A q \in Inquiries, v \in Rows : AnswerJob(q, v) \in Jobs
    BY AccountAssumption DEF TokenJob
  <1>2. ASSUME NEW n \in Nat, n > 0, NEW q \in Nat \ {0} PROVE n * q >= n
    <2>1. n * q = n * (q - 1) + n
      BY <1>2
    <2>2. n * (q - 1) >= 0
      BY <1>2
    <2> QED
      BY <2>1, <2>2, <1>2
  <1>3. ASSUME NEW t \in Rows, NEW q \in Inquiries, NEW v \in Rows
        PROVE  TokenJob(t) # AnswerJob(q, v)
    <2>1. N * q >= N
      BY <1>2, AccountAssumption
    <2>2. N \in Nat /\ q \in Nat /\ N * q \in Nat /\ t \in 1 .. N /\ v \in 1 .. N
      BY AccountAssumption DEF Rows
    <2> QED
      BY <2>1, <2>2 DEF TokenJob, AnswerJob
  <1>4. ASSUME NEW p \in Inquiries, NEW q \in Inquiries, NEW v \in Rows, NEW w \in Rows, p < q
        PROVE  AnswerJob(p, v) # AnswerJob(q, w)
    <2>1. N \in Nat \ {0} /\ p \in Nat /\ q \in Nat /\ v \in 1 .. N /\ w \in 1 .. N
      BY AccountAssumption DEF Rows
    <2>2. N * (q - p) >= N
      BY <1>2, <2>1, <1>4
    <2>3. N * q = N * p + N * (q - p)
      BY <2>1
    <2>4. N * p \in Int /\ N * q \in Int /\ N * (q - p) \in Int
      BY <2>1
    <2> QED
      BY <2>1, <2>2, <2>3, <2>4 DEF AnswerJob
  <1>5. ASSUME NEW p \in Inquiries, NEW q \in Inquiries, NEW v \in Rows, NEW w \in Rows,
               AnswerJob(p, v) = AnswerJob(q, w)
        PROVE  p = q /\ v = w
    <2>1. N \in Nat \ {0} /\ p \in Nat /\ q \in Nat /\ v \in 1 .. N /\ w \in 1 .. N
      BY AccountAssumption DEF Rows
    <2>2. p = q
      BY <1>4, <1>5, <2>1
    <2>3. N * p \in Int
      BY <2>1
    <2> QED
      BY <1>5, <2>1, <2>2, <2>3 DEF AnswerJob
  <1> QED
    BY <1>1, <1>3, <1>5

-----------------------------------------------------------------------------
\* No request becomes a confirmation.
Quiet == \A r \in InFlight : request'[r] = request[r] \/ request'[r].op \notin Confirmations

\* A request enters.
LEMMA Enters == ASSUME ReqInv, NEW op, NEW u, NEW row, NEW what, NEW seen,
                       Enter(op, u, row, what, seen),
                       ReqOK([op |-> op, user |-> u, row |-> row, what |-> what, seen |-> seen])
                PROVE  ReqInv' /\ (op \notin Confirmations => Quiet)
  <1> DEFINE q == [op |-> op, user |-> u, row |-> row, what |-> what, seen |-> seen]
  <1>1. left' \in Nat /\ scenario' \in DOMAIN Scenarios
    BY DEF ReqInv, RequestsTypeOK, Enter
  <1>2. PICK r \in InFlight : request' = [request EXCEPT ![r] = q]
    BY DEF Enter
  <1>3. DOMAIN request' = InFlight /\ \A k \in InFlight : request'[k] = IF k = r THEN q ELSE request[k]
    BY <1>2 DEF ReqInv, RequestsTypeOK
  <1>4. ReqOK(q)
    OBVIOUS
  <1>5. ASSUME NEW k \in InFlight PROVE ReqOK(request'[k])
    BY <1>3, <1>4 DEF ReqInv
  <1>6. op \notin Confirmations => Quiet
    BY <1>3 DEF Quiet
  <1>7. \A k \in InFlight : ReqOK(request[k])'
    BY <1>5 DEF ReqOK
  <1> QED
    BY <1>1, <1>3, <1>6, <1>7 DEF ReqInv, RequestsTypeOK

\* One that has nothing to read first.
LEMMA OnceAsked == ASSUME ReqInv, NEW op, AtOnce(op) PROVE ReqInv' /\ Quiet
  BY DEF ReqInv, RequestsTypeOK, AtOnce, ReqOK, Quiet

\* A request goes on.
LEMMA Goes == ASSUME ReqInv, NEW r \in InFlight, NEW q, Proceed(r, q), ReqOK(q)
              PROVE  ReqInv' /\ (q.op \notin Confirmations => Quiet)
  <1>1. left' \in Nat /\ scenario' \in DOMAIN Scenarios
    BY DEF ReqInv, RequestsTypeOK, Proceed
  <1>2. DOMAIN request' = InFlight /\ \A k \in InFlight : request'[k] = IF k = r THEN q ELSE request[k]
    BY DEF ReqInv, RequestsTypeOK, Proceed
  <1>3. \A k \in InFlight : ReqOK(request'[k])
    BY <1>2 DEF ReqInv
  <1>4. \A k \in InFlight : ReqOK(request[k])'
    BY <1>3 DEF ReqOK
  <1>5. q.op \notin Confirmations => Quiet
    BY <1>2 DEF Quiet
  <1> QED
    BY <1>1, <1>2, <1>4, <1>5 DEF ReqInv, RequestsTypeOK

\* A request that ends is no confirmation any more.
LEMMA Ends == ASSUME ReqInv, NEW r \in InFlight, End(r) PROVE ReqInv' /\ Quiet
  <1>1. ReqOK(NoRequest) /\ NoRequest.op \notin Confirmations
    BY DEF ReqOK, NoRequest, Confirmations, AboutIdentity, Callbacks
  <1> QED
    BY <1>1, Goes DEF End

\* A callback goes on as the operation it resolved to.
LEMMA Continues == ASSUME ReqInv, NEW r \in InFlight, NEW op, NEW u \in Rows \cup {0},
                          Continue(r, op, u, 0),
                          op \in {"session", "oauth_signup", "link", "delete"},
                          op # "session" /\ op # "delete" => request[r].what \in Identities
                   PROVE  ReqInv' /\ Quiet
  <1> DEFINE q == [op |-> op, user |-> u, row |-> 0, what |-> request[r].what,
                   seen |-> request[r].seen]
  <1>2. ReqOK(q) /\ q.op \notin Confirmations
    BY DEF ReqOK, AboutIdentity, Callbacks, Confirmations
  <1>3. Proceed(r, q)
    BY DEF Continue
  <1> QED
    BY <1>2, <1>3, Goes

\* Confirmations keep what they rely on while tokens only die and no account is deleted.
TokensKeep == \A t \in Rows : token[t].status # "NONE" =>
    /\ token'[t].status # "NONE" /\ token'[t].user = token[t].user
    /\ token'[t].status = "LIVE" => token[t].status = "LIVE"
UsersKeep == \A u \in Rows : user'[u].status = "DELETED" => user[u].status = "DELETED"

\* What a confirmation in flight relies on is kept by such a step.
LEMMA Confirms == ASSUME ReqInv, ConfirmInv, Quiet, TokensKeep, UsersKeep PROVE ConfirmInv'
  <1>1. ASSUME NEW r \in InFlight PROVE ConfirmOK(request[r])'
    <2>1. CASE request'[r].op \notin Confirmations
      BY <2>1 DEF ConfirmOK
    <2>2. CASE request'[r] = request[r] /\ request[r].op \in Confirmations
      <3>1. request[r].row \in Rows
        BY <2>2 DEF ReqInv, ReqOK
      <3> QED
        BY <2>2, <3>1 DEF ConfirmInv, ConfirmOK, TokensKeep, UsersKeep
    <2> QED
      BY <2>1, <2>2 DEF Quiet
  <1> QED
    BY <1>1 DEF ConfirmInv

\* What a step leaves alone keeps its part of the invariant.
LEMMA Untouched == ASSUME IInv
               PROVE  /\ UNCHANGED user => UserInv' /\ UsersKeep
                      /\ UNCHANGED session => SessionInv'
                      /\ UNCHANGED social => SocialInv'
                      /\ UNCHANGED token => TokenInv' /\ TokensKeep
                      /\ UNCHANGED state => StateInv'
                      /\ UNCHANGED invitation => InvitationInv'
                      /\ UNCHANGED guards => LinkInv'
                      /\ UNCHANGED inquiry => InquiryInv'
                      /\ UNCHANGED <<token, inquiry, job>> => FreshInv'
                      /\ UNCHANGED mailVars => MailInv' /\ Kept
  <1>1. UNCHANGED user => UserInv' /\ UsersKeep
    BY DEF IInv, UserInv, DeletedStaysAnonymous, UsersKeep
  <1>2. /\ UNCHANGED session => SessionInv'
        /\ UNCHANGED social => SocialInv'
        /\ UNCHANGED guards => LinkInv'
    BY DEF IInv, SessionInv, SocialInv, LinkInv
  <1>3. UNCHANGED token => TokenInv' /\ TokensKeep
    BY DEF IInv, TokenInv, TokensKeep
  <1>4. UNCHANGED state => StateInv'
    BY DEF IInv, StateInv
  <1>5. UNCHANGED invitation => InvitationInv'
    BY DEF IInv, InvitationInv
  <1>6. UNCHANGED inquiry => InquiryInv'
    BY DEF IInv, InquiryInv, AnswerIsNotified
  <1>7. UNCHANGED <<token, inquiry, job>> => FreshInv'
    BY DEF IInv, FreshInv, Fresh
  <1>8. ASSUME UNCHANGED mailVars PROVE MailInv' /\ Kept
    <2>1. MailRows'
      BY <1>8 DEF IInv, MailInv, MailRows, mailVars
    <2>2. \A w \in MailWorkers : WorkerOK(w)'
      BY <1>8 DEF IInv, MailInv, WorkerOK, mailVars
    <2>3. \A j \in Jobs : Room(j)'
      BY <1>8 DEF IInv, MailInv, Room, Holders, Tried, mailVars
    <2>4. Kept
      BY <1>8 DEF Kept, Tried, mailVars
    <2> QED
      BY <2>1, <2>2, <2>3, <2>4 DEF MailInv
  <1> QED
    BY <1>1, <1>2, <1>3, <1>4, <1>5, <1>6, <1>7, <1>8

\* A step that leaves answers and jobs alone, lets tokens only die and deletes no account.
LEMMA Settles ==
    ASSUME IInv, ReqInv', Quiet, UsersKeep, TokensKeep, UNCHANGED <<inquiry, mailVars>>,
           UserInv', TokenInv', SessionInv', SocialInv', StateInv', InvitationInv', LinkInv'
    PROVE  IInv' /\ Kept
  <1>1. UNCHANGED inquiry /\ UNCHANGED mailVars /\ UNCHANGED job
    BY DEF mailVars
  <1>2. InquiryInv' /\ MailInv' /\ Kept
    BY <1>1, Untouched
  <1>3. FreshInv'
    BY <1>1 DEF IInv, FreshInv, Fresh, TokensKeep
  <1>4. ConfirmInv'
    BY Confirms DEF IInv
  <1> QED
    BY <1>2, <1>3, <1>4 DEF IInv

\* No table changes.
LEMMA TablesUntouched ==
    ASSUME IInv, ReqInv', Quiet, UNCHANGED <<accountVars, familyVars, inquiry, mailVars>>
    PROVE  IInv' /\ Kept
  <1>1. /\ UNCHANGED <<user, session, token, social, state>>
        /\ UNCHANGED <<invitation, guards, inquiry>>
    BY DEF accountVars, familyVars
  <1>2. /\ UserInv' /\ UsersKeep /\ TokenInv' /\ TokensKeep
        /\ SessionInv' /\ SocialInv' /\ StateInv' /\ InvitationInv' /\ LinkInv'
    BY <1>1, Untouched
  <1> QED
    BY <1>2, Settles

-----------------------------------------------------------------------------
\* The tables of a scenario.
LEMMA Starts == ASSUME Init PROVE IInv
  <1>1. /\ scenario \in DOMAIN Scenarios /\ left \in Nat
        /\ Asked.members \subseteq Rows /\ Asked.members \subseteq Emails
    BY AccountAssumption DEF Init, TablesInit, RequestsInit, Asked
  <1>2. 1 \in Rows /\ N \in Nat
    BY AccountAssumption DEF Rows
  <1>3. ReqInv /\ ConfirmInv
    <2>1. \A r \in InFlight : request[r] = NoRequest
      BY DEF Init, TablesInit, RequestsInit
    <2>2. ReqOK(NoRequest) /\ NoRequest.op \notin Confirmations
      BY DEF ReqOK, NoRequest, Confirmations, AboutIdentity, Callbacks
    <2>3. RequestsTypeOK
      BY <1>1 DEF Init, TablesInit, RequestsInit, RequestsTypeOK
    <2> QED
      BY <2>1, <2>2, <2>3 DEF ReqInv, ConfirmInv, ConfirmOK
  <1>4. UserInv
    BY <1>1 DEF Init, TablesInit, UserInv, UserRows, DeletedStaysAnonymous, Member, NoUser,
                AccountStatus, MinorStatus
  <1>5. SessionInv /\ SocialInv
    BY DEF Init, TablesInit, SessionInv, SessionRows, NoSession, SocialInv
  <1>6. TokenInv /\ StateInv
    BY DEF Init, TablesInit, TokenInv, TokenRows, NoToken, StateInv, StateRows, NoState
  <1>7. InvitationInv /\ LinkInv
    BY DEF Init, TablesInit, InvitationInv, InvitationRows, InvitationRow, NoInvitation, LinkInv, LinkRows, NoLink
  <1>8. InquiryInv
    BY <1>2 DEF Init, TablesInit, InquiryInv, InquiryRows, AnswerIsNotified
  <1>9. FreshInv
    BY JobsDiffer DEF Init, MailInit, FreshInv, Fresh, NoJob
  <1>10. MailInv
    <2>1. MaxAttempts \in Nat /\ MaxReopens \in Nat /\ MaxFaults \in Nat
      BY MailAssumption
    <2>2. MailRows
      BY <2>1 DEF Init, MailInit, MailRows, JobRow, MailerRow, NoJob, IdleMailer, Tables, JobStatus
    <2>3. \A w \in MailWorkers : WorkerOK(w)
      BY DEF Init, MailInit, WorkerOK, IdleMailer
    <2>4. ASSUME NEW j \in Jobs PROVE Room(j)
      <3>1. Holders(j) = {}
        BY DEF Init, MailInit, Holders, IdleMailer
      <3>2. Tried(j) = 0
        BY <2>1 DEF Init, MailInit, Tried, NoJob
      <3> QED
        BY <3>1, <3>2, FS_EmptySet DEF Init, MailInit, Room
    <2> QED
      BY <2>2, <2>3, <2>4 DEF MailInv
  <1> QED
    BY <1>3, <1>4, <1>5, <1>6, <1>7, <1>8, <1>9, <1>10 DEF IInv

\* A request about something other than a token begins.
LEMMA Begun == ASSUME IInv, NEW op, NEW u, NEW row, NEW what, NEW seen,
                      Begin(op, u, row, what, seen), op \notin Confirmations,
                      ReqOK([op |-> op, user |-> u, row |-> row, what |-> what, seen |-> seen])
               PROVE  IInv' /\ Kept
  BY Enters, TablesUntouched DEF Begin, IInv

\* One that presents a token: it is live, and so is its user.
LEMMA BeginsConfirmation == ASSUME IInv, NEW t \in Rows, NEW op, StartConfirmation(t, op)
                            PROVE  IInv' /\ Kept
  <1> DEFINE q == [op |-> op, user |-> token[t].user, row |-> t, what |-> None, seen |-> {}]
  <1>1. token[t].user \in Rows \cup {0} /\ op \in Confirmations
    BY DEF StartConfirmation, IInv, TokenInv, TokenRows, Confirmations
  <1>2. ReqOK(q)
    BY <1>1 DEF ReqOK, Confirmations, AboutIdentity, Callbacks
  <1>3. ReqInv'
    BY <1>2, Enters DEF StartConfirmation, Begin, IInv
  <1>4. PICK r \in InFlight : request' = [request EXCEPT ![r] = q]
    BY DEF StartConfirmation, Begin, Enter
  <1>5. \A k \in InFlight : request'[k] = IF k = r THEN q ELSE request[k]
    BY <1>4 DEF IInv, ReqInv, RequestsTypeOK
  <1>6. UNCHANGED <<accountVars, familyVars, inquiry, mailVars>>
    BY DEF StartConfirmation, Begin
  <1>7. /\ UNCHANGED <<user, session, token, social, state>>
        /\ UNCHANGED <<invitation, guards, inquiry>>
        /\ UNCHANGED mailVars /\ UNCHANGED job
    BY <1>6 DEF accountVars, familyVars, mailVars
  <1>8. ConfirmOK(q)
    BY DEF StartConfirmation, ConfirmOK, Active, IInv, TokenInv
  <1>9. ConfirmInv'
    BY <1>5, <1>7, <1>8 DEF IInv, ConfirmInv, ConfirmOK
  <1>10. /\ UserInv' /\ TokenInv' /\ SessionInv' /\ SocialInv' /\ StateInv' /\ InvitationInv'
         /\ LinkInv' /\ InquiryInv' /\ FreshInv' /\ MailInv' /\ Kept
    BY <1>7, Untouched
  <1> QED
    BY <1>3, <1>9, <1>10 DEF IInv

\* Every operation begins.
LEMMA AllBegin == ASSUME IInv, Begins PROVE IInv' /\ Kept
  <1> USE DEF ReqOK, AboutIdentity, Callbacks, Confirmations
  <1>1. Asked.minors \subseteq MinorStatus
    BY AccountAssumption DEF IInv, ReqInv, RequestsTypeOK, Asked
  <1>2. ASSUME NEW e \in Emails, StartSignup(e) PROVE IInv' /\ Kept
    BY <1>2, Begun DEF StartSignup
  <1>3. ASSUME NEW u \in Rows, NEW m \in Asked.minors, StartDeclaration(u, m) PROVE IInv' /\ Kept
    BY <1>1, <1>3, Begun DEF StartDeclaration
  <1>4. ASSUME NEW u \in Rows, \/ StartResetRequest(u) \/ StartVerificationRequest(u)
                               \/ StartLogin(u) \/ StartDeletion(u) PROVE IInv' /\ Kept
    BY <1>4, Begun DEF StartResetRequest, StartVerificationRequest, StartLogin, StartDeletion
  <1>5. ASSUME NEW s \in Rows, StartRefresh(s) \/ StartLogout(s) PROVE IInv' /\ Kept
    <2>1. session[s].user \in Rows \cup {0}
      BY DEF IInv, SessionInv, SessionRows
    <2> QED
      BY <1>5, <2>1, Begun DEF StartRefresh, StartLogout
  <1>6. ASSUME NEW u \in Rows, NEW i \in Identities, StartUnlink(u, i) PROVE IInv' /\ Kept
    BY <1>6, Begun DEF StartUnlink
  <1>7. ASSUME NEW u \in Rows, NEW e \in Emails, StartInvitation(u, e) PROVE IInv' /\ Kept
    BY <1>7, Begun DEF StartInvitation
  <1>8. ASSUME NEW g \in Rows, NEW i \in Rows, NEW paid \in SUBSET {"minor_paid_subscription"},
               StartAcceptance(g, i, paid)
        PROVE  IInv' /\ Kept
    <2> DEFINE consents == {"guardian_learning_access"} \cup paid
                             \cup (IF user[invitation[i].student].minor = "GUARDIAN_CONSENT_PENDING"
                                   THEN {"child_account"} ELSE {})
    <2>1. consents \subseteq Consents
      BY DEF Consents
    <2>2. Begin("accept", g, i, None, consents)
      BY <1>8 DEF StartAcceptance
    <2> HIDE DEF consents
    <2> QED
      BY <2>1, <2>2, Begun
  <1>9. ASSUME NEW u \in Rows, NEW p \in Rows \X Rows, StartRevocation(u, p) PROVE IInv' /\ Kept
    BY <1>9, Begun DEF StartRevocation
  <1>10. ASSUME NEW q \in Inquiries, StartAnswer(q) PROVE IInv' /\ Kept
    BY <1>10, Begun DEF StartAnswer
  <1>11. ASSUME NEW q \in Inquiries, NEW next \in {"IN_REVIEW", "CLOSED"}, StartStatus(q, next)
         PROVE  IInv' /\ Kept
    BY <1>11, Begun DEF StartStatus
  <1> QED
    BY <1>2, <1>3, <1>4, <1>5, <1>6, <1>7, <1>8, <1>9, <1>10, <1>11, BeginsConfirmation DEF Begins

-----------------------------------------------------------------------------
\* The steps of a social sign-in before its callback: only states change.
LEMMA OAuthBegins ==
    ASSUME IInv, NEW a \in Rows, NEW purpose \in {"LOGIN", "LINK", "DELETE_ACCOUNT"},
           NEW u \in Rows \cup {0}, NEW p \in Providers, StartOAuth(a, purpose, u, p)
    PROVE  IInv' /\ Kept
  <1>1. UNCHANGED <<user, session, token, social, familyVars, inquiry, mailVars>>
    BY DEF StartOAuth
  <1>2. ReqInv' /\ Quiet
    BY OnceAsked DEF StartOAuth, IInv
  <1>3. state[a].status = "NONE"
        /\ state' = [state EXCEPT ![a] = [status |-> "LIVE", purpose |-> purpose, user |-> u,
                                          provider |-> p, uses |-> 0]]
    BY DEF StartOAuth, Unused
  <1>4. StateInv'
    BY <1>3 DEF StateInv, StateRows, IInv
  <1>5. UNCHANGED <<user, session, token, social, invitation, guards>>
    BY <1>1 DEF familyVars
  <1>6. /\ UserInv' /\ UsersKeep /\ TokenInv' /\ TokensKeep /\ SessionInv' /\ SocialInv'
        /\ InvitationInv' /\ LinkInv'
    BY <1>5, Untouched
  <1> QED
    BY <1>1, <1>2, <1>4, <1>6, Settles

\* A claim spends the state, and the callback goes on or is lost.
LEMMA ClaimsState == ASSUME IInv, NEW a \in Rows, NEW i \in Identities, ClaimState(a, i)
                     PROVE  IInv' /\ Kept
  <1>1. state[a].status = "LIVE" /\ state[a].user \in Rows \cup {0}
        /\ state[a].purpose \in {"LOGIN", "LINK", "DELETE_ACCOUNT"}
    BY DEF ClaimState, IInv, StateInv, StateRows
  <1>2. Callback(state[a].purpose) \in Callbacks
    BY <1>1 DEF Callback, Callbacks
  <1>3. ReqInv' /\ Quiet
    <2> DEFINE op == Callback(state[a].purpose)
               q == [op |-> op, user |-> state[a].user, row |-> 0, what |-> i, seen |-> {}]
    <2>1. op \in Callbacks
      BY <1>2
    <2> HIDE DEF op
    <2>2. ReqOK(q) /\ op \notin Confirmations
      BY <1>1, <2>1 DEF ReqOK, Confirmations, AboutIdentity, Callbacks
    <2>3. Enter(op, state[a].user, 0, i, {}) \/ AtOnce(op)
      BY DEF ClaimState, op
    <2> QED
      BY <2>2, <2>3, Enters, OnceAsked DEF IInv
  <1>4. state' = [state EXCEPT ![a].status = "CONSUMED", ![a].uses = @ + 1]
    BY DEF ClaimState
  <1>5. StateInv'
    BY <1>1, <1>4 DEF StateInv, StateRows, IInv
  <1>6. UNCHANGED <<user, session, token, social, invitation, guards>>
    BY DEF ClaimState, familyVars
  <1>7. /\ UserInv' /\ UsersKeep /\ TokenInv' /\ TokensKeep /\ SessionInv' /\ SocialInv'
        /\ InvitationInv' /\ LinkInv'
    BY <1>6, Untouched
  <1> QED
    BY <1>3, <1>5, <1>7, Settles DEF ClaimState

-----------------------------------------------------------------------------
\* Jobs that appear or go away take no try with them.
LEMMA JobsSteady ==
    ASSUME IInv, UNCHANGED <<mailer, mailed, reopened, faults>>,
           \A j \in Jobs : job'[j].attempts = job[j].attempts,
           job' \in [Jobs -> JobRow]
    PROVE  MailInv' /\ Kept
  <1>1. MailRows'
    BY DEF IInv, MailInv, MailRows
  <1>2. \A w \in MailWorkers : WorkerOK(w)'
    BY DEF IInv, MailInv, WorkerOK
  <1>3. \A j \in Jobs : Tried(j)' = Tried(j)
    BY DEF Tried
  <1>4. \A j \in Jobs : Room(j)'
    BY <1>3 DEF IInv, MailInv, Room, Holders
  <1>5. Kept
    BY <1>3 DEF Kept
  <1> QED
    BY <1>1, <1>2, <1>4, <1>5 DEF MailInv

\* The job of a deleted token.
LEMMA JobDropped == ASSUME NEW x \in JobRow
                    PROVE  LET y == [x EXCEPT !.status = "NONE", !.secret = FALSE]
                           IN  y \in JobRow /\ y.attempts = x.attempts /\ y.status = "NONE"
  <1> DEFINE z == [x EXCEPT !.status = "NONE"]
  <1>1. z \in JobRow /\ z.attempts = x.attempts /\ z.status = "NONE"
    BY DEF JobRow, JobStatus
  <1> HIDE DEF z
  <1>2. /\ [z EXCEPT !.secret = FALSE] \in JobRow
        /\ [z EXCEPT !.secret = FALSE].attempts = z.attempts
        /\ [z EXCEPT !.secret = FALSE].status = z.status
    BY <1>1 DEF JobRow
  <1> QED
    BY <1>1, <1>2 DEF z

\* A job is added.
LEMMA JobAdded ==
    ASSUME IInv, NEW j \in Jobs, Fresh(j), NEW table \in Tables,
           job' = [job EXCEPT ![j] = NewJob(table)], UNCHANGED <<mailer, mailed, reopened, faults>>
    PROVE  /\ MailInv' /\ Kept
           /\ \A k \in Jobs : k # j => job'[k] = job[k]
  <1>1. job \in [Jobs -> JobRow]
    BY DEF IInv, MailInv, MailRows
  <1>2. NewJob(table) \in JobRow
    BY MailAssumption DEF NewJob, JobRow, JobStatus
  <1>3. \A k \in Jobs : job'[k] = IF k = j THEN NewJob(table) ELSE job[k]
    BY <1>1
  <1>4. \A k \in Jobs : job'[k].attempts = job[k].attempts
    BY <1>3 DEF Fresh, NewJob
  <1> QED
    BY <1>1, <1>2, <1>3, <1>4, JobsSteady

\* A token with its job.
LEMMA TokenAdded ==
    ASSUME IInv, NEW t \in Unused(token), NEW u \in Rows,
           NEW purpose \in {"PASSWORD_RESET", "EMAIL_VERIFICATION"}, NEW old,
           NewToken(t, u, purpose, old), UNCHANGED inquiry
    PROVE  TokenInv' /\ TokensKeep /\ FreshInv' /\ MailInv' /\ Kept
  <1>1. t \in Rows /\ token[t].status = "NONE"
    BY DEF Unused
  <1>2. \A k \in Rows : token'[k] =
          IF k = t THEN [status |-> "LIVE", purpose |-> purpose, user |-> u, uses |-> 0]
          ELSE IF k \in old /\ token[k].status = "LIVE"
               THEN [token[k] EXCEPT !.status = "CONSUMED"] ELSE token[k]
    BY DEF NewToken
  <1>3. token \in TokenRows /\ token' = [k \in Rows |-> token'[k]]
    BY DEF NewToken, IInv, TokenInv
  <1>4. ASSUME NEW k \in Rows
        PROVE  /\ token'[k] \in [status: {"NONE", "LIVE", "CONSUMED", "DELETED"},
                                 purpose: {"PASSWORD_RESET", "EMAIL_VERIFICATION"},
                                 user: Rows \cup {0}, uses: Nat]
               /\ token'[k].uses <= 1
               /\ token'[k].status \in {"NONE", "LIVE"} => token'[k].uses = 0
               /\ token'[k].status # "NONE" => token'[k].user \in Rows
               /\ k # t => /\ token'[k].user = token[k].user
                           /\ token'[k].status = "NONE" <=> token[k].status = "NONE"
                           /\ token'[k].status = "LIVE" => token[k].status = "LIVE"
               /\ token'[t].status # "NONE"
    BY <1>1, <1>2, <1>3 DEF IInv, TokenInv, TokenRows
  <1>5. TokenInv'
    BY <1>3, <1>4 DEF TokenInv, TokenRows
  <1>6. TokensKeep
    BY <1>1, <1>4 DEF TokensKeep
  <1>7. Fresh(TokenJob(t)) /\ TokenJob(t) \in Jobs /\ "account" \in Tables
    BY <1>1, JobsDiffer DEF IInv, FreshInv, Tables
  <1>8. /\ MailInv' /\ Kept
        /\ \A k \in Jobs : k # TokenJob(t) => job'[k] = job[k]
    BY <1>7, JobAdded DEF NewToken
  <1>9. FreshInv'
    <2>1. ASSUME NEW k \in Rows, token'[k].status = "NONE" PROVE Fresh(TokenJob(k))'
      <3>1. token[k].status = "NONE" /\ k # t
        BY <1>4, <2>1
      <3>2. TokenJob(k) \in Jobs /\ TokenJob(k) # TokenJob(t)
        BY <3>1, JobsDiffer DEF TokenJob
      <3> QED
        BY <1>8, <3>1, <3>2 DEF IInv, FreshInv, Fresh
    <2>2. ASSUME NEW q \in Inquiries, NEW v \in Rows, inquiry'[q].version < v
          PROVE  Fresh(AnswerJob(q, v))'
      <3>1. AnswerJob(q, v) \in Jobs /\ AnswerJob(q, v) # TokenJob(t)
        BY <1>1, JobsDiffer
      <3> QED
        BY <1>8, <2>2, <3>1 DEF IInv, FreshInv, Fresh
    <2> QED
      BY <2>1, <2>2 DEF FreshInv
  <1> QED
    BY <1>5, <1>6, <1>8, <1>9

-----------------------------------------------------------------------------
\* A request whose transaction finds that it came too late.
LEMMA Refused == ASSUME IInv, NEW r \in InFlight, Refuse(r) PROVE IInv' /\ Kept
  BY Ends, TablesUntouched DEF Refuse, IInv

\* A new session of the account in row u, if there is one.
LEMMA SessionAdded == ASSUME IInv, NEW s \in Rows, NEW u \in Rows \cup {0}, NewSession(s, u)
                      PROVE  SessionInv'
  BY DEF NewSession, IInv, SessionInv, SessionRows

\* A sign-up adds an account, a session and a token with its job.
LEMMA SignsUp == ASSUME IInv, NEW r \in InFlight, NEW minor \in MinorStatus, Signup(r, minor)
                 PROVE  IInv' /\ Kept
  <1>1. CASE Refuse(r)
    BY <1>1, Refused
  <1>2. ASSUME NEW u \in Unused(user), NEW s \in Unused(session), NEW t \in Unused(token),
               user' = [user EXCEPT ![u] = NewUser(request[r].what, 1, FALSE, minor)],
               NewSession(s, u), NewToken(t, u, "EMAIL_VERIFICATION", {}), End(r),
               UNCHANGED <<social, state, familyVars, inquiry>>
        PROVE  IInv' /\ Kept
    <2>1. u \in Rows /\ s \in Rows /\ user[u].status = "NONE"
      BY <1>2 DEF Unused
    <2>2. request[r].what \in Emails
      BY DEF Signup, IInv, ReqInv, ReqOK
    <2>3. ReqInv' /\ Quiet
      BY <1>2, Ends DEF IInv
    <2>4. TokenInv' /\ TokensKeep /\ FreshInv' /\ MailInv' /\ Kept
      BY <1>2, <2>1, TokenAdded
    <2>5. SessionInv'
      BY <1>2, <2>1, SessionAdded
    <2>6. user' = [user EXCEPT ![u] = NewUser(request[r].what, 1, FALSE, minor)]
      BY <1>2
    <2>7. UserInv' /\ UsersKeep
      BY <2>1, <2>2, <2>6 DEF IInv, UserInv, UserRows, UsersKeep, DeletedStaysAnonymous, AccountStatus,
                              NewUser
    <2>8. SocialInv' /\ StateInv' /\ InvitationInv' /\ LinkInv' /\ InquiryInv'
      BY <1>2, Untouched DEF familyVars
    <2>9. ConfirmInv'
      BY <2>3, <2>4, <2>7, Confirms DEF IInv
    <2> QED
      BY <2>3, <2>4, <2>5, <2>7, <2>8, <2>9 DEF IInv
  <1> QED
    BY <1>1, <1>2 DEF Signup

\* An age declaration changes the age status alone.
LEMMA Declares == ASSUME IInv, NEW r \in InFlight, DeclareAgeBand(r) PROVE IInv' /\ Kept
  <1>1. ReqInv' /\ Quiet
    BY Ends DEF DeclareAgeBand, IInv
  <1>2. request[r].what \in MinorStatus
    BY DEF DeclareAgeBand, IInv, ReqInv, ReqOK
  <1>3. user' = [user EXCEPT ![request[r].user].minor = request[r].what]
    BY DEF DeclareAgeBand
  <1>4. UserInv' /\ UsersKeep
    BY ZenonT(60), <1>2, <1>3 DEF IInv, UserInv, UserRows, UsersKeep, DeletedStaysAnonymous
  <1>5. /\ UNCHANGED <<session, token, social, state, invitation, guards, inquiry>>
        /\ UNCHANGED mailVars
    BY DEF DeclareAgeBand, familyVars
  <1>6. /\ TokenInv' /\ TokensKeep /\ SessionInv' /\ SocialInv' /\ StateInv'
        /\ InvitationInv' /\ LinkInv'
    BY <1>5, Untouched
  <1> QED
    BY <1>1, <1>4, <1>5, <1>6, Settles

\* A request for a link adds a token with its job and consumes the older ones.
LEMMA IssuesToken == ASSUME IInv, NEW r \in InFlight, IssueToken(r) PROVE IInv' /\ Kept
  <1>1. ReqInv' /\ Quiet
    BY Ends DEF IssueToken, IInv
  <1>2. request[r].user \in Rows
    BY DEF IssueToken, IInv, ReqInv, ReqOK
  <1>3. Purpose(request[r].op) \in {"PASSWORD_RESET", "EMAIL_VERIFICATION"}
    BY DEF Purpose
  <1>4. PICK t \in Unused(token),
             old \in {request[r].seen, LiveTokens(request[r].user, Purpose(request[r].op))} :
          NewToken(t, request[r].user, Purpose(request[r].op), old)
    BY DEF IssueToken
  <1>5. UNCHANGED <<user, session, social, state, invitation, guards, inquiry>>
    BY DEF IssueToken, familyVars
  <1>6. TokenInv' /\ TokensKeep /\ FreshInv' /\ MailInv' /\ Kept
    <2> DEFINE purpose == Purpose(request[r].op)
    <2>1. purpose \in {"PASSWORD_RESET", "EMAIL_VERIFICATION"}
      BY <1>3
    <2>2. NewToken(t, request[r].user, purpose, old)
      BY <1>4
    <2> HIDE DEF purpose
    <2> QED
      BY <2>1, <2>2, <1>2, <1>5, TokenAdded
  <1>7. /\ UserInv' /\ UsersKeep /\ SessionInv' /\ SocialInv' /\ StateInv'
        /\ InvitationInv' /\ LinkInv' /\ InquiryInv'
    BY <1>5, Untouched
  <1>8. ConfirmInv'
    BY <1>1, <1>6, <1>7, Confirms DEF IInv
  <1> QED
    BY <1>1, <1>6, <1>7, <1>8 DEF IInv

\* A live token is consumed once.
LEMMA TokenConsumed ==
    ASSUME IInv, NEW t \in Rows, token[t].status = "LIVE", ConsumeToken(t)
    PROVE  TokenInv' /\ TokensKeep
  <1>1. \A k \in Rows : token'[k] =
           IF k = t THEN [token[k] EXCEPT !.status = "CONSUMED", !.uses = @ + 1]
           ELSE IF k \in LiveTokens(token[t].user, token[t].purpose)
                THEN [token[k] EXCEPT !.status = "CONSUMED"] ELSE token[k]
    BY DEF ConsumeToken
  <1>2. token \in TokenRows /\ token' = [k \in Rows |-> token'[k]]
    BY DEF ConsumeToken, IInv, TokenInv
  <1>3. ASSUME NEW k \in Rows
        PROVE  /\ token'[k] \in [status: {"NONE", "LIVE", "CONSUMED", "DELETED"},
                                 purpose: {"PASSWORD_RESET", "EMAIL_VERIFICATION"},
                                 user: Rows \cup {0}, uses: Nat]
               /\ token'[k].uses <= 1
               /\ token'[k].status \in {"NONE", "LIVE"} => token'[k].uses = 0
               /\ token'[k].user = token[k].user
               /\ token'[k].status = "NONE" <=> token[k].status = "NONE"
               /\ token'[k].status = "LIVE" => token[k].status = "LIVE"
    <2>1. /\ token[k] \in [status: {"NONE", "LIVE", "CONSUMED", "DELETED"},
                           purpose: {"PASSWORD_RESET", "EMAIL_VERIFICATION"},
                           user: Rows \cup {0}, uses: Nat]
          /\ token[k].uses <= 1
          /\ token[k].status \in {"NONE", "LIVE"} => token[k].uses = 0
      BY DEF IInv, TokenInv, TokenRows
    <2>2. CASE k = t
      <3>1. token'[k] = [token[k] EXCEPT !.status = "CONSUMED", !.uses = @ + 1]
        BY <1>1, <2>2
      <3>2. /\ token'[k].status = "CONSUMED" /\ token'[k].uses = token[k].uses + 1
            /\ token'[k].user = token[k].user
        BY <2>1, <3>1
      <3>3. token'[k] \in [status: {"NONE", "LIVE", "CONSUMED", "DELETED"},
                           purpose: {"PASSWORD_RESET", "EMAIL_VERIFICATION"},
                           user: Rows \cup {0}, uses: Nat]
        <4> DEFINE x == [token[k] EXCEPT !.status = "CONSUMED"]
        <4>1. x \in [status: {"NONE", "LIVE", "CONSUMED", "DELETED"},
                     purpose: {"PASSWORD_RESET", "EMAIL_VERIFICATION"},
                     user: Rows \cup {0}, uses: Nat]
          BY <2>1
        <4>2. token'[k] = [x EXCEPT !.uses = x.uses + 1]
          BY <3>1
        <4> HIDE DEF x
        <4>3. x.uses + 1 \in Nat
          BY <4>1
        <4> QED
          BY <4>1, <4>2, <4>3
      <3>4. token[k].uses = 0 /\ token[k].status = "LIVE"
        BY <2>1, <2>2
      <3> QED
        BY <3>2, <3>3, <3>4
    <2>3. CASE k # t
      BY ZenonT(60), <1>1, <2>1, <2>3 DEF LiveTokens
    <2> QED
      BY <2>2, <2>3
  <1>4. TokenInv'
    BY <1>2, <1>3 DEF IInv, TokenInv, TokenRows
  <1> QED
    BY <1>3, <1>4 DEF TokensKeep

\* A reset: the account of a live token is not deleted, so its password may change.
LEMMA ResetsPassword == ASSUME IInv, NEW r \in InFlight, ConfirmReset(r) PROVE IInv' /\ Kept
  <1> DEFINE u == request[r].user
             t == request[r].row
  <1>1. CASE Refuse(r)
    BY <1>1, Refused
  <1>2. CASE /\ token[t].status = "LIVE" /\ ConsumeToken(t)
             /\ user' = [user EXCEPT ![u].password = @ + 1]
             /\ session' = [s \in Rows |->
                  IF session[s] = [status |-> "LIVE", user |-> u]
                  THEN [session[s] EXCEPT !.status = "REVOKED"] ELSE session[s]]
             /\ End(r)
             /\ UNCHANGED <<social, state, familyVars, inquiry, mailVars>>
    <2>1. ReqInv' /\ Quiet
      BY <1>2, Ends DEF IInv
    <2>2. t \in Rows /\ u \in Rows /\ user[u].status # "DELETED"
      BY <1>2 DEF ConfirmReset, IInv, ReqInv, ReqOK, ConfirmInv, ConfirmOK, Confirmations
    <2>3. TokenInv' /\ TokensKeep
      BY <1>2, <2>2, TokenConsumed
    <2>4. UserInv' /\ UsersKeep
      BY <1>2, <2>2 DEF IInv, UserInv, UserRows, UsersKeep, DeletedStaysAnonymous
    <2>5. SessionInv'
      BY <1>2 DEF IInv, SessionInv, SessionRows
    <2>6. UNCHANGED <<social, state, invitation, guards, inquiry>> /\ UNCHANGED mailVars
      BY <1>2 DEF familyVars
    <2>7. SocialInv' /\ StateInv' /\ InvitationInv' /\ LinkInv'
      BY <2>6, Untouched
    <2> QED
      BY <2>1, <2>3, <2>4, <2>5, <2>6, <2>7, Settles
  <1> QED
    BY <1>1, <1>2 DEF ConfirmReset

\* A verification, likewise.
LEMMA VerifiesAddress == ASSUME IInv, NEW r \in InFlight, ConfirmVerification(r)
                         PROVE  IInv' /\ Kept
  <1> DEFINE u == request[r].user
             t == request[r].row
  <1>1. CASE Refuse(r)
    BY <1>1, Refused
  <1>2. CASE /\ token[t].status = "LIVE" /\ ConsumeToken(t)
             /\ user' = [user EXCEPT ![u].verified = TRUE]
             /\ End(r)
             /\ UNCHANGED <<session, social, state, familyVars, inquiry, mailVars>>
    <2>1. ReqInv' /\ Quiet
      BY <1>2, Ends DEF IInv
    <2>2. t \in Rows /\ u \in Rows /\ user[u].status # "DELETED"
      BY <1>2 DEF ConfirmVerification, IInv, ReqInv, ReqOK, ConfirmInv, ConfirmOK, Confirmations
    <2>3. TokenInv' /\ TokensKeep
      BY <1>2, <2>2, TokenConsumed
    <2>4. UserInv' /\ UsersKeep
      BY ZenonT(60), <1>2, <2>2 DEF IInv, UserInv, UserRows, UsersKeep, DeletedStaysAnonymous
    <2>5. UNCHANGED <<session, social, state, invitation, guards, inquiry>> /\ UNCHANGED mailVars
      BY <1>2 DEF familyVars
    <2>6. SessionInv' /\ SocialInv' /\ StateInv' /\ InvitationInv' /\ LinkInv'
      BY <2>5, Untouched
    <2> QED
      BY <2>1, <2>3, <2>4, <2>5, <2>6, Settles
  <1> QED
    BY <1>1, <1>2 DEF ConfirmVerification

-----------------------------------------------------------------------------
\* Steps that only change sessions, or only social links.
LEMMA SessionsMove ==
    ASSUME IInv, ReqInv', Quiet, SessionInv',
           UNCHANGED <<user, token, social, state, familyVars, inquiry, mailVars>>
    PROVE  IInv' /\ Kept
  <1>1. UNCHANGED <<user, token, social, state, invitation, guards>>
    BY DEF familyVars
  <1>2. /\ UserInv' /\ UsersKeep /\ TokenInv' /\ TokensKeep
        /\ SocialInv' /\ StateInv' /\ InvitationInv' /\ LinkInv'
    BY <1>1, Untouched
  <1> QED
    BY <1>2, Settles

\* And of social links.
LEMMA LinksMove ==
    ASSUME IInv, ReqInv', Quiet, SocialInv',
           UNCHANGED <<user, session, token, state, familyVars, inquiry, mailVars>>
    PROVE  IInv' /\ Kept
  <1>1. UNCHANGED <<user, session, token, state, invitation, guards>>
    BY DEF familyVars
  <1>2. /\ UserInv' /\ UsersKeep /\ TokenInv' /\ TokensKeep
        /\ SessionInv' /\ StateInv' /\ InvitationInv' /\ LinkInv'
    BY <1>1, Untouched
  <1> QED
    BY <1>2, Settles

\* A sign-in ends with a session.
LEMMA OpensSession == ASSUME IInv, NEW r \in InFlight, OpenSession(r) PROVE IInv' /\ Kept
  <1>1. ReqInv' /\ Quiet
    BY Ends DEF OpenSession, IInv
  <1>2. request[r].user \in Rows \cup {0}
    BY DEF IInv, ReqInv, ReqOK
  <1>3. SessionInv'
    BY <1>2, SessionAdded DEF OpenSession, Unused
  <1> QED
    BY <1>1, <1>3, SessionsMove DEF OpenSession

\* A renewal replaces a session, a sign-out revokes it.
LEMMA Refreshes == ASSUME IInv, NEW r \in InFlight, Refresh(r) \/ Logout(r) PROVE IInv' /\ Kept
  <1> DEFINE s == request[r].row
  <1>1. CASE Refuse(r)
    BY <1>1, Refused
  <1>2. request[r].user \in Rows \cup {0}
    BY DEF IInv, ReqInv, ReqOK
  <1>3. CASE End(r) /\ UNCHANGED <<user, token, social, state, familyVars, inquiry, mailVars>>
             /\ (\/ session' = [session EXCEPT ![s].status = "REVOKED"]
                 \/ \E next \in Rows : session' = [session EXCEPT ![s].status = "REVOKED",
                          ![next] = [status |-> "LIVE", user |-> request[r].user]])
    <2>1. ReqInv' /\ Quiet
      BY <1>3, Ends DEF IInv
    <2>2. SessionInv'
      BY <1>2, <1>3 DEF IInv, SessionInv, SessionRows
    <2> QED
      BY <1>3, <2>1, <2>2, SessionsMove
  <1> QED
    BY <1>1, <1>3 DEF Refresh, Logout, Unused

\* A callback looks up what it is about.
LEMMA Resolves ==
    ASSUME IInv, NEW r \in InFlight, ResolveUser(r) \/ CheckLink(r) \/ CheckDeletion(r)
    PROVE  IInv' /\ Kept
  <1>1. request[r].user \in Rows \cup {0} /\ request[r].what \in Identities
    BY DEF IInv, ReqInv, ReqOK, ResolveUser, CheckLink, CheckDeletion, AboutIdentity, Callbacks
  <1>2. social[request[r].what] \in Rows \cup {0}
    BY <1>1 DEF IInv, SocialInv
  <1>3. \/ End(r)
        \/ \E op \in {"session", "oauth_signup", "link", "delete"}, u \in Rows \cup {0} :
              Continue(r, op, u, 0)
    BY <1>1, <1>2 DEF ResolveUser, CheckLink, CheckDeletion
  <1>4. ReqInv' /\ Quiet
    BY <1>1, <1>3, Ends, Continues DEF IInv
  <1> QED
    BY <1>4, TablesUntouched DEF ResolveUser, CheckLink, CheckDeletion

\* A newcomer at a social provider gets an account that is linked.
LEMMA OAuthSignsUp == ASSUME IInv, NEW r \in InFlight, NEW verified \in BOOLEAN,
                             OAuthSignup(r, verified)
                      PROVE  IInv' /\ Kept
  <1> DEFINE i == request[r].what
  <1>1. CASE Refuse(r)
    BY <1>1, Refused
  <1>2. ASSUME NEW u \in Unused(user),
               user' = [user EXCEPT ![u] =
                          NewUser(Address[i], 0, verified, "AGE_DECLARATION_REQUIRED")],
               social' = [social EXCEPT ![i] = u], Continue(r, "session", u, 0),
               UNCHANGED <<session, token, state, familyVars, inquiry, mailVars>>
        PROVE  IInv' /\ Kept
    <2>1. u \in Rows /\ user[u].status = "NONE"
      BY <1>2 DEF Unused
    <2>2. Address[i] \in Emails \cup {None}
      <3>1. i \in Identities
        BY DEF OAuthSignup, IInv, ReqInv, ReqOK, AboutIdentity
      <3>2. Address \in [Identities -> Emails \cup {None}]
        BY AccountAssumption
      <3> QED
        BY <3>1, <3>2
    <2>3. ReqInv' /\ Quiet
      BY <1>2, <2>1, Continues DEF IInv
    <2>4. UserInv' /\ UsersKeep
      BY <1>2, <2>1, <2>2 DEF IInv, UserInv, UserRows, UsersKeep, DeletedStaysAnonymous,
                              AccountStatus, MinorStatus, NewUser
    <2>5. SocialInv'
      BY <1>2, <2>1 DEF IInv, SocialInv
    <2>6. UNCHANGED <<session, token, state, invitation, guards, inquiry>> /\ UNCHANGED mailVars
      BY <1>2 DEF familyVars
    <2>7. SessionInv' /\ TokenInv' /\ TokensKeep /\ StateInv' /\ InvitationInv' /\ LinkInv'
      BY <2>6, Untouched
    <2> QED
      BY <2>3, <2>4, <2>5, <2>6, <2>7, Settles
  <1> QED
    BY <1>1, <1>2 DEF OAuthSignup

\* Linking and unlinking write one row of OAuthAccount.
LEMMA LinksIdentity == ASSUME IInv, NEW r \in InFlight, LinkIdentity(r) \/ Unlink(r)
                       PROVE  IInv' /\ Kept
  <1> DEFINE i == request[r].what
  <1>1. CASE Refuse(r)
    BY <1>1, Refused
  <1>2. request[r].user \in Rows \cup {0}
    BY DEF IInv, ReqInv, ReqOK
  <1>3. CASE End(r) /\ UNCHANGED <<user, session, token, state, familyVars, inquiry, mailVars>>
             /\ \E u \in Rows \cup {0} : social' = [social EXCEPT ![i] = u]
    <2>1. ReqInv' /\ Quiet
      BY <1>3, Ends DEF IInv
    <2>2. SocialInv'
      BY <1>3 DEF IInv, SocialInv
    <2> QED
      BY <1>3, <2>1, <2>2, LinksMove
  <1> QED
    BY <1>1, <1>2, <1>3 DEF LinkIdentity, Unlink

-----------------------------------------------------------------------------
\* The deletion of an account kills its tokens with their jobs, and what presents them.
LEMMA Deletes == ASSUME IInv, NEW r \in InFlight, DeleteAccount(r) PROVE IInv' /\ Kept
  <1> DEFINE u == request[r].user
             gone == {TokenJob(t) : t \in {k \in Rows : token[k].user = u}}
  <1>1. ReqInv' /\ Quiet
    BY Ends DEF DeleteAccount, IInv
  <1>2. user' = [user EXCEPT ![u] = Anonymous(user[u])]
    BY DEF DeleteAccount
  <1>3. \A v \in Rows : v # u => user'[v] = user[v]
    BY <1>2 DEF IInv, UserInv, UserRows
  <1>4. UserInv'
    <2>1. user' \in UserRows
      BY <1>2 DEF IInv, UserInv, UserRows, AccountStatus, Anonymous
    <2>2. u \in Rows => user'[u].email = None /\ user'[u].password = 0 /\ ~user'[u].verified
      BY <1>2 DEF IInv, UserInv, UserRows, Anonymous
    <2> QED
      BY <1>3, <2>1, <2>2 DEF IInv, UserInv, DeletedStaysAnonymous
  <1>5. \A t \in Rows : token'[t] = IF token[t].status # "NONE" /\ token[t].user = u
                                    THEN [token[t] EXCEPT !.status = "DELETED"] ELSE token[t]
    BY DEF DeleteAccount, Deleted
  <1>6. token \in TokenRows /\ token' = [t \in Rows |-> token'[t]]
    BY DEF DeleteAccount, Deleted, IInv, TokenInv
  <1>7. ASSUME NEW t \in Rows
        PROVE  /\ token'[t] \in [status: {"NONE", "LIVE", "CONSUMED", "DELETED"},
                                 purpose: {"PASSWORD_RESET", "EMAIL_VERIFICATION"},
                                 user: Rows \cup {0}, uses: Nat]
               /\ token'[t].uses = token[t].uses /\ token'[t].user = token[t].user
               /\ token'[t].status = "NONE" <=> token[t].status = "NONE"
               /\ token'[t].status = "LIVE" => token[t].status = "LIVE" /\ token[t].user # u
               /\ token'[t].status \in {"NONE", "LIVE"} => token'[t] = token[t]
    BY <1>5, <1>6 DEF TokenRows
  <1>8. TokenInv'
    BY <1>6, <1>7 DEF IInv, TokenInv, TokenRows
  <1>9. ConfirmInv'
    <2>1. ASSUME NEW k \in InFlight PROVE ConfirmOK(request[k])'
      <3>1. CASE request'[k].op \notin Confirmations
        BY <3>1 DEF ConfirmOK
      <3>2. CASE request'[k] = request[k] /\ request[k].op \in Confirmations
        <4>1. request[k].row \in Rows /\ ConfirmOK(request[k])
          BY <3>2 DEF IInv, ReqInv, ReqOK, ConfirmInv
        <4> QED
          BY <3>2, <4>1, <1>3, <1>7 DEF ConfirmOK
      <3> QED
        BY <1>1, <3>1, <3>2 DEF Quiet
    <2> QED
      BY <2>1 DEF ConfirmInv
  <1>10. SessionInv' /\ SocialInv'
    BY ZenonT(60) DEF DeleteAccount, Deleted, IInv, SessionInv, SessionRows, SocialInv
  <1>11. StateInv'
    BY ZenonT(60) DEF DeleteAccount, Deleted, IInv, StateInv, StateRows
  <1>12. InvitationInv'
    BY ZenonT(60) DEF DeleteAccount, Deleted, IInv, InvitationInv, InvitationRows, InvitationRow
  <1>13. LinkInv'
    BY DEF DeleteAccount, IInv, LinkInv, LinkRows
  <1>14. InquiryInv'
    BY Untouched DEF DeleteAccount
  <1>15. UNCHANGED <<inquiry, mailer, mailed, reopened, faults>>
         /\ job' = [j \in Jobs |-> IF j \in gone THEN [job[j] EXCEPT !.status = "NONE",
                                                                     !.secret = FALSE]
                                   ELSE job[j]]
    BY DEF DeleteAccount
  <1>16. ASSUME NEW j \in Jobs
         PROVE  /\ job'[j] \in JobRow /\ job'[j].attempts = job[j].attempts
                /\ Fresh(j) => Fresh(j)'
    <2>1. job[j] \in JobRow
      BY DEF IInv, MailInv, MailRows
    <2>2. CASE job'[j] = job[j]
      BY <2>1, <2>2 DEF Fresh
    <2>3. CASE job'[j] = [job[j] EXCEPT !.status = "NONE", !.secret = FALSE]
      BY <2>1, <2>3, JobDropped DEF Fresh
    <2> HIDE DEF gone
    <2> QED
      BY <1>15, <2>2, <2>3
  <1>17. job' \in [Jobs -> JobRow]
    <2> HIDE DEF gone
    <2> QED
      BY <1>15, <1>16
  <1>18. MailInv' /\ Kept
    BY <1>15, <1>16, <1>17, JobsSteady
  <1>19. FreshInv'
    BY <1>7, <1>15, <1>16, JobsDiffer DEF IInv, FreshInv
  <1> QED
    BY <1>1, <1>4, <1>8, <1>9, <1>10, <1>11, <1>12, <1>13, <1>14, <1>18, <1>19 DEF IInv

-----------------------------------------------------------------------------
\* Invitations and links of guardians.
LEMMA FamilyMoves ==
    ASSUME IInv, ReqInv', Quiet, UserInv', UsersKeep, InvitationInv', LinkInv',
           UNCHANGED <<session, token, social, state, inquiry, mailVars>>
    PROVE  IInv' /\ Kept
  <1>1. TokenInv' /\ TokensKeep /\ SessionInv' /\ SocialInv' /\ StateInv'
    BY Untouched
  <1> QED
    BY <1>1, Settles

\* An invitation another one replaces.
LEMMA InvitationRevoked == ASSUME NEW x \in InvitationRow
                           PROVE  LET y == [x EXCEPT !.status = "REVOKED", !.email = None]
                                  IN  y \in InvitationRow /\ y.uses = x.uses
                                      /\ y.status = "REVOKED"
  <1> DEFINE z == [x EXCEPT !.status = "REVOKED"]
  <1>1. z \in InvitationRow /\ z.uses = x.uses /\ z.status = "REVOKED"
    BY DEF InvitationRow
  <1> HIDE DEF z
  <1>2. /\ [z EXCEPT !.email = None] \in InvitationRow
        /\ [z EXCEPT !.email = None].uses = z.uses
        /\ [z EXCEPT !.email = None].status = z.status
    BY <1>1 DEF InvitationRow
  <1> QED
    BY <1>1, <1>2 DEF z

\* An invitation is added unused; those it replaces were unused too.
LEMMA Invites == ASSUME IInv, NEW r \in InFlight, CreateInvitation(r) PROVE IInv' /\ Kept
  <1> DEFINE u == request[r].user
             e == request[r].what
  <1>1. u \in Rows \cup {0} /\ e \in Emails
    BY DEF CreateInvitation, IInv, ReqInv, ReqOK
  <1>2. ReqInv' /\ Quiet
    BY Ends DEF CreateInvitation, IInv
  <1>3. PICK new \in Unused(invitation), old \in {request[r].seen, Waiting(u, e)} :
          invitation' = [i \in Rows |->
              IF i = new THEN [status |-> "PENDING", student |-> u, email |-> e, uses |-> 0]
              ELSE IF i \in old /\ invitation[i].status = "PENDING"
                   THEN [invitation[i] EXCEPT !.status = "REVOKED", !.email = None]
                   ELSE invitation[i]]
    BY DEF CreateInvitation
  <1>4. InvitationInv'
    <2> DEFINE row == [status |-> "PENDING", student |-> u, email |-> e, uses |-> 0]
    <2>1. ASSUME NEW i \in Rows
          PROVE  /\ invitation'[i] \in InvitationRow /\ invitation'[i].uses <= 1
                 /\ invitation'[i].status \in {"NONE", "PENDING"} => invitation'[i].uses = 0
      <3>1. /\ invitation[i] \in InvitationRow /\ invitation[i].uses <= 1
            /\ invitation[i].status \in {"NONE", "PENDING"} => invitation[i].uses = 0
        BY DEF IInv, InvitationInv, InvitationRows
      <3>2. CASE invitation'[i] = row
        BY <1>1, <3>2 DEF InvitationRow
      <3>3. CASE invitation'[i] = [invitation[i] EXCEPT !.status = "REVOKED", !.email = None]
        BY <3>1, <3>3, InvitationRevoked
      <3>4. CASE invitation'[i] = invitation[i]
        BY <3>1, <3>4
      <3> QED
        BY <1>3, <3>2, <3>3, <3>4
    <2>2. invitation' = [i \in Rows |-> invitation'[i]]
      BY <1>3
    <2> QED
      BY <2>1, <2>2 DEF InvitationInv, InvitationRows
  <1>5. UNCHANGED <<user, session, token, social, state, guards>>
        /\ UNCHANGED <<inquiry, mailVars>>
    BY DEF CreateInvitation, accountVars
  <1>6. UserInv' /\ UsersKeep /\ LinkInv'
    BY <1>5, Untouched
  <1> QED
    BY <1>2, <1>4, <1>5, <1>6, FamilyMoves

\* An invitation that expires was pending, so it was not used.
LEMMA Expires == ASSUME IInv, NEW i \in Rows, ExpireInvitation(i) PROVE IInv' /\ Kept
  <1>1. ReqInv' /\ Quiet
    BY OnceAsked DEF ExpireInvitation, IInv
  <1>2. InvitationInv'
    BY ZenonT(60) DEF ExpireInvitation, IInv, InvitationInv, InvitationRows, InvitationRow
  <1>3. UNCHANGED <<user, session, token, social, state, guards>>
        /\ UNCHANGED <<inquiry, mailVars>>
    BY DEF ExpireInvitation, accountVars
  <1>4. UserInv' /\ UsersKeep /\ LinkInv'
    BY <1>3, Untouched
  <1> QED
    BY <1>1, <1>2, <1>3, <1>4, FamilyMoves

\* An invitation is used once: it was pending.
LEMMA Accepts == ASSUME IInv, NEW r \in InFlight, AcceptInvitation(r) PROVE IInv' /\ Kept
  <1> DEFINE i == request[r].row
             student == invitation[i].student
  <1>1. CASE Refuse(r)
    BY <1>1, Refused
  <1>2. CASE invitation[i].status = "PENDING" /\ ~Refuse(r)
    <2>1. i \in Rows /\ request[r].seen \subseteq Consents
      BY ZenonT(60) DEF AcceptInvitation, IInv, ReqInv, ReqOK
    <2>2. ReqInv' /\ Quiet
      BY ZenonT(60), <1>2, Ends DEF AcceptInvitation, IInv
    <2>3. invitation' = [invitation EXCEPT ![i].status = "ACCEPTED", ![i].email = None,
                                           ![i].uses = @ + 1]
      BY Zenon, <1>2 DEF AcceptInvitation
    <2>4. InvitationInv'
      <3> HIDE DEF i
      <3> QED
        BY <1>2, <2>1, <2>3 DEF IInv, InvitationInv, InvitationRows, InvitationRow
    <2>5. LinkInv'
      <3> DEFINE link == [status |-> "ACTIVE", consents |-> request[r].seen]
      <3>1. guards' = [guards EXCEPT ![<<student, request[r].user>>] = link]
        BY Zenon, <1>2 DEF AcceptInvitation
      <3>2. link \in [status: {"NONE", "ACTIVE", "REVOKED"}, consents: SUBSET Consents]
        BY SMTT(60), <2>1
      <3> HIDE DEF link
      <3> QED
        BY <3>1, <3>2 DEF IInv, LinkInv, LinkRows
    <2>6. \/ UNCHANGED user
          \/ user' = [user EXCEPT ![student].minor = "ACTIVE", ![student].consented = TRUE]
      BY Zenon, <1>2 DEF AcceptInvitation
    <2>7. UserInv' /\ UsersKeep
      <3>1. PICK u : u = student
        BY Zenon
      <3>2. \/ UNCHANGED user
            \/ user' = [user EXCEPT ![u].minor = "ACTIVE", ![u].consented = TRUE]
        BY Zenon, <2>6, <3>1
      <3> QED
        BY SMTT(60), <3>2
           DEF IInv, UserInv, UserRows, UsersKeep, DeletedStaysAnonymous, MinorStatus
    <2>8. UNCHANGED <<session, token, social, state, inquiry, mailVars>>
      BY Zenon, <1>2 DEF AcceptInvitation
    <2> QED
      BY <2>2, <2>4, <2>5, <2>7, <2>8, FamilyMoves
  <1> QED
    BY Zenon, <1>1, <1>2 DEF AcceptInvitation

\* The end of a link changes the links alone.
LEMMA Revokes == ASSUME IInv, NEW r \in InFlight, RevokeLink(r) PROVE IInv' /\ Kept
  <1>1. ReqInv' /\ Quiet
    BY Ends DEF RevokeLink, IInv
  <1>2. LinkInv'
    BY DEF RevokeLink, IInv, LinkInv, LinkRows
  <1>3. UNCHANGED <<user, session, token, social, state, invitation>>
        /\ UNCHANGED <<inquiry, mailVars>>
    BY DEF RevokeLink, accountVars
  <1>4. UserInv' /\ UsersKeep /\ InvitationInv'
    BY <1>3, Untouched
  <1> QED
    BY <1>1, <1>2, <1>3, <1>4, FamilyMoves
-----------------------------------------------------------------------------
\* An answer is notified with its text; its job is new.
LEMMA Answers == ASSUME IInv, NEW r \in InFlight, Answer(r) PROVE IInv' /\ Kept
  <1> DEFINE q == request[r].row
             v == inquiry[q].version + 1
             row == [status |-> "ANSWERED", answer |-> TRUE, version |-> v,
                     notified |-> inquiry[q].notified \cup {v}]
  <1>1. q \in Inquiries
    BY DEF Answer, IInv, ReqInv, ReqOK
  <1>2. inquiry \in InquiryRows /\ inquiry[q].version \in 0 .. N /\ inquiry[q].notified \subseteq Rows
    BY <1>1 DEF IInv, InquiryInv, InquiryRows
  <1>3. v \in Rows /\ v \in 0 .. N /\ v \in Nat /\ inquiry[q].version < v /\ v = inquiry[q].version + 1
    BY <1>2 DEF Answer, Rows
  <1>4. /\ inquiry' = [inquiry EXCEPT ![q] = row]
        /\ job' = [job EXCEPT ![AnswerJob(q, v)] = NewJob("inquiry")]
        /\ End(r)
        /\ UNCHANGED <<accountVars, familyVars, mailer, mailed, reopened, faults>>
    BY DEF Answer
  <1>5. row \in [status: {"SUBMITTED", "IN_REVIEW", "ANSWERED", "CLOSED"},
                 answer: BOOLEAN, version: 0 .. N, notified: SUBSET Rows]
        /\ row.version = v /\ row.answer /\ v \in row.notified
    BY <1>2, <1>3
  <1> HIDE DEF row, v
  <1>6. \A p \in Inquiries : inquiry'[p] = IF p = q THEN row ELSE inquiry[p]
    BY <1>2, <1>4 DEF InquiryRows
  <1>7. InquiryInv'
    <2>1. inquiry' \in InquiryRows
      BY <1>2, <1>4, <1>5 DEF InquiryRows
    <2>2. AnswerIsNotified'
      BY <1>5, <1>6 DEF IInv, InquiryInv, AnswerIsNotified
    <2> QED
      BY <2>1, <2>2 DEF InquiryInv
  <1>8. ReqInv' /\ Quiet
    BY <1>4, Ends DEF IInv
  <1>9. AnswerJob(q, v) \in Jobs /\ Fresh(AnswerJob(q, v)) /\ "inquiry" \in Tables
    BY <1>1, <1>3, JobsDiffer DEF IInv, FreshInv, Tables
  <1>10. /\ MailInv' /\ Kept
         /\ \A k \in Jobs : k # AnswerJob(q, v) => job'[k] = job[k]
    BY <1>4, <1>9, JobAdded
  <1>11. UNCHANGED <<user, session, token, social, state, invitation, guards>>
    BY <1>4 DEF accountVars, familyVars
  <1>12. /\ UserInv' /\ UsersKeep /\ TokenInv' /\ TokensKeep /\ SessionInv' /\ SocialInv'
         /\ StateInv' /\ InvitationInv' /\ LinkInv'
    BY <1>11, Untouched
  <1>13. FreshInv'
    <2>1. ASSUME NEW t \in Rows, token'[t].status = "NONE" PROVE Fresh(TokenJob(t))'
      <3>1. TokenJob(t) \in Jobs /\ TokenJob(t) # AnswerJob(q, v)
        BY <1>1, <1>3, JobsDiffer
      <3> QED
        BY <1>10, <1>11, <2>1, <3>1 DEF IInv, FreshInv, Fresh
    <2>2. ASSUME NEW p \in Inquiries, NEW w \in Rows, inquiry'[p].version < w
          PROVE  Fresh(AnswerJob(p, w))'
      <3>1. w \in Int /\ AnswerJob(p, w) \in Jobs
        BY JobsDiffer DEF Rows
      <3>2. p = q => v < w /\ inquiry[q].version < w
        BY <1>2, <1>3, <1>5, <1>6, <2>2, <3>1
      <3>3. inquiry[p].version < w
        BY <1>6, <2>2, <3>2
      <3>4. AnswerJob(p, w) # AnswerJob(q, v)
        BY <1>1, <1>3, <3>1, <3>2, JobsDiffer
      <3> QED
        BY <1>10, <3>1, <3>3, <3>4 DEF IInv, FreshInv, Fresh
    <2> QED
      BY <2>1, <2>2 DEF FreshInv
  <1>14. ConfirmInv'
    BY <1>8, <1>12, Confirms DEF IInv
  <1> QED
    BY <1>7, <1>8, <1>10, <1>12, <1>13, <1>14 DEF IInv

\* A change of status leaves the version alone and never says "answered".
LEMMA StatusMoves == ASSUME IInv, NEW r \in InFlight, UpdateStatus(r) PROVE IInv' /\ Kept
  <1> DEFINE q == request[r].row
             previous == request[r].what[1]
             next == request[r].what[2]
             withdrawn == previous = "ANSWERED" /\ next = "IN_REVIEW"
  <1>1. CASE Refuse(r)
    BY <1>1, Refused
  <1>2. CASE ~Refuse(r)
    <2>1. q \in Inquiries /\ next \in {"IN_REVIEW", "CLOSED"}
      BY Zenon DEF UpdateStatus, IInv, ReqInv, ReqOK
    <2>2. /\ inquiry' = [inquiry EXCEPT
                           ![q].status = next,
                           ![q].answer = @ /\ ~withdrawn,
                           ![q].notified = IF withdrawn THEN @ \ request[r].seen ELSE @]
          /\ End(r)
          /\ UNCHANGED <<accountVars, familyVars, mailVars>>
      BY <1>2 DEF UpdateStatus
    <2>3. inquiry \in InquiryRows
      BY DEF IInv, InquiryInv
    <2> DEFINE answer == inquiry[q].answer /\ ~withdrawn
               notified == IF withdrawn THEN inquiry[q].notified \ request[r].seen
                           ELSE inquiry[q].notified
    <2>4. answer \in BOOLEAN /\ notified \in SUBSET Rows
      BY <2>1, <2>3 DEF InquiryRows
    <2>5. inquiry' = [inquiry EXCEPT ![q].status = next, ![q].answer = answer,
                                     ![q].notified = notified]
      BY <2>1, <2>2, <2>3 DEF InquiryRows
    <2> HIDE DEF answer, notified, next
    <2>6. inquiry' \in InquiryRows
      BY <2>1, <2>3, <2>4, <2>5 DEF InquiryRows
    <2>7. /\ inquiry'[q].status = next /\ inquiry'[q].version = inquiry[q].version
          /\ \A p \in Inquiries : p # q => inquiry'[p] = inquiry[p]
      BY <2>1, <2>3, <2>5 DEF InquiryRows
    <2>8. InquiryInv'
      BY <2>1, <2>6, <2>7 DEF IInv, InquiryInv, AnswerIsNotified
    <2>9. /\ UNCHANGED <<user, session, token, social, state, invitation, guards>>
          /\ UNCHANGED mailVars /\ UNCHANGED job
      BY <2>2 DEF accountVars, familyVars, mailVars
    <2>10. /\ UserInv' /\ UsersKeep /\ TokenInv' /\ TokensKeep /\ SessionInv' /\ SocialInv'
           /\ StateInv' /\ InvitationInv' /\ LinkInv' /\ MailInv' /\ Kept
      BY <2>9, Untouched
    <2>11. ReqInv' /\ Quiet
      BY <2>2, Ends DEF IInv
    <2>12. ConfirmInv'
      BY <2>10, <2>11, Confirms DEF IInv
    <2>13. FreshInv'
      BY <2>1, <2>7, <2>9 DEF IInv, FreshInv, Fresh
    <2> QED
      BY <2>8, <2>10, <2>11, <2>12, <2>13 DEF IInv
  <1> QED
    BY <1>1, <1>2

\* Every transaction of a request.
LEMMA AllCommit == ASSUME IInv, NEW r \in InFlight, Commits(r) PROVE IInv' /\ Kept
  <1>1. Asked.minors \subseteq MinorStatus
    BY AccountAssumption DEF IInv, ReqInv, RequestsTypeOK, Asked
  <1>2. ASSUME NEW m \in Asked.minors, Signup(r, m) PROVE IInv' /\ Kept
    BY <1>1, <1>2, SignsUp
  <1>3. ASSUME \E verified \in BOOLEAN : OAuthSignup(r, verified) PROVE IInv' /\ Kept
    BY <1>3, OAuthSignsUp
  <1> QED
    BY <1>2, <1>3, Declares, IssuesToken, ResetsPassword, VerifiesAddress, OpensSession,
       Refreshes, Resolves, LinksIdentity, Deletes, Invites, Accepts, Revokes, Answers,
       StatusMoves DEF Commits
-----------------------------------------------------------------------------
\* A step of the outboxes alone: what is still to come stays so.
LEMMA MailMoves ==
    ASSUME IInv, UNCHANGED Rest, MailInv', Kept, \A j \in Jobs : Fresh(j) => Fresh(j)'
    PROVE  IInv' /\ Kept
  <1>1. /\ UNCHANGED <<user, session, token, social, state, invitation, guards, inquiry>>
        /\ UNCHANGED <<request, scenario, left>>
    BY DEF Rest, accountVars, familyVars, requestVars
  <1>2. /\ UserInv' /\ UsersKeep /\ TokenInv' /\ TokensKeep /\ SessionInv' /\ SocialInv'
        /\ StateInv' /\ InvitationInv' /\ LinkInv' /\ InquiryInv'
    BY <1>1, Untouched
  <1>3. ReqInv' /\ Quiet
    BY <1>1 DEF IInv, ReqInv, RequestsTypeOK, ReqOK, Quiet
  <1>4. ConfirmInv'
    BY <1>2, <1>3, Confirms DEF IInv
  <1>5. FreshInv'
    BY <1>1, JobsDiffer DEF IInv, FreshInv
  <1> QED
    BY <1>2, <1>3, <1>4, <1>5 DEF IInv

\* The workers about to send the mail of a job are finitely many.
LEMMA HoldersFinite == \A j \in Jobs : /\ IsFiniteSet(Holders(j)) /\ IsFiniteSet(Holders(j)')
                                       /\ Cardinality(Holders(j)) \in Nat
                                       /\ Cardinality(Holders(j)') \in Nat
  <1>1. ASSUME NEW j \in Jobs
        PROVE  Holders(j) \subseteq MailWorkers /\ Holders(j)' \subseteq MailWorkers
    BY DEF Holders
  <1>2. IsFiniteSet(MailWorkers)
    BY MailAssumption
  <1> QED
    BY <1>1, <1>2, FS_Subset, FS_CardinalityType

\* A worker that takes no try and sends nothing moves on.
LEMMA WorkerMoves ==
    ASSUME IInv, UNCHANGED Rest, NEW w \in MailWorkers,
           mailer' \in [MailWorkers -> MailerRow],
           \A x \in MailWorkers : x # w => mailer'[x] = mailer[x],
           WorkerOK(w)',
           mailer'[w].at \in {"claimed", "checked"} =>
              mailer[w].at \in {"claimed", "checked"} /\ mailer'[w].job = mailer[w].job,
           job' \in [Jobs -> JobRow],
           \A j \in Jobs : /\ job'[j].attempts = job[j].attempts
                           /\ job[j].status = "NONE" => job'[j].status = "NONE",
           faults' \in 0 .. MaxFaults, UNCHANGED <<mailed, reopened>>
    PROVE  IInv' /\ Kept
  <1>1. MailRows'
    BY DEF IInv, MailInv, MailRows, MailerRow
  <1>2. \A x \in MailWorkers : WorkerOK(x)'
    BY DEF IInv, MailInv, WorkerOK
  <1>3. \A j \in Jobs : Tried(j)' = Tried(j)
    BY DEF Tried
  <1>4. ASSUME NEW j \in Jobs PROVE Room(j)'
    <2>1. Holders(j)' \subseteq Holders(j)
      BY DEF Holders
    <2>2. Cardinality(Holders(j)') <= Cardinality(Holders(j))
      BY <2>1, HoldersFinite, FS_Subset
    <2>3. mailed[j] \in Nat /\ Tried(j) \in Int /\ mailed'[j] = mailed[j] /\ Tried(j)' = Tried(j)
      <3>1. job[j].attempts \in Int /\ reopened[j] \in Int /\ MaxAttempts \in Int
        BY MailAssumption DEF IInv, MailInv, MailRows, JobRow
      <3> QED
        BY <1>3, <3>1 DEF Tried, IInv, MailInv, MailRows
    <2>4. mailed[j] + Cardinality(Holders(j)) <= Tried(j)
      BY DEF IInv, MailInv, Room
    <2>5. mailed'[j] + Cardinality(Holders(j)') <= Tried(j)'
      BY <2>2, <2>3, <2>4, HoldersFinite
    <2> QED
      BY <2>5 DEF Room
  <1>5. Kept
    BY <1>3 DEF Kept
  <1>6. \A j \in Jobs : Fresh(j) => Fresh(j)'
    BY DEF Fresh
  <1> QED
    BY <1>1, <1>2, <1>4, <1>5, <1>6, MailMoves DEF MailInv
\* A worker lets go of its job.
LEMMA WorkerRests ==
    ASSUME IInv, UNCHANGED Rest, NEW w \in MailWorkers,
           mailer' = [mailer EXCEPT ![w] = IdleMailer],
           job' \in [Jobs -> JobRow],
           \A j \in Jobs : /\ job'[j].attempts = job[j].attempts
                           /\ job[j].status = "NONE" => job'[j].status = "NONE",
           faults' \in 0 .. MaxFaults, UNCHANGED <<mailed, reopened>>
    PROVE  IInv' /\ Kept
  <1>1. mailer \in [MailWorkers -> MailerRow]
    BY DEF IInv, MailInv, MailRows
  <1>2. IdleMailer \in MailerRow
    BY MailAssumption DEF IdleMailer, MailerRow, JobStatus
  <1>3. /\ mailer' \in [MailWorkers -> MailerRow]
        /\ mailer'[w] = IdleMailer
        /\ \A x \in MailWorkers : x # w => mailer'[x] = mailer[x]
    BY <1>1, <1>2
  <1>4. WorkerOK(w)' /\ mailer'[w].at = "idle"
    BY <1>3 DEF WorkerOK, IdleMailer
  <1> QED
    BY <1>3, <1>4, WorkerMoves

\* What ends a job writes its status and forgets its token.
LEMMA JobEnds ==
    ASSUME IInv, NEW j \in Jobs, job[j].status # "NONE",
           NEW status \in JobStatus, NEW secret \in BOOLEAN,
           job' = [job EXCEPT ![j].status = status, ![j].secret = secret]
    PROVE  /\ job' \in [Jobs -> JobRow]
           /\ \A k \in Jobs : /\ job'[k].attempts = job[k].attempts
                              /\ job[k].status = "NONE" => job'[k].status = "NONE"
  <1>1. job \in [Jobs -> JobRow]
    BY DEF IInv, MailInv, MailRows
  <1>2. job' \in [Jobs -> JobRow]
    BY ZenonT(60), <1>1 DEF JobRow
  <1>3. /\ job'[j].attempts = job[j].attempts
        /\ \A k \in Jobs : k # j => job'[k] = job[k]
    BY <1>1 DEF JobRow
  <1> QED
    BY <1>2, <1>3

\* A worker selects a job that may be tried, or whose last try is overdue.
LEMMA Selects == ASSUME IInv, UNCHANGED Rest, NEW w \in MailWorkers, NEW j \in Jobs,
                        NEW fit \in BOOLEAN, Pick(w, j, fit)
                 PROVE  IInv' /\ Kept
  <1> DEFINE m == [at |-> "picked", job |-> j, status |-> job[j].status,
                   attempts |-> job[j].attempts, secret |-> job[j].secret, fit |-> fit]
  <1>1. job \in [Jobs -> JobRow] /\ mailer \in [MailWorkers -> MailerRow]
    BY DEF IInv, MailInv, MailRows
  <1>2. mailer' = [mailer EXCEPT ![w] = m] /\ ~Rests(j)
    BY DEF Pick
  <1>3. m \in MailerRow
    BY <1>1 DEF JobRow, MailerRow
  <1>4. m.at = "picked" /\ m.job = j /\ m.status = job[j].status /\ m.attempts = job[j].attempts
    OBVIOUS
  <1> HIDE DEF m
  <1>5. /\ mailer' \in [MailWorkers -> MailerRow] /\ mailer'[w] = m
        /\ \A x \in MailWorkers : x # w => mailer'[x] = mailer[x]
    BY <1>1, <1>2, <1>3
  <1>6. WorkerOK(w)'
    BY <1>2, <1>4, <1>5 DEF WorkerOK, Rests
  <1>7. UNCHANGED <<job, mailed, reopened, faults>> /\ faults \in 0 .. MaxFaults
    BY DEF Pick, IInv, MailInv, MailRows
  <1> QED
    BY <1>1, <1>4, <1>5, <1>6, <1>7, WorkerMoves

\* A claim is a try: the job has one left, for its attempts are those that were selected.
LEMMA Claims == ASSUME IInv, UNCHANGED Rest, NEW w \in MailWorkers, Claim(w)
                PROVE  IInv' /\ Kept
  <1>1. /\ job \in [Jobs -> JobRow] /\ mailer \in [MailWorkers -> MailerRow]
        /\ mailed \in [Jobs -> Nat] /\ reopened \in [Jobs -> 0 .. MaxReopens]
        /\ faults \in 0 .. MaxFaults /\ MaxAttempts \in Nat
    BY MailAssumption DEF IInv, MailInv, MailRows
  <1>0. PICK j \in Jobs : j = mailer[w].job
    BY DEF Claim, IInv, MailInv, WorkerOK
  <1>2. /\ mailer[w].at = "picked" /\ mailer[w].job = j
        /\ UNCHANGED <<mailed, reopened, faults>>
    BY <1>0 DEF Claim
  <1>3. CASE ~Unchanged(w)
    <2>1. mailer' = [mailer EXCEPT ![w] = IdleMailer] /\ UNCHANGED job
      BY <1>3 DEF Claim
    <2> QED
      BY <1>1, <1>2, <2>1, WorkerRests
  <1>4. CASE Unchanged(w)
    <2>1. /\ job[j].attempts < MaxAttempts /\ job[j].attempts \in Nat /\ job[j].status # "NONE"
      BY <1>1, <1>2, <1>4 DEF Claim, Unchanged, Spent, IInv, MailInv, WorkerOK, JobRow, MailerRow
    <2>2. /\ job' = [job EXCEPT ![j].status = "SENDING", ![j].attempts = @ + 1]
          /\ mailer' = [mailer EXCEPT
                           ![w].at = IF job[j].table = "account" THEN "checked" ELSE "claimed",
                           ![w].attempts = @ + 1]
      BY <1>2, <1>4 DEF Claim
    <2>3. /\ job' \in [Jobs -> JobRow]
          /\ job'[j].attempts = job[j].attempts + 1
          /\ \A k \in Jobs : k # j => job'[k] = job[k]
      BY <1>1, <1>2, <2>1, <2>2 DEF JobRow, JobStatus
    <2>4. /\ mailer' \in [MailWorkers -> MailerRow]
          /\ mailer'[w].at \in {"checked", "claimed"} /\ mailer'[w].job = j
          /\ \A x \in MailWorkers : x # w => mailer'[x] = mailer[x]
      <3>1. mailer[w].attempts + 1 \in 0 .. MaxAttempts
        BY <1>1, <1>2, <2>1, <1>4 DEF Unchanged, MailerRow
      <3> QED
        BY <1>1, <1>2, <2>2, <3>1 DEF MailerRow
    <2>5. MailRows'
      BY <1>1, <1>2, <2>3, <2>4 DEF MailRows, MailerRow
    <2>6. \A x \in MailWorkers : WorkerOK(x)'
      BY <1>2, <2>4 DEF WorkerOK, IInv, MailInv
    <2>7. /\ Tried(j)' = Tried(j) + 1 /\ Tried(j) \in Int
          /\ \A k \in Jobs : k # j => Tried(k)' = Tried(k)
      <3>1. MaxAttempts * reopened[j] \in Int /\ reopened' = reopened
        BY <1>1, <1>2, MailAssumption
      <3> QED
        BY <2>1, <2>3, <3>1 DEF Tried
    <2>8. ASSUME NEW k \in Jobs PROVE Room(k)'
      <3>0. mailed[k] + Cardinality(Holders(k)) <= Tried(k) /\ mailed'[k] = mailed[k]
        BY <1>2 DEF IInv, MailInv, Room
      <3>1. CASE k = j
        <4>1. Holders(j)' = Holders(j) \cup {w} /\ w \notin Holders(j)
          BY <1>2, <2>4 DEF Holders
        <4>2. Cardinality(Holders(j)') = Cardinality(Holders(j)) + 1
          BY ZenonT(60), <1>2, <4>1, HoldersFinite, FS_AddElement
        <4>3. mailed[j] \in Nat
          BY <1>1, <1>2
        <4>4. mailed'[k] + Cardinality(Holders(k)') <= Tried(k)'
          BY <1>2, <2>7, <3>0, <3>1, <4>2, <4>3, HoldersFinite
        <4> QED
          BY <4>4 DEF Room
      <3>2. CASE k # j
        <4>1. Holders(k)' = Holders(k)
          BY <1>2, <2>4, <3>2 DEF Holders
        <4> QED
          BY <2>7, <3>0, <3>2, <4>1 DEF Room
      <3> QED
        BY <3>1, <3>2
    <2>9. Kept
      <3> DEFINE tried == [k \in Jobs |-> Tried(k)]
                 granted == [k \in Jobs |-> MaxAttempts * (1 + reopened[k])]
      <3>1. Tried(j) < MaxAttempts * (1 + reopened[j])
        <4>1. reopened[j] \in Nat
          BY <1>1, <1>2, MailAssumption
        <4>2. MaxAttempts * (1 + reopened[j]) = MaxAttempts + MaxAttempts * reopened[j]
              /\ MaxAttempts * reopened[j] \in Int
          BY <1>1, <4>1
        <4> QED
          BY <1>1, <2>1, <4>2 DEF Tried
      <3>2. tried' = [tried EXCEPT ![j] = @ + 1]
        BY <1>2, <2>7
      <3>3. UNCHANGED granted /\ UNCHANGED mailed
        BY <1>2
      <3>4. Budget!Try(j)
        BY <1>2, <3>1, <3>2, <3>3 DEF Budget!Try
      <3> QED
        BY <1>2, <3>4 DEF Kept, Budget!BudgetNext
    <2>10. \A k \in Jobs : Fresh(k) => Fresh(k)'
      BY <2>1, <2>3 DEF Fresh
    <2> QED
      BY <2>5, <2>6, <2>8, <2>9, <2>10, MailMoves DEF MailInv
  <1> QED
    BY <1>3, <1>4
\* The inquiry worker reads what it is to send.
LEMMA Checks == ASSUME IInv, UNCHANGED Rest, NEW w \in MailWorkers, NEW fit \in BOOLEAN,
                       Check(w, fit)
                PROVE  IInv' /\ Kept
  <1>1. job \in [Jobs -> JobRow] /\ mailer \in [MailWorkers -> MailerRow] /\ faults \in 0 .. MaxFaults
    BY DEF IInv, MailInv, MailRows
  <1>2. mailer[w].at = "claimed" /\ mailer[w].job \in Jobs
    BY DEF Check, IInv, MailInv, WorkerOK
  <1>3. /\ mailer' = [mailer EXCEPT ![w].at = "checked", ![w].fit = fit]
        /\ UNCHANGED <<job, mailed, reopened, faults>>
    BY DEF Check
  <1>4. /\ mailer' \in [MailWorkers -> MailerRow]
        /\ mailer'[w].at = "checked" /\ mailer'[w].job = mailer[w].job
        /\ \A x \in MailWorkers : x # w => mailer'[x] = mailer[x]
    BY ZenonT(60), <1>1, <1>3 DEF MailerRow
  <1>5. WorkerOK(w)'
    BY <1>2, <1>3, <1>4 DEF WorkerOK
  <1> QED
    BY <1>1, <1>2, <1>3, <1>4, <1>5, WorkerMoves

\* A mail leaves: the try it is sent under stops waiting for one.
LEMMA Sends == ASSUME IInv, UNCHANGED Rest, NEW w \in MailWorkers, NEW accepted \in BOOLEAN,
                      NEW answered \in BOOLEAN, Send(w, accepted, answered)
               PROVE  IInv' /\ Kept
  <1>1. /\ job \in [Jobs -> JobRow] /\ mailer \in [MailWorkers -> MailerRow]
        /\ mailed \in [Jobs -> Nat] /\ reopened \in [Jobs -> 0 .. MaxReopens]
        /\ faults \in 0 .. MaxFaults /\ MaxAttempts \in Nat
    BY MailAssumption DEF IInv, MailInv, MailRows
  <1>2. PICK j \in Jobs : j = mailer[w].job
    BY DEF Send, IInv, MailInv, WorkerOK
  <1>3. /\ mailer[w].at = "checked" /\ mailer[w].job = j
        /\ UNCHANGED <<job, reopened, faults>>
        /\ mailer' = [mailer EXCEPT ![w].at = IF accepted /\ answered THEN "mailed" ELSE "refused"]
        /\ mailed' = IF accepted THEN [mailed EXCEPT ![j] = @ + 1] ELSE mailed
    BY <1>2 DEF Send
  <1>4. /\ mailer' \in [MailWorkers -> MailerRow]
        /\ mailer'[w].at \in {"mailed", "refused"} /\ mailer'[w].job = j
        /\ \A x \in MailWorkers : x # w => mailer'[x] = mailer[x]
    BY <1>1, <1>3 DEF MailerRow
  <1>5. WorkerOK(w)'
    BY <1>3, <1>4 DEF WorkerOK
  <1>6. CASE ~accepted
    BY <1>1, <1>3, <1>4, <1>5, <1>6, WorkerMoves
  <1>7. CASE accepted
    <2>1. mailed' = [mailed EXCEPT ![j] = @ + 1]
      BY <1>3, <1>7
    <2>2. MailRows'
      BY <1>1, <1>3, <1>4, <2>1 DEF MailRows
    <2>3. \A x \in MailWorkers : WorkerOK(x)'
      BY <1>4, <1>5 DEF WorkerOK, IInv, MailInv
    <2>4. \A k \in Jobs : Tried(k)' = Tried(k)
      BY <1>3 DEF Tried
    <2>5. /\ Holders(j)' = Holders(j) \ {w} /\ w \in Holders(j)
          /\ \A k \in Jobs : k # j => Holders(k)' = Holders(k)
      BY <1>3, <1>4 DEF Holders
    <2>6. Cardinality(Holders(j)') = Cardinality(Holders(j)) - 1
      BY ZenonT(60), <2>5, HoldersFinite, FS_RemoveElement
    <2>7. /\ mailed[j] + Cardinality(Holders(j)) <= Tried(j)
          /\ mailed[j] \in Nat /\ mailed'[j] = mailed[j] + 1 /\ Tried(j) \in Int
      <3>1. MaxAttempts * reopened[j] \in Int /\ job[j].attempts \in Int
        BY <1>1, MailAssumption DEF JobRow
      <3> QED
        BY <1>1, <2>1, <3>1 DEF IInv, MailInv, Room, Tried
    <2>8. ASSUME NEW k \in Jobs PROVE Room(k)'
      <3>1. CASE k = j
        <4>1. mailed'[j] + Cardinality(Holders(j)') <= Tried(j)'
          BY <2>4, <2>6, <2>7, HoldersFinite
        <4> QED
          BY <3>1, <4>1 DEF Room
      <3>2. CASE k # j
        <4>1. mailed'[k] = mailed[k] /\ Holders(k)' = Holders(k)
          BY <1>1, <2>1, <2>5, <3>2
        <4> QED
          BY <2>4, <4>1 DEF Room, IInv, MailInv
      <3> QED
        BY <3>1, <3>2
    <2>9. Kept
      <3>1. mailed[j] < Tried(j)
        <4>1. Cardinality(Holders(j)') \in Nat
          BY HoldersFinite
        <4> QED
          BY <2>6, <2>7, <4>1, HoldersFinite
      <3>2. [k \in Jobs |-> Tried(k)]' = [k \in Jobs |-> Tried(k)]
        BY <2>4
      <3>3. Budget!Mail(j)
        BY <1>3, <2>1, <3>1, <3>2 DEF Budget!Mail
      <3> QED
        BY <3>3 DEF Kept, Budget!BudgetNext
    <2>10. \A k \in Jobs : Fresh(k) => Fresh(k)'
      BY <1>3 DEF Fresh
    <2> QED
      BY <2>2, <2>3, <2>8, <2>9, <2>10, MailMoves DEF MailInv
  <1> QED
    BY <1>6, <1>7

\* The other steps of a worker end a job, or leave it.
LEMMA LetsGo ==
    ASSUME IInv, UNCHANGED Rest, NEW w \in MailWorkers,
           \/ CloseStale(w) \/ Skip(w) \/ RecordSent(w) \/ RecordError(w) \/ Die(w)
    PROVE  IInv' /\ Kept
  <1>1. /\ job \in [Jobs -> JobRow] /\ mailer \in [MailWorkers -> MailerRow]
        /\ faults \in 0 .. MaxFaults /\ MaxFaults \in Nat
    BY MailAssumption DEF IInv, MailInv, MailRows
  <1>2. mailer[w].job \in Jobs
    BY DEF CloseStale, Skip, RecordSent, RecordError, Die, IInv, MailInv, WorkerOK
  <1>3. /\ mailer' = [mailer EXCEPT ![w] = IdleMailer]
        /\ UNCHANGED <<mailed, reopened>>
        /\ faults' = faults \/ (faults < MaxFaults /\ faults' = faults + 1)
    BY DEF CloseStale, Skip, RecordSent, RecordError, Die, Complete
  <1>4. faults' \in 0 .. MaxFaults
    BY <1>1, <1>3
  <1>5. \/ UNCHANGED job
        \/ /\ job[mailer[w].job].status # "NONE"
           /\ \E status \in JobStatus, secret \in BOOLEAN :
                 job' = [job EXCEPT ![mailer[w].job].status = status,
                                    ![mailer[w].job].secret = secret]
    <2>1. CASE CloseStale(w)
      BY ZenonT(60), <2>1 DEF CloseStale, Spent, Unchanged, JobStatus
    <2>2. CASE Skip(w) \/ RecordSent(w)
      BY Zenon, <2>2 DEF Skip, RecordSent, Complete, JobStatus
    <2>3. CASE RecordError(w)
      <3> DEFINE kept == job[mailer[w].job].secret /\ mailer[w].attempts < MaxAttempts
      <3>1. kept \in BOOLEAN
        BY Zenon
      <3>2. CASE job[mailer[w].job].status = "NONE"
        BY <2>3, <3>2 DEF RecordError
      <3>3. CASE job[mailer[w].job].status # "NONE"
        <4>1. job' = [job EXCEPT ![mailer[w].job].status = "ERROR",
                                 ![mailer[w].job].secret = kept]
          BY Zenon, <1>1, <1>2, <2>3, <3>3 DEF RecordError, JobRow
        <4> HIDE DEF kept
        <4> QED
          BY Zenon, <3>1, <3>3, <4>1 DEF JobStatus
      <3> QED
        BY ZenonT(60), <3>2, <3>3
    <2>4. CASE Die(w)
      BY <2>4 DEF Die
    <2> QED
      BY <2>1, <2>2, <2>3, <2>4
  <1>6. /\ job' \in [Jobs -> JobRow]
        /\ \A j \in Jobs : /\ job'[j].attempts = job[j].attempts
                           /\ job[j].status = "NONE" => job'[j].status = "NONE"
    BY <1>1, <1>2, <1>5, JobEnds
  <1> QED
    BY <1>3, <1>4, <1>6, WorkerRests

\* A mail comes back.
LEMMA ComesBack == ASSUME IInv, UNCHANGED Rest, NEW j \in Jobs, Bounce(j) PROVE IInv' /\ Kept
  <1>1. job \in [Jobs -> JobRow] /\ job[j].status = "SENT"
        /\ job' = [job EXCEPT ![j].status = "BOUNCED"]
        /\ UNCHANGED <<mailer, mailed, reopened, faults>>
    BY DEF Bounce, IInv, MailInv, MailRows
  <1>2. job' \in [Jobs -> JobRow]
    BY <1>1 DEF JobRow, JobStatus
  <1>3. \A k \in Jobs : job'[k].attempts = job[k].attempts /\ (Fresh(k) => Fresh(k)')
    BY <1>1 DEF JobRow, Fresh
  <1>4. MailInv' /\ Kept
    BY <1>1, <1>2, <1>3, JobsSteady
  <1> QED
    BY <1>3, <1>4, MailMoves
\* An operator puts a job back once its attempts are used up: it gets as many again.
LEMMA PutsBack == ASSUME IInv, NEW j \in Jobs, RetryAnswer(j) PROVE IInv' /\ Kept
  <1>1. /\ job \in [Jobs -> JobRow] /\ mailer \in [MailWorkers -> MailerRow]
        /\ mailed \in [Jobs -> Nat] /\ reopened \in [Jobs -> 0 .. MaxReopens]
        /\ faults \in 0 .. MaxFaults /\ MaxAttempts \in Nat /\ MaxReopens \in Nat
    BY MailAssumption DEF IInv, MailInv, MailRows
  <1>2. /\ job[j].status = "ERROR" /\ job[j].attempts >= MaxAttempts /\ reopened[j] < MaxReopens
        /\ job' = [job EXCEPT ![j].status = "PENDING", ![j].attempts = 0]
        /\ reopened' = [reopened EXCEPT ![j] = @ + 1]
        /\ UNCHANGED <<mailer, mailed, faults>>
    BY DEF RetryAnswer, Reopen
  <1>3. UNCHANGED <<user, session, token, social, state, invitation, guards, inquiry>>
    BY DEF RetryAnswer, accountVars, familyVars
  <1>4. ReqInv' /\ Quiet
    BY OnceAsked DEF RetryAnswer, IInv
  <1>5. /\ UserInv' /\ UsersKeep /\ TokenInv' /\ TokensKeep /\ SessionInv' /\ SocialInv'
        /\ StateInv' /\ InvitationInv' /\ LinkInv' /\ InquiryInv'
    BY <1>3, Untouched
  <1>6. ConfirmInv'
    BY <1>4, <1>5, Confirms DEF IInv
  <1>7. /\ job' \in [Jobs -> JobRow] /\ job'[j].attempts = 0
        /\ \A k \in Jobs : k # j => job'[k] = job[k]
    <2>1. 0 \in 0 .. MaxAttempts
      BY <1>1
    <2>2. /\ job'[j].attempts = 0
          /\ \A k \in Jobs : k # j => job'[k] = job[k]
      BY <1>1, <1>2 DEF JobRow
    <2>3. job' \in [Jobs -> JobRow]
      <3> DEFINE waiting == [job EXCEPT ![j].status = "PENDING"]
      <3>1. waiting \in [Jobs -> JobRow]
        BY <1>1 DEF JobRow, JobStatus
      <3>2. job' = [waiting EXCEPT ![j].attempts = 0]
        BY <1>1, <1>2
      <3> HIDE DEF waiting
      <3> QED
        BY <2>1, <3>1, <3>2 DEF JobRow
    <2> QED
      BY <2>2, <2>3
  <1>8. /\ reopened' \in [Jobs -> 0 .. MaxReopens] /\ reopened'[j] = reopened[j] + 1
        /\ \A k \in Jobs : k # j => reopened'[k] = reopened[k]
    BY <1>1, <1>2
  <1>9. job[j].attempts = MaxAttempts /\ reopened[j] \in Nat
    BY <1>1, <1>2 DEF JobRow
  <1>10. /\ MaxAttempts * (1 + reopened[j]) = MaxAttempts + MaxAttempts * reopened[j]
         /\ MaxAttempts * reopened'[j] = MaxAttempts + MaxAttempts * reopened[j]
         /\ MaxAttempts * (1 + reopened'[j]) = MaxAttempts * (1 + reopened[j]) + MaxAttempts
         /\ MaxAttempts * reopened[j] \in Int
    <2>1. ASSUME NEW m \in Nat, NEW n \in Nat PROVE m * (1 + n) = m + m * n /\ m * n \in Nat
      OBVIOUS
    <2>2. reopened'[j] = 1 + reopened[j] /\ reopened'[j] \in Nat
      BY <1>8, <1>9
    <2>3. MaxAttempts * (1 + reopened[j]) = MaxAttempts + MaxAttempts * reopened[j]
          /\ MaxAttempts * reopened[j] \in Nat
      BY <1>1, <1>9, <2>1
    <2>4. MaxAttempts * (1 + reopened'[j]) = MaxAttempts + MaxAttempts * reopened'[j]
      BY <1>1, <2>1, <2>2
    <2>5. MaxAttempts * reopened'[j] = MaxAttempts * (1 + reopened[j])
      BY <2>2
    <2> QED
      BY <1>1, <2>3, <2>4, <2>5
  <1>11. ASSUME NEW k \in Jobs PROVE Tried(k)' = Tried(k)
    <2>1. job'[j].attempts + MaxAttempts * reopened'[j]
            = job[j].attempts + MaxAttempts * reopened[j]
      BY <1>1, <1>7, <1>9, <1>10
    <2>2. CASE k = j
      BY <2>1, <2>2 DEF Tried
    <2>3. CASE k # j
      BY <1>7, <1>8, <2>3 DEF Tried
    <2> QED
      BY <2>2, <2>3
  <1>12. MailInv'
    <2>1. MailRows'
      BY <1>1, <1>2, <1>7, <1>8 DEF MailRows
    <2>2. \A w \in MailWorkers : WorkerOK(w)'
      BY <1>2 DEF WorkerOK, IInv, MailInv
    <2>3. \A k \in Jobs : Room(k)'
      BY <1>2, <1>11 DEF Room, Holders, IInv, MailInv
    <2> QED
      BY <2>1, <2>2, <2>3 DEF MailInv
  <1>13. Kept
    <2>1. Tried(j) = MaxAttempts * (1 + reopened[j])
      BY <1>9, <1>10 DEF Tried
    <2>2. [k \in Jobs |-> MaxAttempts * (1 + reopened[k])]'
            = [[k \in Jobs |-> MaxAttempts * (1 + reopened[k])] EXCEPT ![j] = @ + MaxAttempts]
      BY <1>8, <1>10
    <2>3. [k \in Jobs |-> Tried(k)]' = [k \in Jobs |-> Tried(k)]
      BY <1>11
    <2>4. Budget!Grant(j)
      BY <1>2, <2>1, <2>2, <2>3 DEF Budget!Grant
    <2> QED
      BY <2>4 DEF Kept, Budget!BudgetNext
  <1>14. FreshInv'
    <2>1. \A k \in Jobs : Fresh(k) => Fresh(k)'
      BY <1>2, <1>7 DEF Fresh
    <2> QED
      BY <1>3, <2>1, JobsDiffer DEF IInv, FreshInv
  <1> QED
    BY <1>4, <1>5, <1>6, <1>12, <1>13, <1>14 DEF IInv

-----------------------------------------------------------------------------
\* Every step keeps the invariant, and is a step or a stutter of DeliveryBudget.
LEMMA AllSteps == ASSUME IInv, Next PROVE IInv' /\ Kept
  <1>1. Asked.workers \subseteq MailWorkers
    BY AccountAssumption DEF IInv, ReqInv, RequestsTypeOK, Asked
  <1>2. CASE left > 0 /\ Begins
    BY <1>2, AllBegin
  <1>3. CASE left > 0 /\ OAuthSteps
    BY <1>3, OAuthBegins, ClaimsState DEF OAuthSteps
  <1>4. CASE \E i \in Rows : ExpireInvitation(i)
    BY <1>4, Expires
  <1>5. CASE \E j \in Jobs : RetryAnswer(j)
    BY <1>5, PutsBack
  <1>6. CASE \E r \in InFlight : request[r].op # "none" /\ Commits(r)
    BY <1>6, AllCommit
  <1>7. ASSUME NEW w \in Asked.workers, MailStep(w) \/ Die(w), UNCHANGED Rest
        PROVE  IInv' /\ Kept
    <2>1. w \in MailWorkers
      BY <1>1
    <2>2. CASE \E j \in Jobs, fit \in BOOLEAN : Fit(j, fit) /\ Pick(w, j, fit)
      BY <1>7, <2>1, <2>2, Selects
    <2>3. CASE Claim(w)
      BY <1>7, <2>1, <2>3, Claims
    <2>4. CASE Check(w, AnswerFit(mailer[w].job))
      <3>1. AnswerFit(mailer[w].job) \in BOOLEAN
        BY DEF AnswerFit, Current, Active
      <3> QED
        BY <1>7, <2>1, <2>4, <3>1, Checks
    <2>5. CASE \E accepted \in BOOLEAN, answered \in BOOLEAN : Send(w, accepted, answered)
      BY <1>7, <2>1, <2>5, Sends
    <2>6. CASE CloseStale(w) \/ Skip(w) \/ RecordSent(w) \/ RecordError(w) \/ Die(w)
      BY <1>7, <2>1, <2>6, LetsGo
    <2> QED
      BY <1>7, <2>2, <2>3, <2>4, <2>5, <2>6 DEF MailStep
  <1>8. CASE \E j \in Jobs : Bounce(j) /\ UNCHANGED Rest
    BY <1>8, ComesBack
  <1> QED
    BY <1>2, <1>3, <1>4, <1>5, <1>6, <1>7, <1>8 DEF Next

\* So is a step that changes nothing.
LEMMA Stutters == ASSUME IInv, UNCHANGED vars PROVE IInv' /\ Kept
  <1>1. UNCHANGED <<accountVars, familyVars, inquiry, mailVars>> /\ UNCHANGED requestVars
    BY DEF vars
  <1>2. ReqInv' /\ Quiet
    BY <1>1 DEF requestVars, IInv, ReqInv, RequestsTypeOK, ReqOK, Quiet
  <1> QED
    BY <1>1, <1>2, TablesUntouched

\* The invariant holds for ever.
LEMMA Invariant == Spec => []IInv /\ [][Kept]_vars
  <1>1. Init => IInv
    BY Starts
  <1>2. IInv /\ [Next]_vars => IInv' /\ Kept
    BY AllSteps, Stutters
  <1> QED
    BY <1>1, <1>2, PTL DEF Spec

-----------------------------------------------------------------------------
\* The rows, the requests and the workers keep their types, and no job is mailed more
\* often than its attempts allow (auth.service.ts, guardian.service.ts, the workers).
THEOREM AccountTypesCorrect == Spec => []TypeOK
  <1>1. IInv => TypeOK
    <2> SUFFICES ASSUME IInv PROVE TypeOK
      OBVIOUS
    <2>1. TablesTypeOK
      BY DEF TablesTypeOK, IInv, ReqInv, UserInv, UserRows, SessionInv, SessionRows, SocialInv,
             TokenInv, TokenRows, StateInv, StateRows, InvitationInv, InvitationRows,
             InvitationRow, LinkInv, LinkRows, InquiryInv, InquiryRows
    <2>2. /\ job \in [Jobs -> JobRow] /\ mailer \in [MailWorkers -> MailerRow]
          /\ mailed \in [Jobs -> Nat] /\ reopened \in [Jobs -> 0 .. MaxReopens]
          /\ faults \in 0 .. MaxFaults /\ MaxAttempts \in Nat /\ MaxReopens \in Nat
      BY MailAssumption DEF IInv, MailInv, MailRows
    <2>3. ASSUME NEW j \in Jobs PROVE mailed[j] \in 0 .. MaxAttempts * (1 + MaxReopens)
      <3>1. mailed[j] + Cardinality(Holders(j)) <= Tried(j)
        BY DEF IInv, MailInv, Room
      <3>2. job[j].attempts \in 0 .. MaxAttempts /\ reopened[j] \in 0 .. MaxReopens
        BY <2>2 DEF JobRow
      <3>3. MaxAttempts * (MaxReopens - reopened[j]) >= 0
        BY <2>2, <3>2
      <3>4. /\ MaxAttempts * (1 + MaxReopens)
                 = MaxAttempts + MaxAttempts * reopened[j] + MaxAttempts * (MaxReopens - reopened[j])
            /\ MaxAttempts * reopened[j] \in Int /\ MaxAttempts * (1 + MaxReopens) \in Int
            /\ MaxAttempts * (MaxReopens - reopened[j]) \in Int
        BY <2>2, <3>2
      <3>5. mailed[j] \in Nat /\ Cardinality(Holders(j)) \in Nat
        BY <2>2, HoldersFinite
      <3> QED
        BY <2>2, <3>1, <3>2, <3>3, <3>4, <3>5 DEF Tried
    <2>4. mailed \in [Jobs -> 0 .. MaxAttempts * (1 + MaxReopens)]
      BY <2>2, <2>3
    <2>5. MailTypeOK
      BY <2>2, <2>4 DEF MailTypeOK, JobRow, MailerRow
    <2> QED
      BY <2>1, <2>5 DEF TypeOK
  <1> QED
    BY <1>1, Invariant, PTL

\* A reset or verification token, an OAuth state and a guardian's invitation each have at
\* most one effect, however many requests present them at once (the conditional updates
\* of auth.service.ts and guardian.service.ts).
THEOREM SecretsWorkOnce == Spec => []OneTimeOnly
  <1>1. IInv => OneTimeOnly
    BY DEF IInv, OneTimeOnly, TokenInv, StateInv, InvitationInv
  <1> QED
    BY <1>1, Invariant, PTL

\* An account that anonymizeAccount deleted stays anonymous, whatever was in flight: a
\* confirmation under way holds a token that the deletion killed.
THEOREM AnonymousForGood == Spec => []DeletedStaysAnonymous
  <1>1. IInv => DeletedStaysAnonymous
    BY DEF IInv, UserInv
  <1> QED
    BY <1>1, Invariant, PTL

\* An inquiry shown as answered has its answer and the notification of that version
\* (answer and updateStatus of inquiry.service.ts).
THEOREM AnswersNotified == Spec => []AnswerIsNotified
  <1>1. IInv => AnswerIsNotified
    BY DEF IInv, InquiryInv
  <1> QED
    BY <1>1, Invariant, PTL

\* The two outboxes implement DeliveryBudget: claims are its tries, and no mail leaves
\* without one of its own, though workers die and overwrite each other's results.
THEOREM OutboxesKeepBudget == Spec => MailWithinBudget
  <1>1. Init => Budget!BudgetInit
    BY MailAssumption DEF Init, MailInit, NoJob, Tried, Budget!BudgetInit
  <1>2. Kept => [Budget!BudgetNext]_Budget!budgetVars
    BY DEF Kept, Budget!budgetVars
  <1>3. UNCHANGED vars => UNCHANGED Budget!budgetVars
    BY DEF vars, mailVars, Tried, Budget!budgetVars
  <1> QED
    BY <1>1, <1>2, <1>3, Invariant, PTL DEF Spec, MailWithinBudget, Budget!BudgetSpec
=============================================================================
