---------------------------- MODULE AccountTables ----------------------------
(****************************************************************************)
(* The tables that the account, guardian and inquiry services share (models *)
(* User to GuardianConsent, Inquiry and UserNotification of schema.prisma), *)
(* and how a request begins.                                                *)
(****************************************************************************)
EXTENDS MailOutbox, Requests

CONSTANTS
    N,          \* rows per table
    Emails,     \* addresses people sign up with, numbered
    Provider,   \* [identities at social providers -> providers]
    Address,    \* [identities at social providers -> Emails or None]
    Inquiries   \* inquiries sent in, by the owner of row 1 of User
    \* A scenario has fields ops, requests, members, minors and workers.

Identities == DOMAIN Provider
Providers == {Provider[i] : i \in Identities}
Rows == 1 .. N

\* Mail jobs: one per token row, then one per answer of an inquiry.
TokenJob(t) == t
AnswerJob(q, v) == N * q + v

MinorStatus == {"NOT_APPLICABLE", "ACTIVE", "AGE_DECLARATION_REQUIRED", "GUARDIAN_CONSENT_PENDING"}

ASSUME AccountAssumption ==
    /\ N \in Nat \ {0}
    /\ Emails \subseteq Nat
    /\ Address \in [Identities -> Emails \cup {None}]
    /\ \A c \in DOMAIN Scenarios : /\ Scenarios[c].requests \in Nat
                                   /\ Scenarios[c].members \subseteq Rows \cap Emails
                                   /\ Scenarios[c].minors \subseteq MinorStatus
                                   /\ Scenarios[c].workers \subseteq MailWorkers
    /\ Inquiries \subseteq Nat \ {0}
    /\ Rows \cup {AnswerJob(q, v) : q \in Inquiries, v \in Rows} \subseteq Jobs
    /\ None \notin Emails /\ None \notin Identities

VARIABLES
    user,        \* User rows; password counts the passwords set, 0 is null
    session,     \* Session rows
    token,       \* AccountToken rows
    social,      \* OAuthAccount: the user an identity is linked to, 0 is no row
    state,       \* OAuthLoginAttempt rows
    invitation,  \* GuardianInvitation rows
    guards,      \* GuardianLink rows with their GuardianConsent rows
    inquiry      \* Inquiry rows and the in-app notifications of their answers

accountVars == <<user, session, token, social, state>>
familyVars == <<invitation, guards>>
vars == <<accountVars, familyVars, inquiry, requestVars, mailVars>>

AccountStatus == {"NONE", "ACTIVE", "DELETED"}
Consents == {"guardian_learning_access", "child_account", "minor_paid_subscription"}

NoUser == [status |-> "NONE", email |-> None, password |-> 0, verified |-> FALSE,
           minor |-> "NOT_APPLICABLE", consented |-> FALSE]
NoSession == [status |-> "NONE", user |-> 0]
NoToken == [status |-> "NONE", purpose |-> "PASSWORD_RESET", user |-> 0, uses |-> 0]
NoState == [status |-> "NONE", purpose |-> "LOGIN", user |-> 0, provider |-> None, uses |-> 0]
NoInvitation == [status |-> "NONE", student |-> 0, email |-> None, uses |-> 0]
NoLink == [status |-> "NONE", consents |-> {}]

TablesTypeOK ==
    /\ user \in [Rows -> [status: AccountStatus, email: Emails \cup {None}, password: Nat,
                          verified: BOOLEAN, minor: MinorStatus, consented: BOOLEAN]]
    /\ session \in [Rows -> [status: {"NONE", "LIVE", "REVOKED", "DELETED"}, user: Rows \cup {0}]]
    /\ token \in [Rows -> [status: {"NONE", "LIVE", "CONSUMED", "DELETED"},
                           purpose: {"PASSWORD_RESET", "EMAIL_VERIFICATION"},
                           user: Rows \cup {0}, uses: Nat]]
    /\ social \in [Identities -> Rows \cup {0}]
    /\ state \in [Rows -> [status: {"NONE", "LIVE", "CONSUMED", "DELETED"},
                           purpose: {"LOGIN", "LINK", "DELETE_ACCOUNT"}, user: Rows \cup {0},
                           provider: Providers \cup {None}, uses: Nat]]
    /\ invitation \in [Rows -> [status: {"NONE", "PENDING", "REVOKED", "EXPIRED", "ACCEPTED",
                                         "DELETED"},
                                student: Rows \cup {0}, email: Emails \cup {None}, uses: Nat]]
    /\ guards \in [Rows \X Rows -> [status: {"NONE", "ACTIVE", "REVOKED"},
                                    consents: SUBSET Consents]]
    /\ inquiry \in [Inquiries -> [status: {"SUBMITTED", "IN_REVIEW", "ANSWERED", "CLOSED"},
                                  answer: BOOLEAN, version: 0 .. N, notified: SUBSET Rows]]
    /\ RequestsTypeOK

\* The members signed up, verified their addresses and signed in earlier.
Member(u) == [status |-> "ACTIVE", email |-> u, password |-> 1, verified |-> TRUE,
              minor |-> "NOT_APPLICABLE", consented |-> FALSE]

TablesInit ==
    /\ RequestsInit
    /\ user = [u \in Rows |-> IF u \in Asked.members THEN Member(u) ELSE NoUser]
    /\ session = [s \in Rows |-> IF s \in Asked.members
                                  THEN [status |-> "LIVE", user |-> s] ELSE NoSession]
    /\ token = [t \in Rows |-> NoToken]
    /\ social = [i \in Identities |-> 0]
    /\ state = [a \in Rows |-> NoState]
    /\ invitation = [i \in Rows |-> NoInvitation]
    /\ guards = [p \in Rows \X Rows |-> NoLink]
    /\ inquiry = [q \in Inquiries |-> [status |-> "SUBMITTED", answer |-> FALSE, version |-> 0,
                                       notified |-> {}]]

\* An identifier nobody has: rows are numbered in the order they are created.
Unused(table) == {n \in Rows : table[n].status = "NONE"
                               /\ \A k \in 1 .. n - 1 : table[k].status # "NONE"}
Active(u) == user[u].status = "ACTIVE"
Owner(email) == {u \in Rows : user[u].email = email}

\* SessionAuthGuard: the session is live and its account active; an account whose
\* age or consent is missing reaches only the paths the guard lists.
SignedIn(u) == Active(u) /\ \E s \in Rows : session[s] = [status |-> "LIVE", user |-> u]
Admitted(u) == SignedIn(u)
    /\ user[u].minor \notin {"AGE_DECLARATION_REQUIRED", "GUARDIAN_CONSENT_PENDING"}

Begin(op, u, row, what, seen) ==
    /\ Enter(op, u, row, what, seen)
    /\ UNCHANGED <<accountVars, familyVars, inquiry, mailVars>>

\* The reads after a step of its own refuse the request, or its transaction throws.
Refuse(r) == End(r) /\ UNCHANGED <<accountVars, familyVars, inquiry, mailVars>>

\* How a transaction creates a session, and a token with its mail job.
NewSession(s, u) == session' = [session EXCEPT ![s] = [status |-> "LIVE", user |-> u]]

\* The tokens in old are consumed in the same transaction.  Its first update sees the
\* tokens committed when it runs, which may be before another transaction commits.
NewToken(t, u, purpose, old) ==
    /\ token' = [k \in Rows |->
          IF k = t THEN [status |-> "LIVE", purpose |-> purpose, user |-> u, uses |-> 0]
          ELSE IF k \in old /\ token[k].status = "LIVE"
               THEN [token[k] EXCEPT !.status = "CONSUMED"] ELSE token[k]]
    /\ job' = [job EXCEPT ![TokenJob(t)] = NewJob("account")]
    /\ UNCHANGED <<mailer, mailed, reopened, faults>>

LiveTokens(u, purpose) ==
    {t \in Rows : token[t].status = "LIVE" /\ token[t].user = u /\ token[t].purpose = purpose}
=============================================================================
