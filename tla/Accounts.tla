------------------------------ MODULE Accounts ------------------------------
(****************************************************************************)
(* auth.service.ts: sign-up, password reset, address verification, sign-in  *)
(* with a password or at a social provider, linking and unlinking, session  *)
(* renewal, sign-out and the deletion of an account.                        *)
(*                                                                          *)
(* A request that is refused changes nothing and is not a step.  A token or *)
(* session that expired is one that nobody uses any more; the expiry is     *)
(* compared with the time of the first read throughout.  Two requests of    *)
(* one account are in flight when a user clicks twice or uses two devices.  *)
(****************************************************************************)
EXTENDS AccountTables

(* -------------------------------- sign-up ------------------------------- *)

NewUser(email, password, verified, minor) ==
    [status |-> "ACTIVE", email |-> email, password |-> password, verified |-> verified,
     minor |-> minor, consented |-> FALSE]

StartSignup(e) == Owner(e) = {} /\ Begin("signup", 0, 0, e, {})

\* The unique index on the address decides between two that found it free.
Signup(r, minor) ==
    /\ request[r].op = "signup"
    /\ IF Owner(request[r].what) # {} THEN Refuse(r)
       ELSE \E u \in Unused(user), s \in Unused(session), t \in Unused(token) :
              /\ user' = [user EXCEPT ![u] = NewUser(request[r].what, 1, FALSE, minor)]
              /\ NewSession(s, u)
              /\ NewToken(t, u, "EMAIL_VERIFICATION", {})
              /\ End(r)
              /\ UNCHANGED <<social, state, familyVars, inquiry>>

\* The age band compared is the one the session guard read.
StartDeclaration(u, minor) ==
    /\ SignedIn(u) /\ user[u].minor = "AGE_DECLARATION_REQUIRED"
    /\ Begin("declare", u, 0, minor, {})

DeclareAgeBand(r) ==
    /\ request[r].op = "declare"
    /\ user' = [user EXCEPT ![request[r].user].minor = request[r].what]
    /\ End(r)
    /\ UNCHANGED <<session, token, social, state, familyVars, inquiry, mailVars>>

(* ---------------------- password reset, verification -------------------- *)

StartResetRequest(u) ==
    /\ Active(u) /\ user[u].password # 0
    /\ Begin("request_reset", u, 0, None, LiveTokens(u, "PASSWORD_RESET"))

StartVerificationRequest(u) ==
    /\ SignedIn(u) /\ user[u].email # None /\ ~user[u].verified
    /\ Begin("request_verification", u, 0, None, LiveTokens(u, "EMAIL_VERIFICATION"))

Purpose(op) == IF op \in {"request_reset", "confirm_reset"}
               THEN "PASSWORD_RESET" ELSE "EMAIL_VERIFICATION"

IssueToken(r) == LET u == request[r].user  purpose == Purpose(request[r].op) IN
    /\ request[r].op \in {"request_reset", "request_verification"}
    /\ \E t \in Unused(token), old \in {request[r].seen, LiveTokens(u, purpose)} :
          NewToken(t, u, purpose, old)
    /\ End(r)
    /\ UNCHANGED <<user, session, social, state, familyVars, inquiry>>

StartConfirmation(t, op) ==
    /\ op \in {"confirm_reset", "confirm_verification"}
    /\ token[t].status = "LIVE" /\ token[t].purpose = Purpose(op)
    /\ Active(token[t].user)
    /\ op = "confirm_reset" => user[token[t].user].password # 0
    /\ Begin(op, token[t].user, t, None, {})

\* The token is consumed on condition that nobody did; its siblings go with it.
ConsumeToken(t) == token' = [k \in Rows |->
    IF k = t THEN [token[k] EXCEPT !.status = "CONSUMED", !.uses = @ + 1]
    ELSE IF k \in LiveTokens(token[t].user, token[t].purpose)
         THEN [token[k] EXCEPT !.status = "CONSUMED"] ELSE token[k]]

ConfirmReset(r) == LET u == request[r].user  t == request[r].row IN
    /\ request[r].op = "confirm_reset"
    /\ IF token[t].status # "LIVE" THEN Refuse(r)
       ELSE /\ ConsumeToken(t)
            /\ user' = [user EXCEPT ![u].password = @ + 1]
            /\ session' = [s \in Rows |->
                  IF session[s] = [status |-> "LIVE", user |-> u]
                  THEN [session[s] EXCEPT !.status = "REVOKED"] ELSE session[s]]
            /\ End(r)
            /\ UNCHANGED <<social, state, familyVars, inquiry, mailVars>>

\* Mutant of ConfirmVerification: the user is updated whatever became of the token.
ConfirmVerificationAnyway(r) ==
    /\ request[r].op = "confirm_verification"
    /\ user' = [user EXCEPT ![request[r].user].verified = TRUE]
    /\ End(r)
    /\ UNCHANGED <<session, token, social, state, familyVars, inquiry, mailVars>>

ConfirmVerification(r) == LET t == request[r].row IN
    /\ request[r].op = "confirm_verification"
    /\ IF token[t].status # "LIVE" THEN Refuse(r)
       ELSE /\ ConsumeToken(t)
            /\ user' = [user EXCEPT ![request[r].user].verified = TRUE]
            /\ End(r)
            /\ UNCHANGED <<session, social, state, familyVars, inquiry, mailVars>>

(* -------------------------------- sessions ------------------------------ *)

\* login: the password is verified against the hash that was read.
StartLogin(u) == Active(u) /\ user[u].password # 0 /\ Begin("session", u, 0, None, {})

\* The last transaction of a sign-in; nothing is read again.
OpenSession(r) ==
    /\ request[r].op = "session"
    /\ \E s \in Unused(session) : NewSession(s, request[r].user)
    /\ End(r)
    /\ UNCHANGED <<user, token, social, state, familyVars, inquiry, mailVars>>

StartRefresh(s) ==
    /\ session[s].status = "LIVE" /\ Active(session[s].user)
    /\ Begin("refresh", session[s].user, s, None, {})

\* The old session is revoked by its token, whatever became of it meanwhile.
Refresh(r) == LET s == request[r].row IN
    /\ request[r].op = "refresh"
    /\ IF session[s].status = "DELETED" THEN Refuse(r)
       ELSE \E next \in Unused(session) :
              /\ session' = [session EXCEPT ![s].status = "REVOKED",
                                ![next] = [status |-> "LIVE", user |-> request[r].user]]
              /\ End(r)
              /\ UNCHANGED <<user, token, social, state, familyVars, inquiry, mailVars>>

StartLogout(s) == session[s].status = "LIVE" /\ Begin("logout", session[s].user, s, None, {})

Logout(r) == LET s == request[r].row IN
    /\ request[r].op = "logout"
    /\ IF session[s].status = "DELETED" THEN Refuse(r)
       ELSE /\ session' = [session EXCEPT ![s].status = "REVOKED"]
            /\ End(r)
            /\ UNCHANGED <<user, token, social, state, familyVars, inquiry, mailVars>>

(* ----------------------------- social sign-in --------------------------- *)

Linked(u) == {i \in Identities : social[i] = u}

\* The row of createOAuthAttempt; what was read before it is read again at the end.
StartOAuth(a, purpose, u, provider) ==
    /\ a \in Unused(state) /\ AtOnce("oauth")
    /\ CASE purpose = "LOGIN" -> u = 0
         [] purpose = "LINK" -> Admitted(u) /\ \A i \in Linked(u) : Provider[i] # provider
         [] purpose = "DELETE_ACCOUNT" ->
              Admitted(u) /\ \E i \in Linked(u) : Provider[i] = provider
    /\ state' = [state EXCEPT ![a] = [status |-> "LIVE", purpose |-> purpose, user |-> u,
                                      provider |-> provider, uses |-> 0]]
    /\ UNCHANGED <<user, session, token, social, familyVars, inquiry, mailVars>>

Callback(purpose) == CASE purpose = "LOGIN" -> "login_callback"
                       [] purpose = "LINK" -> "link_callback"
                       [] purpose = "DELETE_ACCOUNT" -> "delete_callback"

\* The state is claimed on condition that nobody did, and the code exchanged; when
\* the provider fails the state is spent all the same.
ClaimState(a, i) ==
    /\ state[a].status = "LIVE" /\ Provider[i] = state[a].provider
    /\ state' = [state EXCEPT ![a].status = "CONSUMED", ![a].uses = @ + 1]
    /\ \/ Enter(Callback(state[a].purpose), state[a].user, 0, i, {})
       \/ AtOnce(Callback(state[a].purpose))
    /\ UNCHANGED <<user, session, token, social, familyVars, inquiry, mailVars>>

\* resolveOAuthUser: the linked account, or a new one if nobody has the address.
ResolveUser(r) == LET i == request[r].what IN
    /\ request[r].op = "login_callback"
    /\ IF social[i] # 0 /\ Active(social[i])
       THEN Continue(r, "session", social[i], 0)
       ELSE IF social[i] = 0 /\ (Address[i] # None => Owner(Address[i]) = {})
            THEN Continue(r, "oauth_signup", 0, 0)
            ELSE End(r)
    /\ UNCHANGED <<accountVars, familyVars, inquiry, mailVars>>

OAuthSignup(r, verified) == LET i == request[r].what IN
    /\ request[r].op = "oauth_signup"
    /\ IF social[i] # 0 \/ (Address[i] # None /\ Owner(Address[i]) # {}) THEN Refuse(r)
       ELSE \E u \in Unused(user) :
              /\ user' = [user EXCEPT ![u] =
                             NewUser(Address[i], 0, verified, "AGE_DECLARATION_REQUIRED")]
              /\ social' = [social EXCEPT ![i] = u]
              /\ Continue(r, "session", u, 0)
              /\ UNCHANGED <<session, token, state, familyVars, inquiry, mailVars>>

\* linkOAuthIdentity: the reads, then the row two unique indexes guard.
Free(i, u) == social[i] = 0 /\ \A k \in Linked(u) : Provider[k] # Provider[i]

CheckLink(r) == LET u == request[r].user IN
    /\ request[r].op = "link_callback"
    /\ IF Active(u) /\ Free(request[r].what, u) THEN Continue(r, "link", u, 0) ELSE End(r)
    /\ UNCHANGED <<accountVars, familyVars, inquiry, mailVars>>

LinkIdentity(r) == LET i == request[r].what  u == request[r].user IN
    /\ request[r].op = "link"
    /\ IF ~Free(i, u) THEN Refuse(r)
       ELSE /\ social' = [social EXCEPT ![i] = u]
            /\ End(r)
            /\ UNCHANGED <<user, session, token, state, familyVars, inquiry, mailVars>>

\* The other ways to sign in are counted before the transaction.
StartUnlink(u, i) ==
    /\ Admitted(u) /\ social[i] = u
    /\ user[u].password # 0 \/ Cardinality(Linked(u)) > 1
    /\ Begin("unlink", u, 0, i, {})

Unlink(r) == LET i == request[r].what IN
    /\ request[r].op = "unlink"
    /\ IF social[i] # request[r].user THEN Refuse(r)
       ELSE /\ social' = [social EXCEPT ![i] = 0]
            /\ End(r)
            /\ UNCHANGED <<user, session, token, state, familyVars, inquiry, mailVars>>

(* -------------------------------- deletion ------------------------------ *)

StartDeletion(u) ==
    /\ SignedIn(u) /\ user[u].password # 0
    /\ Begin("delete", u, 0, None, {})

\* deleteAccountWithOAuth: the identity that came back must be the account's own.
CheckDeletion(r) == LET u == request[r].user IN
    /\ request[r].op = "delete_callback"
    /\ IF social[request[r].what] = u /\ Active(u) THEN Continue(r, "delete", u, 0) ELSE End(r)
    /\ UNCHANGED <<accountVars, familyVars, inquiry, mailVars>>

\* anonymizeAccount.  Deleting a token deletes its mail job.
Deleted(table, u, field) == [n \in Rows |->
    IF table[n].status # "NONE" /\ table[n][field] = u
    THEN [table[n] EXCEPT !.status = "DELETED"] ELSE table[n]]

Anonymous(v) == [status |-> "DELETED", email |-> None, password |-> 0, verified |-> FALSE,
                 minor |-> v.minor, consented |-> v.consented]

DeleteAccount(r) == LET u == request[r].user IN
    /\ request[r].op = "delete"
    /\ guards' = [p \in Rows \X Rows |->
          IF u \in {p[1], p[2]} /\ guards[p].status = "ACTIVE"
          THEN [status |-> "REVOKED", consents |-> {}] ELSE guards[p]]
    /\ invitation' = Deleted(invitation, u, "student")
    /\ token' = Deleted(token, u, "user")
    /\ state' = Deleted(state, u, "user")
    /\ session' = Deleted(session, u, "user")
    /\ job' = [j \in Jobs |-> IF j \in {TokenJob(t) : t \in {k \in Rows : token[k].user = u}}
                              THEN [job[j] EXCEPT !.status = "NONE", !.secret = FALSE]
                              ELSE job[j]]
    /\ social' = [i \in Identities |-> IF social[i] = u THEN 0 ELSE social[i]]
    /\ user' = [user EXCEPT ![u] = Anonymous(@)]
    /\ End(r)
    /\ UNCHANGED <<inquiry, mailer, mailed, reopened, faults>>

\* What the account mail worker asks of the token and the recipient it selected; a
\* token may also have expired.
AccountFit(t) == LET u == token[t].user IN
    /\ token[t].status = "LIVE" /\ Active(u) /\ user[u].email # None
    /\ IF token[t].purpose = "PASSWORD_RESET" THEN user[u].password # 0 ELSE ~user[u].verified
=============================================================================
