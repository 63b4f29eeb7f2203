------------------------------ MODULE Guardians ------------------------------
(****************************************************************************)
(* guardian.service.ts: a student invites a guardian by address, the        *)
(* guardian accepts and consents, either of them ends the link.             *)
(****************************************************************************)
EXTENDS AccountTables

Waiting(u, e) == {i \in Rows : invitation[i].status = "PENDING"
                               /\ invitation[i].student = u /\ invitation[i].email = e}

StartInvitation(u, e) ==
    /\ SignedIn(u) /\ user[u].email # e
    /\ Begin("invite", u, 0, e, Waiting(u, e))

\* The pending invitations of the address are revoked, as far as the update sees them.
CreateInvitation(r) == LET u == request[r].user  e == request[r].what IN
    /\ request[r].op = "invite"
    /\ \E new \in Unused(invitation), old \in {request[r].seen, Waiting(u, e)} :
          invitation' = [i \in Rows |->
              IF i = new THEN [status |-> "PENDING", student |-> u, email |-> e, uses |-> 0]
              ELSE IF i \in old /\ invitation[i].status = "PENDING"
                   THEN [invitation[i] EXCEPT !.status = "REVOKED", !.email = None]
                   ELSE invitation[i]]
    /\ End(r)
    /\ UNCHANGED <<accountVars, guards, inquiry, mailVars>>

\* getInvitation finds that the time is over.
ExpireInvitation(i) ==
    /\ invitation[i].status = "PENDING" /\ AtOnce("expire_invitation")
    /\ invitation' = [invitation EXCEPT ![i].status = "EXPIRED", ![i].email = None]
    /\ UNCHANGED <<accountVars, guards, inquiry, mailVars>>

\* The consents asked for depend on the student as read here.
StartAcceptance(g, i, paid) == LET student == invitation[i].student IN
    /\ Admitted(g) /\ invitation[i].status = "PENDING"
    /\ user[g].email = invitation[i].email /\ student # g
    /\ Begin("accept", g, i, None,
             {"guardian_learning_access"} \cup paid
               \cup (IF user[student].minor = "GUARDIAN_CONSENT_PENDING"
                     THEN {"child_account"} ELSE {}))

\* Mutant of AcceptInvitation: the invitation is accepted without a condition.
AcceptAnyway(r) == LET i == request[r].row IN
    /\ request[r].op = "accept"
    /\ invitation' = [invitation EXCEPT ![i].status = "ACCEPTED", ![i].email = None,
                                        ![i].uses = @ + 1]
    /\ guards' = [guards EXCEPT ![<<invitation[i].student, request[r].user>>] =
                    [status |-> "ACTIVE", consents |-> request[r].seen]]
    /\ End(r)
    /\ UNCHANGED <<accountVars, inquiry, mailVars>>

AcceptInvitation(r) == LET i == request[r].row  student == invitation[i].student
                           consents == request[r].seen IN
    /\ request[r].op = "accept"
    /\ IF invitation[i].status # "PENDING" THEN Refuse(r)
       ELSE /\ invitation' = [invitation EXCEPT ![i].status = "ACCEPTED", ![i].email = None,
                                                ![i].uses = @ + 1]
            /\ guards' = [guards EXCEPT ![<<student, request[r].user>>] =
                            [status |-> "ACTIVE", consents |-> consents]]
            /\ user' = IF "child_account" \in consents
                          /\ user[student].minor = "GUARDIAN_CONSENT_PENDING"
                       THEN [user EXCEPT ![student].minor = "ACTIVE", ![student].consented = TRUE]
                       ELSE user
            /\ End(r)
            /\ UNCHANGED <<session, token, social, state, inquiry, mailVars>>

StartRevocation(u, p) ==
    /\ SignedIn(u) /\ u \in {p[1], p[2]} /\ guards[p].status = "ACTIVE"
    /\ Begin("unguard", u, 0, p, {})

RevokeLink(r) ==
    /\ request[r].op = "unguard"
    /\ guards' = [guards EXCEPT ![request[r].what] = [status |-> "REVOKED", consents |-> {}]]
    /\ End(r)
    /\ UNCHANGED <<accountVars, invitation, inquiry, mailVars>>
=============================================================================
