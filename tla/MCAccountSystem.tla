-------------------------- MODULE MCAccountSystem --------------------------
(* Small instances of AccountSystem for TLC.  Each scenario takes the       *)
(* operations that meet in one place of the code.                           *)
EXTENDS AccountSystem, TLC

MCProvider == [naver |-> "naver", kakao |-> "kakao", kakao2 |-> "kakao"]
MCAddress == [naver |-> 1, kakao |-> 2, kakao2 |-> None]

Workers(table) == {<<table, 1>>, <<table, 2>>}
MCMailWorkers == Workers("account") \cup Workers("inquiry")
MCJobs == 1 .. 6

Scenario(ops, requests, members, minors, workers) ==
    [ops |-> ops, requests |-> requests, members |-> members, minors |-> minors,
     workers |-> workers]

\* Resets overlapping sign-ins, renewals and the deletion of the account.
Passwords == Scenario({"request_reset", "confirm_reset", "session", "refresh", "logout",
                       "delete"}, 6, {1}, {}, {})

\* Sign-ups for one address and verification; the links going out meanwhile.
Verification == Scenario({"signup", "request_verification", "confirm_verification",
                          "delete"}, 5, {}, {"NOT_APPLICABLE"}, {})
VerificationMail == Scenario({"signup", "confirm_verification"}, 2, {}, {"NOT_APPLICABLE"},
                             Workers("account"))

\* Links of a reset while two workers send and the account is deleted.
ResetMail == Scenario({"request_reset", "delete"}, 2, {1}, {}, Workers("account"))

\* Sign-in, linking, unlinking and deletion through social providers.
Social == Scenario({"oauth", "login_callback", "link_callback", "unlink", "delete_callback"},
                   6, {1}, {}, {})
Newcomers == Scenario({"oauth", "login_callback", "signup", "declare", "refresh"}, 4, {},
                      {"ACTIVE", "GUARDIAN_CONSENT_PENDING"}, {})

\* A child's guardian: invitation, consent, revocation, deletion.
Family == Scenario({"signup", "invite", "expire_invitation", "accept", "unguard", "delete"}, 6,
                   {2}, {"GUARDIAN_CONSENT_PENDING"}, {})

\* Answers, edits and reopenings with a worker that announces them; an edit and a
\* retry with two.
Answers == Scenario({"answer", "status", "retry"}, 3, {1}, {}, {<<"inquiry", 1>>})
AnswerMail == Scenario({"answer", "retry"}, 2, {1}, {}, Workers("inquiry"))

MCScenarios == [passwords |-> Passwords, verification |-> Verification,
                verification_mail |-> VerificationMail, reset_mail |-> ResetMail,
                social |-> Social, newcomers |-> Newcomers, family |-> Family,
                answers |-> Answers, answer_mail |-> AnswerMail]
=============================================================================
