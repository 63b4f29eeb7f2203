----------------------------- MODULE MailOutbox -----------------------------
(****************************************************************************)
(* The two mail outboxes: account-mail-worker.service.ts (verification and  *)
(* reset links) and inquiry-notification-worker.service.ts (answers), the   *)
(* operator's retry of inquiry-notification-admin.service.ts and the        *)
(* provider's bounce of mail-bounce.service.ts.                             *)
(*                                                                          *)
(* A job of the table "account" carries the encrypted token until it ends;  *)
(* a job of the table "inquiry" carries nothing.  A worker selects a job,   *)
(* claims it with an update conditional on the status and attempts it saw,  *)
(* hands the mail to SMTP and records the result by id alone, in that       *)
(* order, with other workers between any two of these steps.  A job in ERROR *)
(* may be due at any time, and the lock of a job in SENDING may be older    *)
(* than the lock timeout whether its worker died or is merely slow.  SMTP is *)
(* configured, as app-config.ts requires in production.                     *)
(****************************************************************************)
EXTENDS Naturals, FiniteSets

CONSTANTS
    Jobs,          \* jobs of both tables, numbered in the order of createdAt
    MailWorkers,   \* worker processes <<table, n>>, each polling one table
    MaxAttempts,   \* ACCOUNT_MAIL_MAX_ATTEMPTS, INQUIRY_NOTIFICATION_MAX_ATTEMPTS
    MaxFaults,     \* bound: deaths of workers and failed updates
    MaxReopens     \* bound: retries of one job an operator asks for

ASSUME MailAssumption ==
    /\ Jobs \subseteq Nat
    /\ MaxAttempts \in Nat \ {0}
    /\ MaxFaults \in Nat
    /\ MaxReopens \in Nat
    /\ IsFiniteSet(MailWorkers)
    /\ \A w \in MailWorkers : w[1] \in {"account", "inquiry"}

Tables == {"account", "inquiry"}

VARIABLES
    job,       \* AccountMailJob and InquiryNotificationJob rows
    mailer,    \* the workers
    mailed,    \* times SMTP accepted the mail of a job
    reopened,  \* times an operator put a job back
    faults

mailVars == <<job, mailer, mailed, reopened, faults>>

JobStatus == {"NONE", "PENDING", "SENDING", "SENT", "SKIPPED", "ERROR", "BOUNCED"}
NoJob == [table |-> "account", status |-> "NONE", attempts |-> 0, secret |-> FALSE]
IdleMailer == [at |-> "idle", job |-> 0, status |-> "NONE", attempts |-> 0,
               secret |-> FALSE, fit |-> FALSE]

MailTypeOK ==
    /\ job \in [Jobs -> [table: Tables, status: JobStatus,
                         attempts: 0 .. MaxAttempts, secret: BOOLEAN]]
    /\ mailer \in [MailWorkers -> [at: {"idle", "picked", "claimed", "checked",
                                        "mailed", "refused"},
                                   job: Jobs \cup {0}, status: JobStatus,
                                   attempts: 0 .. MaxAttempts,
                                   secret: BOOLEAN, fit: BOOLEAN]]
    /\ mailed \in [Jobs -> 0 .. MaxAttempts * (1 + MaxReopens)]
    /\ reopened \in [Jobs -> 0 .. MaxReopens]
    /\ faults \in 0 .. MaxFaults

MailInit ==
    /\ job = [j \in Jobs |-> NoJob]
    /\ mailer = [w \in MailWorkers |-> IdleMailer]
    /\ mailed = [j \in Jobs |-> 0]
    /\ reopened = [j \in Jobs |-> 0]
    /\ faults = 0

\* The row a transaction adds beside the token or the answer it announces.
NewJob(table) == [table |-> table, status |-> "PENDING", attempts |-> 0,
                  secret |-> table = "account"]

(* ------------------------------- the workers ---------------------------- *)

Rests(j) == ~ \/ job[j].status \in {"PENDING", "ERROR"} /\ job[j].attempts < MaxAttempts
              \/ job[j].status = "SENDING"

\* Mutant of Pick: the limit of attempts is asked of a stale job too.
PickWithinLimit(w, j, fit) ==
    /\ mailer[w].at = "idle" /\ w[1] = job[j].table
    /\ ~Rests(j) /\ job[j].attempts < MaxAttempts
    /\ mailer' = [mailer EXCEPT ![w] = [at |-> "picked", job |-> j, status |-> job[j].status,
                                        attempts |-> job[j].attempts,
                                        secret |-> job[j].secret, fit |-> fit]]
    /\ UNCHANGED <<job, mailed, reopened, faults>>

\* findFirst: the oldest job that is due.  Only a PENDING job is due for certain.
\* The account worker reads the token and the recipient here, with the row.
Pick(w, j, fit) ==
    /\ mailer[w].at = "idle" /\ w[1] = job[j].table
    /\ ~Rests(j)
    /\ \A k \in Jobs : k < j /\ job[k].table = job[j].table =>
          ~(job[k].status = "PENDING" /\ job[k].attempts < MaxAttempts)
    /\ mailer' = [mailer EXCEPT ![w] = [at |-> "picked", job |-> j, status |-> job[j].status,
                                        attempts |-> job[j].attempts,
                                        secret |-> job[j].secret, fit |-> fit]]
    /\ UNCHANGED <<job, mailed, reopened, faults>>

Unchanged(w) == LET m == mailer[w] IN
    job[m.job].status = m.status /\ job[m.job].attempts = m.attempts

\* Mutant of Spent: one attempt too many.
SpentLate(w) == mailer[w].status = "SENDING" /\ mailer[w].attempts > MaxAttempts
Spent(w) == mailer[w].status = "SENDING" /\ mailer[w].attempts >= MaxAttempts

\* A job whose last attempt never reported is closed, and its token forgotten.
CloseStale(w) ==
    /\ mailer[w].at = "picked" /\ Spent(w)
    /\ job' = IF Unchanged(w)
              THEN [job EXCEPT ![mailer[w].job].status = "ERROR",
                               ![mailer[w].job].secret = FALSE]
              ELSE job
    /\ mailer' = [mailer EXCEPT ![w] = IdleMailer]
    /\ UNCHANGED <<mailed, reopened, faults>>

Claim(w) == LET j == mailer[w].job IN
    /\ mailer[w].at = "picked" /\ ~Spent(w)
    /\ IF Unchanged(w)
       THEN /\ job' = [job EXCEPT ![j].status = "SENDING", ![j].attempts = @ + 1]
            /\ mailer' = [mailer EXCEPT
                             ![w].at = IF job[j].table = "account" THEN "checked" ELSE "claimed",
                             ![w].attempts = @ + 1]
       ELSE /\ mailer' = [mailer EXCEPT ![w] = IdleMailer]
            /\ UNCHANGED job
    /\ UNCHANGED <<mailed, reopened, faults>>

\* complete: by id alone.  When the row is gone the update throws, and so does the
\* update of the catch block.
Complete(w, status) == LET j == mailer[w].job IN
    /\ job' = IF job[j].status = "NONE" THEN job
              ELSE [job EXCEPT ![j].status = status, ![j].secret = FALSE]
    /\ mailer' = [mailer EXCEPT ![w] = IdleMailer]
    /\ UNCHANGED <<mailed, reopened, faults>>

\* The inquiry worker reads the answer and the recipient once the job is its own.
Check(w, fit) ==
    /\ mailer[w].at = "claimed"
    /\ mailer' = [mailer EXCEPT ![w].at = "checked", ![w].fit = fit]
    /\ UNCHANGED <<job, mailed, reopened, faults>>

Deliverable(w) == LET m == mailer[w] IN
    m.fit /\ (m.secret \/ job[m.job].table = "inquiry")

Skip(w) ==
    /\ mailer[w].at = "checked" /\ ~Deliverable(w)
    /\ Complete(w, "SKIPPED")

\* SMTP takes the mail, or fails before or after it did.
Send(w, accepted, answered) == LET j == mailer[w].job IN
    /\ mailer[w].at = "checked" /\ Deliverable(w)
    /\ mailed' = IF accepted THEN [mailed EXCEPT ![j] = @ + 1] ELSE mailed
    /\ mailer' = [mailer EXCEPT ![w].at = IF accepted /\ answered THEN "mailed" ELSE "refused"]
    /\ UNCHANGED <<job, reopened, faults>>

RecordSent(w) == mailer[w].at = "mailed" /\ Complete(w, "SENT")

\* The catch block: by id alone too.  The token is kept for another attempt.
RecordError(w) == LET j == mailer[w].job IN
    /\ \/ mailer[w].at = "refused" /\ UNCHANGED faults
       \/ mailer[w].at = "mailed" /\ faults < MaxFaults /\ faults' = faults + 1
    /\ job' = IF job[j].status = "NONE" THEN job
              ELSE [job EXCEPT ![j].status = "ERROR",
                               ![j].secret = @ /\ mailer[w].attempts < MaxAttempts]
    /\ mailer' = [mailer EXCEPT ![w] = IdleMailer]
    /\ UNCHANGED <<mailed, reopened>>

\* The process dies and another takes its place: what it held is forgotten.
Die(w) ==
    /\ mailer[w].at # "idle"
    /\ faults < MaxFaults /\ faults' = faults + 1
    /\ mailer' = [mailer EXCEPT ![w] = IdleMailer]
    /\ UNCHANGED <<job, mailed, reopened>>

(* ------------------------- the operator, the provider ------------------- *)

\* Mutant of Reopen: a job between two attempts is put back too.
ReopenEarly(j) ==
    /\ job[j].table = "inquiry" /\ job[j].status = "ERROR" /\ reopened[j] < MaxReopens
    /\ job' = [job EXCEPT ![j].status = "PENDING", ![j].attempts = 0]
    /\ reopened' = [reopened EXCEPT ![j] = @ + 1]
    /\ UNCHANGED <<mailer, mailed, faults>>

\* retry: only an inquiry job that used up its attempts.
Reopen(j) ==
    /\ job[j].table = "inquiry" /\ job[j].status = "ERROR"
    /\ job[j].attempts >= MaxAttempts /\ reopened[j] < MaxReopens
    /\ job' = [job EXCEPT ![j].status = "PENDING", ![j].attempts = 0]
    /\ reopened' = [reopened EXCEPT ![j] = @ + 1]
    /\ UNCHANGED <<mailer, mailed, faults>>

\* applyBounce: only a job recorded as sent has the message's id.
Bounce(j) ==
    /\ job[j].status = "SENT"
    /\ job' = [job EXCEPT ![j].status = "BOUNCED"]
    /\ UNCHANGED <<mailer, mailed, reopened, faults>>
=============================================================================
