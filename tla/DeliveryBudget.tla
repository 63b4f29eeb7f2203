--------------------------- MODULE DeliveryBudget ---------------------------
(****************************************************************************)
(* What an outbox promises of its mails, whatever its workers do: a job is  *)
(* tried at most Tries times for each time it was put into the queue, and   *)
(* no mail leaves without a try of its own.                                 *)
(****************************************************************************)
EXTENDS Naturals

CONSTANTS Jobs, Tries

VARIABLES granted, tried, mailed

budgetVars == <<granted, tried, mailed>>

BudgetInit ==
    /\ granted = [j \in Jobs |-> Tries]
    /\ tried = [j \in Jobs |-> 0]
    /\ mailed = [j \in Jobs |-> 0]

Try(j) ==
    /\ tried[j] < granted[j]
    /\ tried' = [tried EXCEPT ![j] = @ + 1]
    /\ UNCHANGED <<granted, mailed>>

Mail(j) ==
    /\ mailed[j] < tried[j]
    /\ mailed' = [mailed EXCEPT ![j] = @ + 1]
    /\ UNCHANGED <<granted, tried>>

\* Only a job that used up its tries is put into the queue again.
Grant(j) ==
    /\ tried[j] = granted[j]
    /\ granted' = [granted EXCEPT ![j] = @ + Tries]
    /\ UNCHANGED <<tried, mailed>>

BudgetNext == \E j \in Jobs : Try(j) \/ Mail(j) \/ Grant(j)

BudgetSpec == BudgetInit /\ [][BudgetNext]_budgetVars
=============================================================================
