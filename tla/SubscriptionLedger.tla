------------------------- MODULE SubscriptionLedger -------------------------
(***************************************************************************)
(* What the subscription service promises of its books, as if each order   *)
(* had one row and every change of it were one step that sees the money at *)
(* the provider as it is: an order is sold, failed or voided once, under   *)
(* one payment key that serves no other order; it is sold only for the     *)
(* price collected for it, failed only under a key that collected nothing, *)
(* and no refund is booked before its money went back.                     *)
(***************************************************************************)
EXTENDS Naturals

CONSTANTS Users, Orders, Payments, Prices, None

VARIABLES
    book,     \* the row of each order
    money     \* what was collected under each payment key, and what went back

ledgerVars == <<book, money>>

Blank == [status |-> "NONE", owner |-> None, amount |-> 0, payId |-> None,
          refunded |-> 0, issued |-> FALSE]
Nothing == [order |-> None, amount |-> 0, returned |-> 0]

LedgerInit ==
    /\ book = [o \in Orders |-> Blank]
    /\ money = [p \in Payments |-> Nothing]

-----------------------------------------------------------------------------
(* The money at the provider *)

Collect(p, o, a) ==
    /\ money[p] = Nothing
    /\ money' = [money EXCEPT ![p] = [order |-> o, amount |-> a, returned |-> 0]]
    /\ UNCHANGED book

Return(p, n) ==
    /\ money[p].returned < n /\ n <= money[p].amount
    /\ money' = [money EXCEPT ![p].returned = n]
    /\ UNCHANGED book

-----------------------------------------------------------------------------
(* The books *)

Collected(p, o) == money[p].order = o /\ money[p].amount = book[o].amount
Unclaimed(p, o) == \A x \in Orders \ {o} : book[x].payId # p

\* The row of an order is written; its owner and its price stay.
Write(o, s, p, n, i) ==
    /\ book' = [book EXCEPT ![o] =
                  [status |-> s, owner |-> book[o].owner, amount |-> book[o].amount,
                   payId |-> p, refunded |-> n, issued |-> i]]
    /\ UNCHANGED money

\* An order is placed once, at the price it will be sold for.
Place(o, u, a) ==
    /\ book[o].status = "NONE"
    /\ book' = [book EXCEPT ![o] = [status |-> "PENDING", owner |-> u, amount |-> a,
                                    payId |-> None, refunded |-> 0, issued |-> FALSE]]
    /\ UNCHANGED money

Sell(o, p) ==
    /\ book[o].status = "PENDING" /\ Unclaimed(p, o) /\ Collected(p, o)
    /\ Write(o, "PAID", p, 0, TRUE)

\* Nothing was collected under the key.
Fail(o, p) ==
    /\ book[o].status = "PENDING" /\ Unclaimed(p, o) /\ money[p] = Nothing
    /\ Write(o, "FAILED", p, 0, FALSE)

\* All of the money went back before anything was issued.
Void(o, p) ==
    /\ book[o].status = "PENDING" /\ Unclaimed(p, o) /\ Collected(p, o)
    /\ money[p].returned = money[p].amount
    /\ Write(o, "CANCELED", p, money[p].amount, FALSE)

\* A refund is booked as its running sum; access ends when all went back.
Book(o, p, n) ==
    /\ book[o].issued /\ Collected(p, o)
    /\ Write(o, IF n = book[o].amount THEN "CANCELED" ELSE "PAID", book[o].payId, n, TRUE)

MoneyMoves ==
    \/ \E p \in Payments, o \in Orders, a \in Prices : Collect(p, o, a)
    \/ \E p \in Payments : \E n \in 1 .. money[p].amount : Return(p, n)

BookIsWritten == \E o \in Orders :
    \/ \E u \in Users, a \in Prices : Place(o, u, a)
    \/ \E p \in Payments : Sell(o, p) \/ Fail(o, p) \/ Void(o, p)
    \/ \E p \in Payments : \E n \in 0 .. money[p].returned : Book(o, p, n)

\* A step that changes neither is none.
LedgerNext ==
    \/ money' # money /\ MoneyMoves
    \/ book' # book /\ BookIsWritten

LedgerSpec == LedgerInit /\ [][LedgerNext]_ledgerVars
=============================================================================
