---------------------------- MODULE TossPayments ----------------------------
(***************************************************************************)
(* Toss Payments as the server sees it: the payment adapter                *)
(* (server/src/components/payments/toss-payments.provider.ts) and, behind  *)
(* it, the provider itself, which is external.  The adapter is modelled by *)
(* what it makes of an answer (MapStatus); the provider from the calls the *)
(* services make, the answers the adapter accepts and the webhooks the     *)
(* services expect.  SubscriptionOrders and StoreOrders extend this module *)
(* with the handlers that call it.                                         *)
(***************************************************************************)
EXTENDS Integers

CONSTANTS
    Orders,    \* order ids the server hands to the payment window
    Payments,  \* payment keys
    None       \* absent order, payment or user

ASSUME TossNoneAssumption == None \notin Orders \cup Payments

VARIABLES
    toss,      \* payments as Toss knows them
    notice     \* payments whose latest change Toss must still deliver

TossStatus == {"NONE", "READY", "WAITING", "DONE", "PARTIAL_CANCELED",
               "CANCELED", "ABORTED"}
PaymentStatus == {"ready", "paid", "cancelled", "failed"}

\* A payment key nobody has used.  answered: what Toss replays for the
\* idempotency key of the confirmation; refundKey: whether the idempotency
\* key of the refund has been used.
Unopened == [status |-> "NONE", order |-> None, amount |-> 0,
             cancelled |-> 0, answered |-> "none", refundKey |-> FALSE]

TossRow == [status : TossStatus, order : Orders \cup {None}, amount : Nat,
            cancelled : Nat, answered : PaymentStatus \cup {"none"},
            refundKey : BOOLEAN]

\* Variant: a status the map does not know is passed on as it is.
MapStatusUnmapped(s) ==
    CASE s = "DONE" -> "paid"
      [] s = "CANCELED" -> "cancelled"
      [] s = "ABORTED" -> "failed"
      [] s = "PARTIAL_CANCELED" -> s
      [] OTHER -> "ready"

\* Variant: a deposit that is still awaited counts as paid.
MapStatusEager(s) ==
    CASE s \in {"WAITING", "DONE", "PARTIAL_CANCELED"} -> "paid"
      [] s = "CANCELED" -> "cancelled"
      [] s = "ABORTED" -> "failed"
      [] OTHER -> "ready"

\* STATUS_MAP: a deposit that is still awaited reads as "ready", a partly
\* cancelled payment still reads as "paid".  EXPIRED reads like ABORTED.
MapStatus(s) ==
    CASE s \in {"DONE", "PARTIAL_CANCELED"} -> "paid"
      [] s = "CANCELED" -> "cancelled"
      [] s = "ABORTED" -> "failed"
      [] OTHER -> "ready"

\* A payment whose money Toss has collected at some time.
Approved(p) == toss[p].status \in {"DONE", "PARTIAL_CANCELED", "CANCELED"}

-----------------------------------------------------------------------------
(* What Toss does on its own, or for the buyer and the operator directly *)

\* The buyer authenticates a payment for an order in the Toss window; the
\* amount is the one the browser passes to the widget.
TossOpens(p, o, amount) ==
    /\ toss[p].status = "NONE"
    /\ toss' = [toss EXCEPT ![p] = [Unopened EXCEPT !.status = "READY",
                                                    !.order = o,
                                                    !.amount = amount]]
    /\ UNCHANGED notice

TossAborts(p) ==
    /\ toss[p].status \in {"READY", "WAITING"}
    /\ toss' = [toss EXCEPT ![p].status = "ABORTED"]
    /\ notice' = notice \cup {p}

\* The bank deposit that was awaited arrives.
TossCollects(p) ==
    /\ toss[p].status = "WAITING"
    /\ toss' = [toss EXCEPT ![p].status = "DONE"]
    /\ notice' = notice \cup {p}

\* Money goes back from the Toss console, in part or in full.
TossReturns(p, amount) ==
    /\ toss[p].status \in {"DONE", "PARTIAL_CANCELED"}
    /\ toss[p].cancelled + amount <= toss[p].amount
    /\ toss' = [toss EXCEPT
                  ![p].status = IF toss[p].cancelled + amount = toss[p].amount
                                  THEN "CANCELED" ELSE "PARTIAL_CANCELED",
                  ![p].cancelled = @ + amount]
    /\ notice' = notice \cup {p}

-----------------------------------------------------------------------------
(* The calls of the adapter that change something at Toss *)

\* confirmPayment is granted: the money is collected (s = "DONE"), or Toss
\* starts waiting for a bank deposit (s = "WAITING").
TossConfirms(p, o, amount, s) ==
    /\ toss[p].status = "READY"
    /\ toss[p].order = o
    /\ toss[p].amount = amount
    /\ toss' = [toss EXCEPT ![p].status = s, ![p].answered = MapStatus(s)]
    /\ notice' = notice \cup {p}

\* confirmPayment is refused: the payment is no longer READY, belongs to
\* another order or has another amount.
TossRefuses(p, o, amount) ==
    \/ toss[p].status # "READY"
    \/ toss[p].order # o
    \/ toss[p].amount # amount

\* cancelPayment of all that is left.
TossRefunds(p, amount) ==
    /\ toss[p].status \in {"DONE", "PARTIAL_CANCELED"}
    /\ amount = toss[p].amount - toss[p].cancelled
    /\ toss' = [toss EXCEPT ![p].status = "CANCELED",
                            ![p].cancelled = toss[p].amount,
                            ![p].refundKey = TRUE]
    /\ notice' = notice \cup {p}

\* cancelPayment of more than what is left, under an unused key.
TossRefusesRefund(p, amount) ==
    /\ ~toss[p].refundKey
    /\ amount > toss[p].amount - toss[p].cancelled
=============================================================================
