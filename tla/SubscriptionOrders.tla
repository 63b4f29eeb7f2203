------------------------- MODULE SubscriptionOrders -------------------------
(***************************************************************************)
(* Paid account subscriptions of the NestJS server                         *)
(* (server/src/subscription/subscription.service.ts), on top of the        *)
(* payment provider of TossPayments.                                       *)
(*                                                                         *)
(* An HTTP request is a process of the set Requests.  It runs one handler  *)
(* at a time and yields wherever the handler awaits: each action below is  *)
(* the code between two awaits, so a row read by one action may have       *)
(* changed when the next action of that request uses what it remembers.    *)
(* A prisma $transaction (and a single statement) is one action.           *)
(***************************************************************************)
EXTENDS TossPayments, FiniteSets

CONSTANTS
    Users,      \* account holders
    Requests,   \* HTTP requests that may be in flight together
    Prices,     \* prices of the active SubscriptionPlan rows
    MaxFaults   \* bound on requests that die half way (crash, lost answer)

ASSUME PricesAssumption == Prices \subseteq Nat \ {0}
ASSUME NoneAssumption == None \notin Users
ASSUME MaxFaultsAssumption == MaxFaults \in Nat

VARIABLES
    order,         \* SubscriptionOrder rows, by id
    subscription,  \* AccountSubscription rows, by (unique) orderId
    refunds,       \* SubscriptionRefund rows
    req,           \* what each request in flight remembers
    faults         \* requests lost so far

vars == <<order, subscription, refunds, toss, notice, req, faults>>

-----------------------------------------------------------------------------
(* Rows and records *)

OrderStatus == {"NONE", "PENDING", "PAID", "FAILED", "CANCELED"}

\* What a request is about to do; the names follow the handlers.
Pc == {"idle", "create", "confirm", "finalize",
       "hook_get", "hook_sub", "hook_claim", "hook_paid", "hook_void",
       "hook_fail", "refund_get", "refund_cancel", "apply"}

Exists(o) == order[o].status # "NONE"
Issued(o) == subscription[o].status # "NONE"
Larger(a, b) == IF a >= b THEN a ELSE b

AbsentOrder == [status |-> "NONE", owner |-> None, amount |-> 0,
                payId |-> None, refunded |-> 0, live |-> FALSE]
AbsentSubscription == [status |-> "NONE", owner |-> None, amount |-> 0,
                       payId |-> None, refunded |-> 0, over |-> FALSE]
Idle == [pc |-> "idle", user |-> None, order |-> None, pay |-> None,
         status |-> "ready", cancelled |-> 0, seen |-> 0, bound |-> None]

Init ==
    /\ order = [o \in Orders |-> AbsentOrder]
    /\ subscription = [o \in Orders |-> AbsentSubscription]
    /\ refunds = {}
    /\ toss = [p \in Payments |-> Unopened]
    /\ notice = {}
    /\ req = [r \in Requests |-> Idle]
    /\ faults = 0

Done(r) == req' = [req EXCEPT ![r] = Idle]
Goto(r, pc) == req' = [req EXCEPT ![r].pc = pc]

-----------------------------------------------------------------------------
(* createCheckout *)

ActiveSubscription(u) ==
    \E o \in Orders : /\ subscription[o].status = "PAID"
                      /\ subscription[o].owner = u
                      /\ ~subscription[o].over

PendingOrder(u) ==
    \E o \in Orders : /\ order[o].status = "PENDING"
                      /\ order[o].owner = u
                      /\ order[o].live

\* The three reads under Promise.all.  A consent refusal, an active
\* subscription or a pending order ends the request with nothing written.
\* The random id of the order to be created is drawn here.
CheckoutRead(r, u, o) ==
    /\ req[r].pc = "idle"
    /\ ~ActiveSubscription(u)
    /\ ~PendingOrder(u)
    /\ order[o].status = "NONE"
    /\ \A x \in Requests : req[x].order # o
    /\ req' = [req EXCEPT ![r] = [Idle EXCEPT !.pc = "create", !.user = u,
                                              !.order = o]]
    /\ UNCHANGED <<order, subscription, refunds, toss, notice, faults>>

\* The transaction that creates the order, with the price of the plan.
CheckoutCreate(r, price) ==
    /\ req[r].pc = "create"
    /\ order' = [order EXCEPT ![req[r].order] =
                   [AbsentOrder EXCEPT !.status = "PENDING", !.live = TRUE,
                                       !.owner = req[r].user,
                                       !.amount = price]]
    /\ Done(r)
    /\ UNCHANGED <<subscription, refunds, toss, notice, faults>>

-----------------------------------------------------------------------------
(* finalizePaidOrder, shared by verifyPayment and syncWebhook *)

\* providerPaymentId is unique over the orders: writing it a second time
\* aborts the transaction (verifyPayment also asks before it writes).
UsedElsewhere(o, p) == \E x \in Orders \ {o} : order[x].payId = p

\* Variant: an order that has expired is not claimed any more.
FinalizeUnexpired(o, p) ==
    IF order[o].status = "PENDING" /\ order[o].live /\ ~UsedElsewhere(o, p)
      THEN /\ order' = [order EXCEPT ![o].status = "PAID", ![o].payId = p]
           /\ subscription' = [subscription EXCEPT ![o] =
                 [AbsentSubscription EXCEPT !.status = "PAID",
                                            !.owner = order[o].owner,
                                            !.amount = order[o].amount,
                                            !.payId = p]]
      ELSE UNCHANGED <<order, subscription>>

\* The conditional claim of the PENDING row and the subscription created with
\* it.  When the claim finds no PENDING row nothing is written.
FinalizePaidOrder(o, p) ==
    IF order[o].status = "PENDING" /\ ~UsedElsewhere(o, p)
      THEN /\ order' = [order EXCEPT ![o].status = "PAID", ![o].payId = p]
           /\ subscription' = [subscription EXCEPT ![o] =
                 [AbsentSubscription EXCEPT !.status = "PAID",
                                            !.owner = order[o].owner,
                                            !.amount = order[o].amount,
                                            !.payId = p]]
      ELSE UNCHANGED <<order, subscription>>

\* It returns the subscription of the order, or throws PAYMENT_STATE_INVALID.
FinalizeReturns(o, p) ==
    \/ order[o].status = "PENDING" /\ ~UsedElsewhere(o, p)
    \/ order[o].status # "PENDING" /\ Issued(o)

-----------------------------------------------------------------------------
(* verifyPayment *)

\* Reads the order; only a PENDING one goes on (a PAID one is answered from
\* the row), and its expiresAt is not looked at.
VerifyStart(r, o, p) ==
    /\ req[r].pc = "idle"
    /\ order[o].status = "PENDING"
    /\ toss[p].status # "NONE"
    /\ req' = [req EXCEPT ![r] = [Idle EXCEPT !.pc = "confirm", !.order = o,
                                              !.pay = p]]
    /\ UNCHANGED <<order, subscription, refunds, toss, notice, faults>>

\* Toss approves the payment, or starts waiting for a bank deposit.
ConfirmAtToss(r, s) ==
    LET o == req[r].order
        p == req[r].pay
    IN  /\ req[r].pc = "confirm"
        /\ TossConfirms(p, o, order[o].amount, s)
        /\ IF MapStatus(s) = "paid" THEN Goto(r, "finalize") ELSE Done(r)
        /\ UNCHANGED <<order, subscription, refunds, faults>>

\* A retry under the same confirmation id gets the first answer again.
ConfirmReplayed(r) ==
    LET o == req[r].order
        p == req[r].pay
    IN  /\ req[r].pc = "confirm"
        /\ toss[p].answered # "none"
        /\ IF toss[p].answered = "paid" /\ toss[p].order = o
             THEN Goto(r, "finalize") ELSE Done(r)
        /\ UNCHANGED <<order, subscription, refunds, toss, notice, faults>>

\* Another confirmation id for a payment that is no longer READY, a foreign
\* order id or another amount: Toss refuses, the request ends in an error.
ConfirmRejected(r) ==
    LET o == req[r].order
        p == req[r].pay
    IN  /\ req[r].pc = "confirm"
        /\ TossRefuses(p, o, order[o].amount)
        /\ Done(r)
        /\ UNCHANGED <<order, subscription, refunds, toss, notice, faults>>

VerifyFinalize(r) ==
    /\ req[r].pc = "finalize"
    /\ FinalizePaidOrder(req[r].order, req[r].pay)
    /\ Done(r)
    /\ UNCHANGED <<refunds, toss, notice, faults>>

-----------------------------------------------------------------------------
(* syncWebhook, entered from a Toss webhook or from reconcileOrder *)

SyncStart(r, p) ==
    LET o == toss[p].order
    IN  /\ req[r].pc = "idle"
        /\ toss[p].status # "NONE"
        /\ Exists(o)
        /\ req' = [req EXCEPT ![r] =
                     [Idle EXCEPT !.pc = "hook_get", !.order = o, !.pay = p,
                                  !.seen = order[o].refunded,
                                  !.bound = order[o].payId]]

\* Toss delivers a webhook; it may deliver the same one again.
WebhookStart(r, p) ==
    /\ p \in notice
    /\ SyncStart(r, p)
    /\ notice' \in {notice, notice \ {p}}
    /\ UNCHANGED <<order, subscription, refunds, toss, faults>>

\* An operator replays the order with the payment key on the row, or with the
\* key typed in when the row has none.
ReconcileStart(r, p) ==
    /\ SyncStart(r, p)
    /\ order[toss[p].order].payId \in {None, p}
    /\ UNCHANGED <<order, subscription, refunds, toss, notice, faults>>

AmountMatches(o, p) == toss[p].amount = order[o].amount

\* The payment is read back from Toss and the branch is chosen on the answer.
HookGetPayment(r) ==
    LET o == req[r].order
        p == req[r].pay
        s == MapStatus(toss[p].status)
        branch == CASE toss[p].cancelled > 0 \/ s = "cancelled" -> "hook_sub"
                     [] toss[p].cancelled = 0 /\ s = "paid" -> "hook_paid"
                     [] toss[p].cancelled = 0 /\ s = "failed" -> "hook_fail"
                     [] OTHER -> "idle"
    IN  /\ req[r].pc = "hook_get"
        /\ IF ~AmountMatches(o, p) \/ branch = "idle"
             THEN Done(r)
             ELSE req' = [req EXCEPT ![r].pc = branch, ![r].status = s,
                                     ![r].cancelled = toss[p].cancelled]
        /\ UNCHANGED <<order, subscription, refunds, toss, notice, faults>>

HookPaid(r) ==
    /\ req[r].pc = "hook_paid"
    /\ FinalizePaidOrder(req[r].order, req[r].pay)
    /\ Done(r)
    /\ UNCHANGED <<refunds, toss, notice, faults>>

\* The cancelled branch looks the subscription up before it decides.
HookReadSubscription(r) ==
    LET o == req[r].order
    IN  /\ req[r].pc = "hook_sub"
        /\ IF Issued(o)
             THEN req' = [req EXCEPT
                            ![r].pc = "apply",
                            ![r].seen = Larger(@, subscription[o].refunded)]
             ELSE Goto(r, IF req[r].status = "paid" THEN "hook_claim"
                                                    ELSE "hook_void")
        /\ UNCHANGED <<order, subscription, refunds, toss, notice, faults>>

\* Partly cancelled before it was issued: issue first, then read it again.
HookClaim(r) ==
    /\ req[r].pc = "hook_claim"
    /\ FinalizePaidOrder(req[r].order, req[r].pay)
    /\ IF FinalizeReturns(req[r].order, req[r].pay)
         THEN Goto(r, "hook_sub") ELSE Done(r)
    /\ UNCHANGED <<refunds, toss, notice, faults>>

\* Variant: the order is closed whatever its status has become.
HookVoidUnclaimed(r) ==
    LET o == req[r].order
        p == req[r].pay
    IN  /\ req[r].pc = "hook_void"
        /\ order' = [order EXCEPT ![o].status = "CANCELED", ![o].payId = p,
                                  ![o].refunded = req[r].cancelled]
        /\ Done(r)
        /\ UNCHANGED <<subscription, refunds, toss, notice, faults>>

\* Cancelled and never issued: the order is closed if it is still PENDING.
HookVoid(r) ==
    LET o == req[r].order
        p == req[r].pay
    IN  /\ req[r].pc = "hook_void"
        /\ IF order[o].status = "PENDING" /\ ~UsedElsewhere(o, p)
             THEN order' = [order EXCEPT ![o].status = "CANCELED",
                                         ![o].payId = p,
                                         ![o].refunded = req[r].cancelled]
             ELSE UNCHANGED order
        /\ Done(r)
        /\ UNCHANGED <<subscription, refunds, toss, notice, faults>>

\* Variant: the failure is written whatever the status has become.
HookFailUnclaimed(r) ==
    LET o == req[r].order
        p == req[r].pay
    IN  /\ req[r].pc = "hook_fail"
        /\ order' = [order EXCEPT ![o].status = "FAILED", ![o].payId = p]
        /\ Done(r)
        /\ UNCHANGED <<subscription, refunds, toss, notice, faults>>

HookFail(r) ==
    LET o == req[r].order
        p == req[r].pay
    IN  /\ req[r].pc = "hook_fail"
        /\ IF order[o].status = "PENDING" /\ ~UsedElsewhere(o, p)
             THEN order' = [order EXCEPT ![o].status = "FAILED", ![o].payId = p]
             ELSE UNCHANGED order
        /\ Done(r)
        /\ UNCHANGED <<subscription, refunds, toss, notice, faults>>

-----------------------------------------------------------------------------
(* refundSubscription and applyRefund *)

\* An operator refunds a subscription that does not read REFUNDED.
RefundStart(r, o) ==
    /\ req[r].pc = "idle"
    /\ subscription[o].status = "PAID"
    /\ req' = [req EXCEPT ![r] =
                 [Idle EXCEPT !.pc = "refund_get", !.order = o,
                              !.pay = subscription[o].payId,
                              !.seen = Larger(order[o].refunded,
                                              subscription[o].refunded),
                              !.bound = order[o].payId]]
    /\ UNCHANGED <<order, subscription, refunds, toss, notice, faults>>

\* assertRefundPayment: a payment of this order, of its amount, and the one on
\* the row as the request read it.
RefundPayment(r) ==
    /\ toss[req[r].pay].order = req[r].order
    /\ AmountMatches(req[r].order, req[r].pay)
    /\ req[r].bound \in {None, req[r].pay}

RefundGetPayment(r) ==
    LET p == req[r].pay
        s == MapStatus(toss[p].status)
        open == order[req[r].order].amount - toss[p].cancelled
    IN  /\ req[r].pc = "refund_get"
        /\ IF RefundPayment(r) /\ (open > 0 => s = "paid")
             THEN req' = [req EXCEPT
                     ![r].pc = IF open > 0 THEN "refund_cancel" ELSE "apply",
                     ![r].status = s, ![r].cancelled = toss[p].cancelled]
             ELSE Done(r)
        /\ UNCHANGED <<order, subscription, refunds, toss, notice, faults>>

\* The rest of the amount, as last read, is cancelled under the idempotency
\* key of the subscription.
CancelAtToss(r) ==
    LET p == req[r].pay
        open == order[req[r].order].amount - req[r].cancelled
    IN  /\ req[r].pc = "refund_cancel"
        /\ TossRefunds(p, open)
        /\ req' = [req EXCEPT ![r].pc = "apply", ![r].status = "cancelled",
                              ![r].cancelled = toss[p].amount]
        /\ UNCHANGED <<order, subscription, refunds, faults>>

\* The key was used: the first answer, a complete cancellation, comes back.
CancelReplayed(r) ==
    LET p == req[r].pay
    IN  /\ req[r].pc = "refund_cancel"
        /\ toss[p].refundKey
        /\ req' = [req EXCEPT ![r].pc = "apply", ![r].status = "cancelled",
                              ![r].cancelled = toss[p].amount]
        /\ UNCHANGED <<order, subscription, refunds, toss, notice, faults>>

\* More than what is left, or nothing left: Toss refuses.
CancelRejected(r) ==
    LET p == req[r].pay
        open == order[req[r].order].amount - req[r].cancelled
    IN  /\ req[r].pc = "refund_cancel"
        /\ TossRefusesRefund(p, open)
        /\ Done(r)
        /\ UNCHANGED <<order, subscription, refunds, toss, notice, faults>>

\* Variant: any cancelled amount revokes the access.
IsAnyRefund(o, cumulative) == cumulative > 0

IsFullRefund(o, cumulative) == cumulative >= order[o].amount

\* Both rows are overwritten with the cumulative amount the request read from
\* Toss; the ledger row is keyed by payment and cumulative amount and records
\* the difference to what the request read from the two rows.
ApplyRefund(r) ==
    LET o == req[r].order
        p == req[r].pay
        cumulative == req[r].cancelled
        full == IsFullRefund(o, cumulative)
        row == [order |-> o, cumulative |-> cumulative,
                amount |-> cumulative - req[r].seen]
        known == \E x \in refunds : x.order = o /\ x.cumulative = cumulative
    IN  /\ req[r].pc = "apply"
        /\ IF RefundPayment(r)
             THEN /\ order' = [order EXCEPT
                       ![o].status = IF full THEN "CANCELED" ELSE "PAID",
                       ![o].refunded = cumulative]
                  /\ subscription' = [subscription EXCEPT
                       ![o].status = IF full THEN "REFUNDED" ELSE "PAID",
                       ![o].refunded = cumulative]
                  /\ refunds' = IF cumulative > req[r].seen /\ ~known
                                  THEN refunds \cup {row} ELSE refunds
             ELSE UNCHANGED <<order, subscription, refunds>>
        /\ Done(r)
        /\ UNCHANGED <<toss, notice, faults>>

-----------------------------------------------------------------------------
(* The clock, Toss on its own initiative, and failures *)

\* expiresAt passes; endsAt passes.
OrderExpires(o) ==
    /\ order[o].status = "PENDING"
    /\ order[o].live
    /\ order' = [order EXCEPT ![o].live = FALSE]
    /\ UNCHANGED <<subscription, refunds, toss, notice, req, faults>>

SubscriptionEnds(o) ==
    /\ subscription[o].status = "PAID"
    /\ ~subscription[o].over
    /\ subscription' = [subscription EXCEPT ![o].over = TRUE]
    /\ UNCHANGED <<order, refunds, toss, notice, req, faults>>

\* The payment window opens for the amount the browser passes on.
OpenPayment(p, o, amount) ==
    /\ order[o].status = "PENDING"
    /\ TossOpens(p, o, amount)
    /\ UNCHANGED <<order, subscription, refunds, req, faults>>

PaymentAborted(p) ==
    TossAborts(p) /\ UNCHANGED <<order, subscription, refunds, req, faults>>

DepositArrives(p) ==
    TossCollects(p) /\ UNCHANGED <<order, subscription, refunds, req, faults>>

CancelledOutside(p, amount) ==
    /\ TossReturns(p, amount)
    /\ UNCHANGED <<order, subscription, refunds, req, faults>>

\* A request dies between two awaits: the process restarts, the database or
\* the provider call fails, the answer is lost.  A webhook that was not
\* acknowledged stays due (and Toss may repeat one that was).
Syncing(r) == req[r].pc \in {"hook_get", "hook_sub", "hook_claim", "hook_paid",
                             "hook_void", "hook_fail", "apply"}

RequestDies(r) ==
    /\ req[r].pc # "idle"
    /\ faults < MaxFaults
    /\ faults' = faults + 1
    /\ Done(r)
    /\ notice' = IF Syncing(r) THEN notice \cup {req[r].pay} ELSE notice
    /\ UNCHANGED <<order, subscription, refunds, toss>>

-----------------------------------------------------------------------------
Checkout(r) == \/ \E u \in Users, o \in Orders : CheckoutRead(r, u, o)
               \/ \E price \in Prices : CheckoutCreate(r, price)

Verify(r) == \/ \E o \in Orders, p \in Payments : VerifyStart(r, o, p)
             \/ \E s \in {"DONE", "WAITING"} : ConfirmAtToss(r, s)
             \/ ConfirmReplayed(r)
             \/ ConfirmRejected(r)
             \/ VerifyFinalize(r)

Sync(r) == \/ \E p \in Payments : WebhookStart(r, p)
           \/ \E p \in Payments : ReconcileStart(r, p)
           \/ HookGetPayment(r)
           \/ HookPaid(r)
           \/ HookReadSubscription(r)
           \/ HookClaim(r)
           \/ HookVoid(r)
           \/ HookFail(r)

Refund(r) == \/ \E o \in Orders : RefundStart(r, o)
             \/ RefundGetPayment(r)
             \/ CancelAtToss(r)
             \/ CancelReplayed(r)
             \/ CancelRejected(r)
             \/ ApplyRefund(r)

Environment ==
    \/ \E o \in Orders : OrderExpires(o) \/ SubscriptionEnds(o)
    \/ \E p \in Payments, o \in Orders, a \in Prices : OpenPayment(p, o, a)
    \/ \E p \in Payments : PaymentAborted(p) \/ DepositArrives(p)
    \/ \E p \in Payments : \E a \in 1..toss[p].amount : CancelledOutside(p, a)
    \/ \E r \in Requests : RequestDies(r)

Next ==
    \/ \E r \in Requests : Checkout(r) \/ Verify(r) \/ Sync(r) \/ Refund(r)
    \/ Environment

Spec == Init /\ [][Next]_vars

\* A request that has started goes on to its next await: the event loop of
\* node never abandons a runnable continuation.
Continue(r) ==
    \/ \E price \in Prices : CheckoutCreate(r, price)
    \/ \E s \in {"DONE", "WAITING"} : ConfirmAtToss(r, s)
    \/ ConfirmReplayed(r) \/ ConfirmRejected(r) \/ VerifyFinalize(r)
    \/ HookGetPayment(r) \/ HookPaid(r) \/ HookReadSubscription(r)
    \/ HookClaim(r) \/ HookVoid(r) \/ HookFail(r)
    \/ RefundGetPayment(r) \/ CancelAtToss(r) \/ CancelReplayed(r)
    \/ CancelRejected(r) \/ ApplyRefund(r)

\* Toss goes on delivering a webhook until it is acknowledged.  Strong
\* fairness only because the pool of requests is finite here and the other
\* handlers may hold it.
Fairness ==
    /\ \A r \in Requests : WF_vars(Continue(r))
    /\ \A p \in Payments : SF_vars(\E r \in Requests : WebhookStart(r, p))

FairSpec == Spec /\ Fairness

-----------------------------------------------------------------------------
(* Properties *)

OrderRow == [status : OrderStatus, owner : Users \cup {None}, amount : Nat,
             payId : Payments \cup {None}, refunded : Nat, live : BOOLEAN]
SubscriptionRow ==
    [status : {"NONE", "PAID", "REFUNDED"}, owner : Users \cup {None},
     amount : Nat, payId : Payments \cup {None}, refunded : Nat,
     over : BOOLEAN]
RefundRow == [order : Orders, cumulative : Nat, amount : Nat]
Request == [pc : Pc, user : Users \cup {None}, order : Orders \cup {None},
            pay : Payments \cup {None}, status : PaymentStatus,
            cancelled : Nat, seen : Nat, bound : Payments \cup {None}]

\* Every row and every request in flight has its type.
TypeOK ==
    /\ order \in [Orders -> OrderRow]
    /\ subscription \in [Orders -> SubscriptionRow]
    /\ refunds \subseteq RefundRow
    /\ toss \in [Payments -> TossRow]
    /\ notice \subseteq Payments
    /\ req \in [Requests -> Request]
    /\ faults \in 0..MaxFaults

\* The mismatches buildPaymentReconciliation looks for between an order and
\* its subscription (a PAID order without payment id or subscription, another
\* owner, amount, payment id or refunded amount, a refund that revoked only
\* one of the two rows) never arise, in any order of verifications, webhooks
\* and refunds.
ReconciliationClean ==
    \A o \in Orders :
        /\ order[o].status = "PAID" => Issued(o) /\ order[o].payId # None
        /\ Issued(o) =>
             /\ subscription[o].owner = order[o].owner
             /\ subscription[o].amount = order[o].amount
             /\ subscription[o].payId = order[o].payId
             /\ subscription[o].refunded = order[o].refunded
             /\ order[o].status = "PAID" <=> subscription[o].status = "PAID"
             /\ order[o].status = "CANCELED"
                  <=> subscription[o].status = "REFUNDED"
             /\ order[o].status = "CANCELED"
                  <=> order[o].refunded >= order[o].amount

\* A subscription was paid for: Toss collected the price of exactly this order
\* under the payment key on the row, and the key pays for no other order.
IssuedOnlyIfCollected ==
    \A o \in Orders : Issued(o) =>
        LET p == subscription[o].payId
        IN  /\ p \in Payments
            /\ Approved(p)
            /\ toss[p].order = o
            /\ toss[p].amount = order[o].amount
            /\ \A x \in Orders \ {o} : order[x].payId # p

\* Toss collected one payment for the order, the one on its subscription.  A
\* buyer who opened the payment window twice may have paid twice.
PaidOnce(o) == \A p \in Payments :
    Approved(p) /\ toss[p].order = o => p = subscription[o].payId

\* For an order that was paid once, the books never show more money returned
\* than Toss returned: not on the rows, not in a ledger row; and access is
\* revoked only when all of the money went back.
RefundsAreBacked ==
    /\ \A o \in Orders : Issued(o) /\ PaidOnce(o) =>
         /\ subscription[o].refunded <= toss[subscription[o].payId].cancelled
         /\ subscription[o].status = "REFUNDED" =>
               toss[subscription[o].payId].status = "CANCELED"
    /\ \A x \in refunds :
         /\ Issued(x.order)
         /\ x.amount \in 1..x.cumulative
         /\ PaidOnce(x.order) =>
              x.cumulative <= toss[subscription[x.order].payId].cancelled

\* The books as one row for each order, read where the code reads it: in the
\* subscription once it is issued, in the order before.
BookRow(o) ==
    IF Issued(o)
      THEN [status |-> IF subscription[o].status = "PAID" THEN "PAID" ELSE "CANCELED",
            owner |-> subscription[o].owner, amount |-> subscription[o].amount,
            payId |-> subscription[o].payId, refunded |-> subscription[o].refunded,
            issued |-> TRUE]
      ELSE [status |-> order[o].status, owner |-> order[o].owner,
            amount |-> order[o].amount, payId |-> order[o].payId,
            refunded |-> order[o].refunded, issued |-> FALSE]
MoneyOf(p) ==
    [order |-> IF Approved(p) THEN toss[p].order ELSE None,
     amount |-> IF Approved(p) THEN toss[p].amount ELSE 0,
     returned |-> toss[p].cancelled]

Books == [o \in Orders |-> BookRow(o)]
Money == [p \in Payments |-> MoneyOf(p)]

Ledger == INSTANCE SubscriptionLedger WITH book <- Books, money <- Money

\* The handlers, though each reads Toss and the rows, waits, and writes later,
\* implement SubscriptionLedger: whatever overtakes a request between its
\* reads and its write, both tables change as one row would that is written
\* under the money as it is at that moment (the conditional updates of
\* finalizePaidOrder and syncWebhook, the amounts and keys they compare).
KeepsTheLedger == Ledger!LedgerSpec

\* Money is never left unanswered: once Toss has collected the price of an
\* order, a lost answer, a crash or a duplicated webhook does not leave that
\* order PENDING for ever.
CollectedMoneySettles ==
    \A o \in Orders, p \in Payments :
        (Approved(p) /\ toss[p].order = o /\ toss[p].amount = order[o].amount)
            ~> order[o].status # "PENDING"

-----------------------------------------------------------------------------
(* Statements of the documentation the code does not meet *)

\* docs/BACKEND_INTEGRATION.md: access goes when the refunds reach the amount
\* of the order; a subscription refunded in full is not given back.
FullRefundIsFinal ==
    [][\A o \in Orders : subscription[o].status = "REFUNDED"
          => subscription'[o].status = "REFUNDED"]_vars
=============================================================================
