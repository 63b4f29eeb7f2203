---------------------------- MODULE StoreOrders ----------------------------
(***************************************************************************)
(* The textbook store of the NestJS server                                 *)
(* (server/src/store/store.service.ts), on top of the payment provider of  *)
(* TossPayments: cart, checkout with reservation of stock, confirmation,   *)
(* webhook, refund and the return of expired reservations.                 *)
(*                                                                         *)
(* An HTTP request is a process of the set Requests that yields wherever   *)
(* the handler awaits; a prisma $transaction is one action.                *)
(***************************************************************************)
EXTENDS TossPayments, FiniteSets

CONSTANTS
    Users,         \* account holders
    Requests,      \* HTTP requests that may be in flight together
    Products,      \* active StoreProduct ids
    Stocked,       \* products whose stockQuantity is not null
    InitialStock,  \* stockQuantity of the Stocked products
    Baskets,       \* what a checkout may ask for: a quantity per product
    Amounts,       \* what a basket may cost at the prices of the moment
    MaxItems,      \* MAX_ITEMS: different products in a cart
    MaxFaults      \* bound on requests that die half way

ASSUME StoreAssumption ==
    /\ None \notin Users
    /\ Stocked \subseteq Products
    /\ InitialStock \in [Products -> Nat]
    /\ Baskets \subseteq [Products -> Nat]
    /\ Amounts \subseteq Nat \ {0}
    /\ MaxItems \in Nat
    /\ MaxFaults \in Nat

VARIABLES
    stock,   \* StoreProduct.stockQuantity
    order,   \* StoreOrder rows with their items
    cart,    \* StoreCartItem quantities (0: no row)
    req,     \* what each request in flight remembers
    faults   \* requests lost so far

vars == <<stock, order, cart, toss, notice, req, faults>>

OrderStatus == {"NONE", "PENDING", "PAID", "FAILED", "CANCELED"}

\* expiresAt lies ahead, has passed, has passed by the grace period.
Expiry == {"open", "expired", "overdue"}

Pc == {"idle", "cart_put", "sweep", "shop", "create", "release", "confirm",
       "commit", "hook_get", "hook_write", "refund_get", "refund_cancel",
       "refund_write"}

NoItems == [p \in Products |-> 0]
AbsentOrder == [status |-> "NONE", owner |-> None, items |-> NoItems,
                amount |-> 0, payId |-> None, refunded |-> 0,
                reserved |-> FALSE, released |-> FALSE, expiry |-> "open"]
Idle == [pc |-> "idle", user |-> None, order |-> None, pay |-> None,
         items |-> NoItems, amount |-> 0, status |-> "NONE", held |-> FALSE,
         cancelled |-> 0, todo |-> {}]

Init ==
    /\ stock = InitialStock
    /\ order = [o \in Orders |-> AbsentOrder]
    /\ cart = [u \in Users |-> NoItems]
    /\ toss = [p \in Payments |-> Unopened]
    /\ notice = {}
    /\ req = [r \in Requests |-> Idle]
    /\ faults = 0

Done(r) == req' = [req EXCEPT ![r] = Idle]
Goto(r, pc) == req' = [req EXCEPT ![r].pc = pc]

-----------------------------------------------------------------------------
(* setCartItem, removeCartItem *)

CartSize(u) == Cardinality({p \in Products : cart[u][p] > 0})

\* The product, the row and the number of rows are read under Promise.all.
CartRead(r, u, p, quantity) ==
    /\ req[r].pc = "idle"
    /\ cart[u][p] > 0 \/ CartSize(u) < MaxItems
    /\ req' = [req EXCEPT ![r] =
                 [Idle EXCEPT !.pc = "cart_put", !.user = u,
                              !.items = [NoItems EXCEPT ![p] = quantity]]]
    /\ UNCHANGED <<stock, order, cart, toss, notice, faults>>

\* The upsert of that one row.
CartPut(r) ==
    LET u == req[r].user
    IN  /\ req[r].pc = "cart_put"
        /\ cart' = [cart EXCEPT ![u] = [p \in Products |->
                      IF req[r].items[p] > 0 THEN req[r].items[p] ELSE @[p]]]
        /\ Done(r)
        /\ UNCHANGED <<stock, order, toss, notice, faults>>

CartRemove(u, p) ==
    /\ cart[u][p] > 0
    /\ cart' = [cart EXCEPT ![u][p] = 0]
    /\ UNCHANGED <<stock, order, toss, notice, req, faults>>

\* A payment takes the ordered products out of the buyer's cart.
CartCleared(o) ==
    [cart EXCEPT ![order[o].owner] =
        [p \in Products |-> IF order[o].items[p] > 0 THEN 0 ELSE @[p]]]

-----------------------------------------------------------------------------
(* releaseOrderReservation, releaseExpiredReservations *)

Returned(o) ==
    [p \in Products |->
        IF p \in Stocked THEN stock[p] + order[o].items[p] ELSE stock[p]]

\* Variant: the order is released whatever its status has become.
ReleaseUnclaimed(o) ==
    IF ~order[o].released
      THEN /\ order' = [order EXCEPT ![o].status = "FAILED",
                                     ![o].released = TRUE]
           /\ stock' = IF order[o].reserved THEN Returned(o) ELSE stock
      ELSE UNCHANGED <<order, stock>>

\* Variant: the stock is not put back.
ReleaseKeepsStock(o) ==
    IF order[o].status = "PENDING" /\ ~order[o].released
      THEN /\ order' = [order EXCEPT ![o].status = "FAILED",
                                     ![o].released = TRUE]
           /\ UNCHANGED stock
      ELSE UNCHANGED <<order, stock>>

\* Variant: the order is marked but stays PENDING.
ReleaseLeavesPending(o) ==
    IF order[o].status = "PENDING" /\ ~order[o].released
      THEN /\ order' = [order EXCEPT ![o].released = TRUE]
           /\ stock' = IF order[o].reserved THEN Returned(o) ELSE stock
      ELSE UNCHANGED <<order, stock>>

\* The conditional claim of the PENDING row and the return of its stock.
Release(o) ==
    IF order[o].status = "PENDING" /\ ~order[o].released
      THEN /\ order' = [order EXCEPT ![o].status = "FAILED",
                                     ![o].released = TRUE]
           /\ stock' = IF order[o].reserved THEN Returned(o) ELSE stock
      ELSE UNCHANGED <<order, stock>>

Overdue == {o \in Orders : /\ order[o].status = "PENDING"
                           /\ order[o].expiry = "overdue"
                           /\ order[o].reserved
                           /\ ~order[o].released}

\* The list of overdue reservations is read once, by a checkout or by the
\* product list.
SweepRead(r) ==
    /\ req[r].pc = "idle"
    /\ req' = [req EXCEPT ![r] =
                 [Idle EXCEPT !.pc = IF Overdue = {} THEN "shop" ELSE "sweep",
                              !.todo = Overdue]]
    /\ UNCHANGED <<stock, order, cart, toss, notice, faults>>

\* Each is released in a transaction of its own.
SweepRelease(r, o) ==
    /\ req[r].pc = "sweep"
    /\ o \in req[r].todo
    /\ Release(o)
    /\ req' = [req EXCEPT ![r].todo = @ \ {o},
                          ![r].pc = IF req[r].todo = {o} THEN "shop" ELSE @]
    /\ UNCHANGED <<cart, toss, notice, faults>>

\* The product list stops here.
ListProducts(r) ==
    /\ req[r].pc = "shop"
    /\ Done(r)
    /\ UNCHANGED <<stock, order, cart, toss, notice, faults>>

-----------------------------------------------------------------------------
(* createCheckout *)

PendingOrder(u) == \E o \in Orders : /\ order[o].status = "PENDING"
                                     /\ order[o].owner = u
                                     /\ order[o].expiry = "open"

\* Prices and the buyer's pending order are read together.  A pending order
\* is returned or reported and ends the request.  The items come from the
\* body or from the cart, which holds nothing the body could not.
CheckoutRead(r, u, o, items, amount) ==
    /\ req[r].pc = "shop"
    /\ ~PendingOrder(u)
    /\ order[o].status = "NONE"
    /\ \A x \in Requests : req[x].order # o
    /\ req' = [req EXCEPT ![r] =
                 [Idle EXCEPT !.pc = "create", !.user = u, !.order = o,
                              !.items = items, !.amount = amount]]
    /\ UNCHANGED <<stock, order, cart, toss, notice, faults>>

\* Variant: any stock above zero will do.
InStockAtAll(items) ==
    \A p \in Stocked : items[p] > 0 => stock[p] > 0

InStock(items) == \A p \in Stocked : items[p] > 0 => stock[p] >= items[p]

\* One transaction: every stocked product is decremented or nothing is.
CheckoutCreate(r) ==
    LET items == req[r].items
    IN  /\ req[r].pc = "create"
        /\ IF InStock(items)
             THEN /\ stock' = [p \in Products |->
                       IF p \in Stocked THEN stock[p] - items[p] ELSE stock[p]]
                  /\ order' = [order EXCEPT ![req[r].order] =
                       [AbsentOrder EXCEPT
                          !.status = "PENDING", !.owner = req[r].user,
                          !.items = items, !.amount = req[r].amount,
                          !.reserved = \E p \in Stocked : items[p] > 0]]
             ELSE UNCHANGED <<stock, order>>
        /\ Done(r)
        /\ UNCHANGED <<cart, toss, notice, faults>>

-----------------------------------------------------------------------------
(* What a payment record must say before the store acts on it *)

\* assertPaymentIdentity
PaymentIdentity(o, p) == toss[p].order = o /\ toss[p].amount = order[o].amount

\* providerPaymentId is unique over the orders.
UsedElsewhere(o, p) == \E x \in Orders \ {o} : order[x].payId = p

(* confirmPayment *)

\* Only a PENDING order goes on; one that has expired is given back instead.
ConfirmStart(r, o, p) ==
    /\ req[r].pc = "idle"
    /\ order[o].status = "PENDING"
    /\ toss[p].status # "NONE"
    /\ req' = [req EXCEPT ![r] =
                 [Idle EXCEPT !.pc = IF order[o].expiry = "open"
                                       THEN "confirm" ELSE "release",
                              !.order = o, !.pay = p]]
    /\ UNCHANGED <<stock, order, cart, toss, notice, faults>>

ConfirmRelease(r) ==
    /\ req[r].pc = "release"
    /\ Release(req[r].order)
    /\ Done(r)
    /\ UNCHANGED <<cart, toss, notice, faults>>

\* Toss approves the payment, or starts waiting for a bank deposit.
ConfirmAtToss(r, s) ==
    LET o == req[r].order
    IN  /\ req[r].pc = "confirm"
        /\ TossConfirms(req[r].pay, o, order[o].amount, s)
        /\ IF MapStatus(s) = "paid" THEN Goto(r, "commit") ELSE Done(r)
        /\ UNCHANGED <<stock, order, cart, faults>>

\* A retry under the same confirmation id gets the first answer again.
ConfirmReplayed(r) ==
    LET p == req[r].pay
    IN  /\ req[r].pc = "confirm"
        /\ toss[p].answered # "none"
        /\ IF toss[p].answered = "paid" /\ PaymentIdentity(req[r].order, p)
             THEN Goto(r, "commit") ELSE Done(r)
        /\ UNCHANGED <<stock, order, cart, toss, notice, faults>>

ConfirmRejected(r) ==
    LET o == req[r].order
    IN  /\ req[r].pc = "confirm"
        /\ TossRefuses(req[r].pay, o, order[o].amount)
        /\ Done(r)
        /\ UNCHANGED <<stock, order, cart, toss, notice, faults>>

\* The conditional claim of the PENDING row; the cart only with the claim.
ConfirmCommit(r) ==
    LET o == req[r].order
        p == req[r].pay
    IN  /\ req[r].pc = "commit"
        /\ IF order[o].status = "PENDING" /\ ~UsedElsewhere(o, p)
             THEN /\ order' = [order EXCEPT ![o].status = "PAID",
                                            ![o].payId = p]
                  /\ cart' = CartCleared(o)
             ELSE UNCHANGED <<order, cart>>
        /\ Done(r)
        /\ UNCHANGED <<stock, toss, notice, faults>>

-----------------------------------------------------------------------------
(* syncWebhook *)

\* Toss delivers a webhook, and may deliver it again; the order is read.
WebhookStart(r, p) ==
    LET o == toss[p].order
    IN  /\ req[r].pc = "idle"
        /\ p \in notice
        /\ order[o].status # "NONE"
        /\ req' = [req EXCEPT ![r] =
                     [Idle EXCEPT !.pc = "hook_get", !.order = o, !.pay = p,
                                  !.status = order[o].status,
                                  !.held = /\ order[o].status = "PENDING"
                                           /\ order[o].reserved
                                           /\ ~order[o].released]]
        /\ notice' \in {notice, notice \ {p}}
        /\ UNCHANGED <<stock, order, cart, toss, faults>>

\* Variant: a payment is accepted for an order still PENDING only.
WebhookStatusPendingOnly(p, status) ==
    LET s == MapStatus(toss[p].status)
    IN  CASE s = "paid" /\ status = "PENDING" -> "PAID"
          [] s = "cancelled" -> "CANCELED"
          [] s = "failed" /\ status = "PENDING" -> "FAILED"
          [] OTHER -> status

\* Variant: any cancelled amount cancels the order.
WebhookStatusPartial(p, status) ==
    LET s == MapStatus(toss[p].status)
    IN  CASE toss[p].cancelled > 0 -> "CANCELED"
          [] s = "paid" /\ toss[p].cancelled = 0 -> "PAID"
          [] s = "failed" /\ status = "PENDING" -> "FAILED"
          [] OTHER -> status

\* The status the order is to have, from the payment as it is now and the
\* status the order had when it was read.
WebhookStatus(p, status) ==
    LET s == MapStatus(toss[p].status)
    IN  CASE s = "paid" -> "PAID"
          [] s = "cancelled" -> "CANCELED"
          [] s = "failed" /\ status = "PENDING" -> "FAILED"
          [] OTHER -> status

\* The payment is read back; a mismatch or "no_change" ends the request.
WebhookGetPayment(r) ==
    LET o == req[r].order
        p == req[r].pay
        status == WebhookStatus(p, req[r].status)
    IN  /\ req[r].pc = "hook_get"
        /\ IF PaymentIdentity(o, p) /\ status # req[r].status
             THEN req' = [req EXCEPT ![r].pc = "hook_write",
                                     ![r].status = status,
                                     ![r].cancelled = toss[p].cancelled]
             ELSE Done(r)
        /\ UNCHANGED <<stock, order, cart, toss, notice, faults>>

\* inventoryReleasedAt after the transaction below.
WebhookReleased(r) ==
    \/ order[req[r].order].released
    \/ req[r].status # "PAID" /\ req[r].held

\* The unconditional update of the row; the stock goes back if the order was
\* PENDING and held it when it was read.
WebhookWrite(r) ==
    LET o == req[r].order
    IN  /\ req[r].pc = "hook_write"
        /\ order' = [order EXCEPT ![o].status = req[r].status,
                                  ![o].payId = req[r].pay,
                                  ![o].refunded = req[r].cancelled,
                                  ![o].released = WebhookReleased(r)]
        /\ cart' = IF req[r].status = "PAID" THEN CartCleared(o) ELSE cart
        /\ stock' = IF req[r].status # "PAID" /\ req[r].held
                      THEN Returned(o) ELSE stock
        /\ Done(r)
        /\ UNCHANGED <<toss, notice, faults>>

-----------------------------------------------------------------------------
(* refundOrder *)

RefundStart(r, o) ==
    /\ req[r].pc = "idle"
    /\ order[o].status = "PAID"
    /\ req' = [req EXCEPT ![r] = [Idle EXCEPT !.pc = "refund_get",
                                              !.order = o,
                                              !.pay = order[o].payId]]
    /\ UNCHANGED <<stock, order, cart, toss, notice, faults>>

RefundGetPayment(r) ==
    LET o == req[r].order
        p == req[r].pay
        open == order[o].amount - toss[p].cancelled
    IN  /\ req[r].pc = "refund_get"
        /\ IF PaymentIdentity(o, p)
                /\ (open > 0 => MapStatus(toss[p].status) = "paid")
             THEN req' = [req EXCEPT
                            ![r].pc = IF open > 0 THEN "refund_cancel"
                                                  ELSE "refund_write",
                            ![r].cancelled = toss[p].cancelled]
             ELSE Done(r)
        /\ UNCHANGED <<stock, order, cart, toss, notice, faults>>

\* The rest of the amount, as last read, is cancelled under the idempotency
\* key of the order.
RefundAtToss(r) ==
    LET p == req[r].pay
    IN  /\ req[r].pc = "refund_cancel"
        /\ TossRefunds(p, order[req[r].order].amount - req[r].cancelled)
        /\ req' = [req EXCEPT ![r].pc = "refund_write",
                              ![r].cancelled = toss[p].amount]
        /\ UNCHANGED <<stock, order, cart, faults>>

\* The key was used: the first answer, a complete cancellation, comes back.
RefundReplayed(r) ==
    LET p == req[r].pay
    IN  /\ req[r].pc = "refund_cancel"
        /\ toss[p].refundKey
        /\ req' = [req EXCEPT ![r].pc = "refund_write",
                              ![r].cancelled = toss[p].amount]
        /\ UNCHANGED <<stock, order, cart, toss, notice, faults>>

RefundRejected(r) ==
    /\ req[r].pc = "refund_cancel"
    /\ TossRefusesRefund(req[r].pay,
                         order[req[r].order].amount - req[r].cancelled)
    /\ Done(r)
    /\ UNCHANGED <<stock, order, cart, toss, notice, faults>>

\* The row is overwritten; the stock of a refunded order does not come back.
RefundWrite(r) ==
    LET o == req[r].order
    IN  /\ req[r].pc = "refund_write"
        /\ order' = [order EXCEPT ![o].status = "CANCELED",
                                  ![o].refunded = req[r].cancelled]
        /\ Done(r)
        /\ UNCHANGED <<stock, cart, toss, notice, faults>>

-----------------------------------------------------------------------------
(* The clock, Toss on its own initiative, and failures *)

TimePasses(o) ==
    /\ order[o].status = "PENDING"
    /\ order[o].expiry # "overdue"
    /\ order' = [order EXCEPT ![o].expiry =
                    IF @ = "open" THEN "expired" ELSE "overdue"]
    /\ UNCHANGED <<stock, cart, toss, notice, req, faults>>

OpenPayment(p, o, amount) ==
    /\ order[o].status = "PENDING"
    /\ TossOpens(p, o, amount)
    /\ UNCHANGED <<stock, order, cart, req, faults>>

PaymentAborted(p) ==
    TossAborts(p) /\ UNCHANGED <<stock, order, cart, req, faults>>

DepositArrives(p) ==
    TossCollects(p) /\ UNCHANGED <<stock, order, cart, req, faults>>

CancelledOutside(p, amount) ==
    TossReturns(p, amount) /\ UNCHANGED <<stock, order, cart, req, faults>>

\* A request dies between two awaits; a webhook that was not acknowledged
\* stays due.
RequestDies(r) ==
    /\ req[r].pc # "idle"
    /\ faults < MaxFaults
    /\ faults' = faults + 1
    /\ Done(r)
    /\ notice' = IF req[r].pc \in {"hook_get", "hook_write"}
                   THEN notice \cup {req[r].pay} ELSE notice
    /\ UNCHANGED <<stock, order, cart, toss>>

-----------------------------------------------------------------------------
Quantities == UNION {{b[p] : p \in Products} : b \in Baskets} \ {0}

Cart(r) == \/ \E u \in Users, p \in Products, q \in Quantities :
                  CartRead(r, u, p, q)
           \/ CartPut(r)

Shop(r) == \/ SweepRead(r)
           \/ \E o \in Orders : SweepRelease(r, o)
           \/ ListProducts(r)
           \/ \E u \in Users, o \in Orders, b \in Baskets, a \in Amounts :
                  CheckoutRead(r, u, o, b, a)
           \/ CheckoutCreate(r)

Confirm(r) == \/ \E o \in Orders, p \in Payments : ConfirmStart(r, o, p)
              \/ ConfirmRelease(r)
              \/ \E s \in {"DONE", "WAITING"} : ConfirmAtToss(r, s)
              \/ ConfirmReplayed(r)
              \/ ConfirmRejected(r)
              \/ ConfirmCommit(r)

Webhook(r) == \/ \E p \in Payments : WebhookStart(r, p)
              \/ WebhookGetPayment(r)
              \/ WebhookWrite(r)

Refund(r) == \/ \E o \in Orders : RefundStart(r, o)
             \/ RefundGetPayment(r)
             \/ RefundAtToss(r)
             \/ RefundReplayed(r)
             \/ RefundRejected(r)
             \/ RefundWrite(r)

Environment ==
    \/ \E u \in Users, p \in Products : CartRemove(u, p)
    \/ \E o \in Orders : TimePasses(o)
    \/ \E p \in Payments, o \in Orders, a \in Amounts : OpenPayment(p, o, a)
    \/ \E p \in Payments : PaymentAborted(p) \/ DepositArrives(p)
    \/ \E p \in Payments : \E a \in 1..toss[p].amount : CancelledOutside(p, a)
    \/ \E r \in Requests : RequestDies(r)

Next ==
    \/ \E r \in Requests :
          Cart(r) \/ Shop(r) \/ Confirm(r) \/ Webhook(r) \/ Refund(r)
    \/ Environment

Spec == Init /\ [][Next]_vars

\* A request that has started goes on to its next await.
Continue(r) ==
    \/ CartPut(r)
    \/ \E o \in Orders : SweepRelease(r, o)
    \/ ListProducts(r)
    \/ CheckoutCreate(r)
    \/ ConfirmRelease(r)
    \/ \E s \in {"DONE", "WAITING"} : ConfirmAtToss(r, s)
    \/ ConfirmReplayed(r) \/ ConfirmRejected(r) \/ ConfirmCommit(r)
    \/ WebhookGetPayment(r) \/ WebhookWrite(r)
    \/ RefundGetPayment(r) \/ RefundAtToss(r) \/ RefundReplayed(r)
    \/ RefundRejected(r) \/ RefundWrite(r)

\* Toss goes on delivering a webhook until it is acknowledged, and somebody
\* goes on opening the list of products or a checkout.  Strong fairness only because the pool of
\* requests is finite here and the other handlers may hold it.
Fairness ==
    /\ \A r \in Requests : WF_vars(Continue(r))
    /\ \A p \in Payments : SF_vars(\E r \in Requests : WebhookStart(r, p))
    /\ SF_vars(\E r \in Requests : SweepRead(r))

FairSpec == Spec /\ Fairness

-----------------------------------------------------------------------------
(* Properties *)

OrderRow ==
    [status : OrderStatus, owner : Users \cup {None},
     items : [Products -> Nat], amount : Nat,
     payId : Payments \cup {None}, refunded : Nat, reserved : BOOLEAN,
     released : BOOLEAN, expiry : Expiry]
Request ==
    [pc : Pc, user : Users \cup {None}, order : Orders \cup {None},
     pay : Payments \cup {None}, items : [Products -> Nat], amount : Nat,
     status : OrderStatus, held : BOOLEAN, cancelled : Nat,
     todo : SUBSET Orders]

\* Every row and every request has its type; in particular the CHECK
\* constraint on stockQuantity is never hit.
TypeOK ==
    /\ stock \in [Products -> Nat]
    /\ order \in [Orders -> OrderRow]
    /\ cart \in [Users -> [Products -> Nat]]
    /\ toss \in [Payments -> TossRow]
    /\ notice \subseteq Payments
    /\ req \in [Requests -> Request]
    /\ faults \in 0..MaxFaults

\* The orders whose stock is set aside and was not given back.
Holding == {o \in Orders : order[o].reserved /\ ~order[o].released}

\* Units of a product set aside for them.
HeldUnits(p) == UNION {{o} \X (1 .. order[o].items[p]) : o \in Holding}
Held(p) == Cardinality(HeldUnits(p))

\* No unit of stock is ever lost: what is on the shelf and what orders hold is
\* at least what there was.  A FAILED order holds nothing.
StockNeverLost ==
    /\ \A p \in Stocked : stock[p] + Held(p) >= InitialStock[p]
    /\ \A o \in Orders : order[o].status = "FAILED" /\ order[o].reserved
                           => order[o].released

\* A PAID order was paid: Toss collected its amount, for it, under the payment
\* key on the row.
PaidIsCollected ==
    \A o \in Orders : order[o].status = "PAID" =>
        LET p == order[o].payId
        IN  /\ p \in Payments
            /\ Approved(p)
            /\ toss[p].order = o
            /\ toss[p].amount = order[o].amount

\* docs/BACKEND_INTEGRATION.md: an order is cancelled only if Toss has given
\* back as much as the order cost.
CanceledIsReturned ==
    \A o \in Orders : order[o].status = "CANCELED" =>
        /\ order[o].refunded = order[o].amount
        /\ \E p \in Payments : toss[p].order = o /\ toss[p].status = "CANCELED"

\* A PAID order for which only one payment was opened stays PAID until it is
\* refunded: neither the sweep nor a webhook that read an older row fails it.
PaidStaysPaid ==
    [][\A o \in Orders :
          /\ order[o].status = "PAID"
          /\ \A p \in Payments : toss[p].order = o => p = order[o].payId
          => /\ order'[o].status \in {"PAID", "CANCELED"}
             /\ order'[o].payId = order[o].payId]_vars

\* Money that Toss collected for an order, however late, is answered: the
\* order becomes PAID or CANCELED even after its reservation was given back.
MoneyIsAnswered ==
    \A o \in Orders, p \in Payments :
        (Approved(p) /\ toss[p].order = o /\ toss[p].amount = order[o].amount)
            ~> order[o].status \in {"PAID", "CANCELED"}

\* As long as someone lists the products or checks out, an overdue order does
\* not stay PENDING.
ReservationComesBack ==
    \A o \in Orders :
        (order[o].reserved /\ order[o].expiry = "overdue")
            ~> order[o].status # "PENDING"

-----------------------------------------------------------------------------
(* Statements of the documentation the code does not meet *)

\* docs/BACKEND_INTEGRATION.md: the webhook restores the state of an order
\* idempotently.  Stock that came back once does not come back again.
StockReturnedOnce ==
    \A p \in Stocked : stock[p] + Held(p) <= InitialStock[p]
=============================================================================
