---------------------- MODULE SubscriptionOrdersProofs ----------------------
(***************************************************************************)
(* The safety properties of SubscriptionOrders for every set of users,     *)
(* orders, payments, requests and prices, whatever the number of faults.   *)
(* IInv is the inductive invariant: what a row says about other rows, what *)
(* Toss guarantees about a payment, and what a request that was suspended  *)
(* at an await may still rely on when it goes on.  With LedgerInv, which   *)
(* adds what a webhook saw, it implies that SubscriptionLedger is          *)
(* implemented.                                                            *)
(***************************************************************************)
EXTENDS SubscriptionOrders, TLAPS

\* What Toss guarantees, and how a payment relates to its order.
TossInv(p) ==
    /\ toss[p].status # "NONE" => /\ toss[p].order \in Orders
                                  /\ Exists(toss[p].order)
    /\ toss[p].status = "NONE" => toss[p].answered = "none"
    /\ ~Approved(p) => toss[p].cancelled = 0
    /\ Approved(p) => /\ toss[p].cancelled <= toss[p].amount
                      /\ toss[p].amount > 0
                      /\ toss[p].status = "CANCELED"
                           <=> toss[p].cancelled = toss[p].amount
    /\ toss[p].status # "NONE" => toss[p].amount > 0
    /\ toss[p].refundKey => toss[p].status = "CANCELED"
    /\ toss[p].answered = "paid" =>
         /\ Approved(p)
         /\ toss[p].amount = order[toss[p].order].amount

\* What the row of an order says about its payment and its subscription.
OrderInv(o) ==
    /\ Exists(o) => order[o].amount > 0
    /\ order[o].payId # None => /\ toss[order[o].payId].status # "NONE"
                                /\ toss[order[o].payId].order = o
    /\ order[o].status \in {"NONE", "PENDING"} => order[o].payId = None
    /\ order[o].status = "PENDING" => order[o].refunded = 0
    /\ order[o].status \in {"NONE", "PENDING", "FAILED"} => ~Issued(o)
    /\ order[o].status = "PAID" => Issued(o)
    /\ Issued(o) =>
         /\ order[o].payId # None
         /\ subscription[o].owner = order[o].owner
         /\ subscription[o].amount = order[o].amount
         /\ subscription[o].payId = order[o].payId
         /\ subscription[o].refunded = order[o].refunded
         /\ order[o].status = "PAID" <=> subscription[o].status = "PAID"
         /\ order[o].status = "CANCELED"
              <=> order[o].refunded >= order[o].amount
         /\ Approved(order[o].payId)
         /\ toss[order[o].payId].amount = order[o].amount

\* The request holds a payment of its order.
Holds(r) == /\ req[r].order \in Orders
            /\ req[r].pay \in Payments
            /\ Exists(req[r].order)
            /\ toss[req[r].pay].status # "NONE"
            /\ toss[req[r].pay].order = req[r].order

\* ... of the right amount, and what it read of it is not ahead of Toss.
Read(r) == /\ Holds(r)
           /\ toss[req[r].pay].amount = order[req[r].order].amount
           /\ req[r].cancelled <= toss[req[r].pay].cancelled

\* What a suspended request may rely on.
ReqInv(r) ==
    /\ req[r].pc = "create" => /\ req[r].order \in Orders
                               /\ req[r].user \in Users
                               /\ order[req[r].order].status = "NONE"
    /\ req[r].pc = "confirm" => /\ req[r].order \in Orders
                                /\ req[r].pay \in Payments
                                /\ Exists(req[r].order)
                                /\ req[r].cancelled = 0
    /\ req[r].pc = "hook_get" => Holds(r)
    /\ req[r].pc \in {"finalize", "hook_paid", "hook_claim"} =>
         Read(r) /\ Approved(req[r].pay)
    /\ req[r].pc = "hook_fail" => Read(r)
    /\ req[r].pc \in {"hook_sub", "hook_void"} =>
         Read(r) /\ Approved(req[r].pay)
    /\ req[r].pc \in {"refund_get", "refund_cancel", "apply"} =>
         Read(r) /\ Approved(req[r].pay) /\ Issued(req[r].order)

\* Two checkouts never draw the same order id.
FreshIds == \A r, q \in Requests :
    req[r].pc = "create" /\ req[q].order = req[r].order => q = r

\* A row of the refunds: its order has a subscription, its amount is part of the sum, and
\* where the order was paid once Toss has cancelled at least that sum.
RowInv(x) ==
    /\ Issued(x.order)
    /\ x.amount \in 1..x.cumulative
    /\ PaidOnce(x.order) =>
         x.cumulative <= toss[subscription[x.order].payId].cancelled

\* What a subscription says was refunded was cancelled at Toss.
BackedInv(o) == Issued(o) /\ PaidOnce(o) =>
    subscription[o].refunded <= toss[subscription[o].payId].cancelled

\* The inductive invariant.
IInv ==
    /\ TypeOK
    /\ \A p \in Payments : TossInv(p)
    /\ \A o \in Orders : OrderInv(o)
    /\ \A r \in Requests : ReqInv(r)
    /\ FreshIds
    /\ \A o \in Orders : BackedInv(o)
    /\ \A x \in refunds : RowInv(x)
-----------------------------------------------------------------------------
(* Frames *)

\* What no step ever takes back: an order exists with its amount, a
\* subscription stays on its payment, and a payment keeps its order, its
\* amount, its approval and what was cancelled of it.
Grows ==
    /\ \A o \in Orders : Exists(o) =>
         order'[o].status # "NONE" /\ order'[o].amount = order[o].amount
    /\ \A o \in Orders : Issued(o) =>
         /\ subscription'[o].status # "NONE"
         /\ subscription'[o].payId = subscription[o].payId
    /\ \A p \in Payments : toss[p].status # "NONE" =>
         /\ toss'[p].status # "NONE"
         /\ toss'[p].order = toss[p].order
         /\ toss'[p].amount = toss[p].amount
         /\ toss'[p].cancelled >= toss[p].cancelled
         /\ Approved(p) => Approved(p)'

\* A request that did not move may still rely on what it relied on.
LEMMA GrowsReq ==
    ASSUME IInv, TypeOK', Grows, NEW q \in Requests, req'[q] = req[q],
           req[q].pc = "create" => order'[req[q].order].status = "NONE"
    PROVE  ReqInv(q)'
<1>1. ReqInv(q) /\ req[q] \in Request /\ TypeOK
  BY DEF IInv, TypeOK
<1>2. Holds(q) => Holds(q)'
  BY <1>1 DEF Holds, Grows, Exists
<1>3. Read(q) => Read(q)'
  BY <1>1, <1>2 DEF Holds, Read, Grows, Exists, TypeOK, TossRow, OrderRow, Request
<1>4. Read(q) /\ Approved(req[q].pay) => Approved(req[q].pay)'
  BY <1>1 DEF Holds, Read, Grows, Approved
<1>5. Read(q) /\ Issued(req[q].order) => Issued(req[q].order)'
  BY <1>1 DEF Holds, Read, Grows, Issued
<1>6. req[q].order \in Orders /\ Exists(req[q].order) => Exists(req[q].order)'
  BY DEF Grows, Exists
<1>. QED
  BY <1>1, <1>2, <1>3, <1>4, <1>5, <1>6 DEF ReqInv, Approved, Issued, Exists

\* An order whose rows did not change keeps its invariant.
LEMMA GrowsOrder ==
    ASSUME IInv, Grows, NEW o \in Orders, order'[o] = order[o],
           subscription'[o] = subscription[o]
    PROVE  OrderInv(o)'
<1>1. OrderInv(o) /\ order[o] \in OrderRow
  BY DEF IInv, TypeOK
<1>2. ASSUME order[o].payId # None
      PROVE  /\ order[o].payId \in Payments
             /\ toss[order[o].payId].status # "NONE"
             /\ toss'[order[o].payId].status # "NONE"
             /\ toss'[order[o].payId].order = o
             /\ toss'[order[o].payId].amount = toss[order[o].payId].amount
             /\ Approved(order[o].payId) => Approved(order[o].payId)'
  BY <1>1, <1>2 DEF OrderInv, OrderRow, Grows
<1>. QED
  BY <1>1, <1>2 DEF OrderInv, Exists, Issued, Approved

\* A payment that did not change keeps its invariant.
LEMMA GrowsToss ==
    ASSUME IInv, Grows, NEW p \in Payments, toss'[p] = toss[p]
    PROVE  TossInv(p)'
<1>1. TossInv(p) /\ toss[p] \in TossRow
  BY DEF IInv, TypeOK
<1>2. toss[p].answered = "paid" => toss[p].status # "NONE"
  BY <1>1 DEF TossInv
<1>. QED
  BY <1>1, <1>2 DEF TossInv, Approved, Exists, Grows

\* A payment that grows does not make an order paid once that was not.
LEMMA GrowsPaidOnce ==
    ASSUME IInv, Grows, NEW o \in Orders, Issued(o), PaidOnce(o)'
    PROVE  PaidOnce(o)
<1>1. \A p \in Payments : Approved(p) => toss[p].status # "NONE"
  BY DEF Approved
<1>. QED
  BY <1>1 DEF Grows, PaidOnce

\* What the books say of returned money stays backed.
LEMMA GrowsBacked ==
    ASSUME IInv, TypeOK', Grows, NEW o \in Orders,
           Issued(o)' => Issued(o),
           subscription'[o].refunded = subscription[o].refunded
    PROVE  BackedInv(o)'
<1>1. SUFFICES ASSUME Issued(o)', PaidOnce(o)'
               PROVE  subscription'[o].refunded
                        <= toss'[subscription'[o].payId].cancelled
  BY DEF BackedInv
<1>2. Issued(o)
  BY <1>1
<1>3. PaidOnce(o)
  BY <1>1, <1>2, GrowsPaidOnce
<1>4. OrderInv(o) /\ BackedInv(o) /\ TypeOK
  BY DEF IInv
<1>5. /\ subscription[o].payId \in Payments
      /\ toss[subscription[o].payId].status # "NONE"
  BY <1>2, <1>4 DEF OrderInv, TypeOK, SubscriptionRow
<1>. QED
  BY <1>2, <1>3, <1>4, <1>5 DEF BackedInv, Grows, TypeOK, SubscriptionRow, TossRow

\* Rows of the refunds stay backed.
LEMMA GrowsRow ==
    ASSUME IInv, TypeOK', Grows, NEW x \in refunds
    PROVE  RowInv(x)'
<1>1. RowInv(x) /\ TypeOK /\ x \in RefundRow /\ x.order \in Orders
  BY DEF IInv, TypeOK, RefundRow
<1>2. Issued(x.order) /\ OrderInv(x.order)
  BY <1>1 DEF RowInv, IInv
<1>3. Issued(x.order)'
  BY <1>1, <1>2 DEF Grows, Issued
<1>4. /\ subscription[x.order].payId \in Payments
      /\ toss[subscription[x.order].payId].status # "NONE"
  BY <1>1, <1>2 DEF OrderInv, TypeOK, SubscriptionRow
<1>5. PaidOnce(x.order)' => PaidOnce(x.order)
  BY <1>1, <1>2, GrowsPaidOnce
<1>. QED
  BY <1>1, <1>2, <1>3, <1>4, <1>5
     DEF RowInv, Grows, TypeOK, TossRow, RefundRow

\* The request that moved draws no order id anybody else has drawn.
LEMMA FreshStep ==
    ASSUME IInv, NEW r \in Requests, NEW v \in Request,
           req' = [req EXCEPT ![r] = v],
           v.order \in Orders => Exists(v.order) \/ v.pc = "create",
           v.pc = "create" => \A q \in Requests : req[q].order # v.order
    PROVE  FreshIds'
<1>1. SUFFICES ASSUME NEW a \in Requests, NEW b \in Requests,
                      req'[a].pc = "create", req'[b].order = req'[a].order
               PROVE  b = a
  BY DEF FreshIds
<1>2. \A q \in Requests : req'[q] = IF q = r THEN v ELSE req[q]
  BY DEF IInv, TypeOK
<1>3. \A q \in Requests : req[q].pc = "create" =>
         req[q].order \in Orders /\ ~Exists(req[q].order)
  BY DEF IInv, ReqInv, Exists
<1>4. CASE a = r
  BY <1>1, <1>2, <1>4
<1>5. CASE a # r /\ b = r
  BY <1>1, <1>2, <1>3, <1>5
<1>6. CASE a # r /\ b # r
  BY <1>1, <1>2, <1>6 DEF IInv, FreshIds
<1>. QED BY <1>4, <1>5, <1>6

\* Only a request, the webhooks due and the fault count change.
LEMMA ReqStep ==
    ASSUME IInv, NEW r \in Requests, NEW v \in Request,
           UNCHANGED <<order, subscription, refunds, toss>>,
           req' = [req EXCEPT ![r] = v],
           notice' \subseteq Payments, faults' \in 0..MaxFaults,
           ReqInv(r)',
           v.order \in Orders => Exists(v.order) \/ v.pc = "create",
           v.pc = "create" => \A q \in Requests : req[q].order # v.order
    PROVE  IInv'
<1>1. TypeOK'
  BY DEF IInv, TypeOK
<1>2. Grows
  <2>1. \A p \in Payments : toss[p].cancelled \in Nat
    BY DEF IInv, TypeOK, TossRow
  <2>2. \A p \in Payments : Approved(p)' <=> Approved(p)
    BY DEF Approved
  <2>. QED BY <2>1, <2>2 DEF Grows, Exists, Issued
<1>3. \A p \in Payments : TossInv(p)'
  BY <1>2, GrowsToss
<1>4. \A o \in Orders : OrderInv(o)'
  BY <1>2, GrowsOrder
<1>5. ASSUME NEW q \in Requests PROVE ReqInv(q)'
  <2>1. q # r => req'[q] = req[q]
    BY DEF IInv, TypeOK
  <2>2. req[q].pc = "create" => order'[req[q].order].status = "NONE"
    BY DEF IInv, ReqInv
  <2>. QED BY <1>1, <1>2, <2>1, <2>2, GrowsReq
<1>6. FreshIds'
  BY FreshStep
<1>7. \A o \in Orders : BackedInv(o)'
  BY <1>1, <1>2, GrowsBacked DEF Issued
<1>8. \A x \in refunds' : RowInv(x)'
  BY <1>1, <1>2, GrowsRow
<1>. QED
  BY <1>1, <1>3, <1>4, <1>5, <1>6, <1>7, <1>8 DEF IInv

\* A request ends after writing the rows of one order.
LEMMA DoneStep ==
    ASSUME IInv, TypeOK', Grows, NEW r \in Requests, NEW v \in Request,
           req' = [req EXCEPT ![r] = v], ReqInv(r)', v.pc # "create",
           v.order \in Orders => Exists(v.order),
           \A q \in Requests \ {r} :
               req[q].pc = "create" => order'[req[q].order].status = "NONE",
           \A p \in Payments : TossInv(p)',
           \A o \in Orders : OrderInv(o)',
           \A o \in Orders : BackedInv(o)',
           \A x \in refunds' : RowInv(x)'
    PROVE  IInv'
<1>1. ASSUME NEW q \in Requests PROVE ReqInv(q)'
  <2>1. q # r => req'[q] = req[q]
    BY DEF IInv, TypeOK
  <2>. QED BY <2>1, GrowsReq
<1>2. FreshIds'
  BY FreshStep
<1>. QED BY <1>1, <1>2 DEF IInv
-----------------------------------------------------------------------------
(* Steps that move one request and write no row *)

\* A request that rests has no order.
LEMMA IdleIsRequest == Idle \in Request /\ Idle.order \notin Orders
BY NoneAssumption, TossNoneAssumption DEF Idle, Request, Pc, PaymentStatus

\* The request ends with nothing written.
LEMMA DoneReq ==
    ASSUME IInv, NEW r \in Requests, Done(r),
           UNCHANGED <<order, subscription, refunds, toss>>,
           notice' \subseteq Payments, faults' \in 0..MaxFaults
    PROVE  IInv'
<1>1. req' = [req EXCEPT ![r] = Idle] /\ req'[r] = Idle
  BY DEF Done, IInv, TypeOK
<1>2. ReqInv(r)'
  BY <1>1 DEF ReqInv, Idle
<1>. QED
  BY <1>1, <1>2, IdleIsRequest, ReqStep DEF Idle

\* The request goes to another program counter with what it remembers.
LEMMA GotoReq ==
    ASSUME IInv, NEW r \in Requests, NEW pc \in Pc, Goto(r, pc),
           UNCHANGED <<order, subscription, refunds, toss>>,
           notice' \subseteq Payments, faults' \in 0..MaxFaults,
           ReqInv(r)', pc # "create", Exists(req[r].order)
    PROVE  IInv'
<1>. DEFINE v == [req[r] EXCEPT !.pc = pc]
<1>1. req[r] \in Request
  BY DEF IInv, TypeOK
<1>2. v \in Request /\ v.order = req[r].order /\ v.pc = pc
  BY <1>1 DEF Request
<1>3. req' = [req EXCEPT ![r] = v]
  BY DEF Goto, IInv, TypeOK
<1>. QED
  BY <1>2, <1>3, ReqStep

LEMMA CheckoutReadInv ==
    ASSUME IInv, NEW r \in Requests, NEW u \in Users, NEW o \in Orders,
           CheckoutRead(r, u, o)
    PROVE  IInv'
<1>. DEFINE v == [Idle EXCEPT !.pc = "create", !.user = u, !.order = o]
<1>1. v \in Request /\ v.pc = "create" /\ v.order = o /\ v.user = u
  BY DEF Idle, Request, Pc, PaymentStatus
<1>2. req' = [req EXCEPT ![r] = v] /\ req'[r] = v
  BY DEF CheckoutRead, IInv, TypeOK
<1>3. ReqInv(r)'
  BY <1>1, <1>2 DEF ReqInv, CheckoutRead
<1>. QED
  BY ZenonT(60), <1>1, <1>2, <1>3, ReqStep DEF CheckoutRead, IInv, TypeOK

LEMMA VerifyStartInv ==
    ASSUME IInv, NEW r \in Requests, NEW o \in Orders, NEW p \in Payments,
           VerifyStart(r, o, p)
    PROVE  IInv'
<1>. DEFINE v == [Idle EXCEPT !.pc = "confirm", !.order = o, !.pay = p]
<1>1. /\ v \in Request /\ v.pc = "confirm" /\ v.order = o /\ v.pay = p
      /\ v.cancelled = 0
  BY DEF Idle, Request, Pc, PaymentStatus
<1>2. req' = [req EXCEPT ![r] = v] /\ req'[r] = v
  BY DEF VerifyStart, IInv, TypeOK
<1>3. Exists(o) /\ Exists(o)'
  BY DEF VerifyStart, Exists
<1>4. ReqInv(r)'
  BY <1>1, <1>2, <1>3 DEF ReqInv
<1>. QED
  BY ZenonT(60), <1>1, <1>2, <1>3, <1>4, ReqStep DEF VerifyStart, IInv, TypeOK

LEMMA ConfirmReplayedInv ==
    ASSUME IInv, NEW r \in Requests, ConfirmReplayed(r)
    PROVE  IInv'
<1>. DEFINE o == req[r].order
            p == req[r].pay
<1>1. TypeOK /\ ReqInv(r) /\ req[r].pc = "confirm"
  BY DEF IInv, ConfirmReplayed
<1>2. CASE toss[p].answered = "paid" /\ toss[p].order = o
  <2>1. Goto(r, "finalize")
    BY <1>2 DEF ConfirmReplayed
  <2>2. p \in Payments /\ o \in Orders /\ Exists(o)
    BY <1>1 DEF ReqInv
  <2>3. TossInv(p) /\ toss[p] \in TossRow
    BY <2>2 DEF IInv, TypeOK
  <2>4. Approved(p) /\ toss[p].amount = order[o].amount /\ toss[p].status # "NONE"
    BY <1>2, <2>3 DEF TossInv, Approved
  <2>5. req'[r] = [req[r] EXCEPT !.pc = "finalize"] /\ req[r] \in Request
    BY <1>1, <2>1 DEF Goto, TypeOK
  <2>6. req'[r].pc = "finalize" /\ req'[r].order = o /\ req'[r].pay = p
        /\ req'[r].cancelled = req[r].cancelled
    BY <2>5 DEF Request
  <2>7. req[r].cancelled <= toss[p].cancelled
    BY <1>1, <2>3 DEF ReqInv, TossRow
  <2>8. ReqInv(r)'
    BY <1>2, <2>2, <2>4, <2>6, <2>7
       DEF ConfirmReplayed, ReqInv, Read, Holds, Approved, Exists
  <2>. QED
    BY <1>1, <2>1, <2>2, <2>8, GotoReq DEF ConfirmReplayed, TypeOK, Pc
<1>3. CASE ~(toss[p].answered = "paid" /\ toss[p].order = o)
  BY <1>1, <1>3, DoneReq DEF ConfirmReplayed, TypeOK
<1>. QED BY <1>2, <1>3

LEMMA ConfirmRejectedInv ==
    ASSUME IInv, NEW r \in Requests, ConfirmRejected(r)
    PROVE  IInv'
BY DoneReq DEF ConfirmRejected, TossRefuses, IInv, TypeOK

\* A webhook or a reconciliation remembers the order of its payment.
LEMMA SyncStartInv ==
    ASSUME IInv, NEW r \in Requests, NEW p \in Payments, SyncStart(r, p),
           UNCHANGED <<order, subscription, refunds, toss, faults>>,
           notice' \subseteq Payments
    PROVE  IInv'
<1>. DEFINE o == toss[p].order
            v == [Idle EXCEPT !.pc = "hook_get", !.order = o, !.pay = p,
                              !.seen = order[o].refunded,
                              !.bound = order[o].payId]
<1>1. toss[p].status # "NONE" /\ TossInv(p) /\ TypeOK
  BY DEF SyncStart, IInv
<1>2. o \in Orders /\ Exists(o)
  BY <1>1 DEF TossInv
<1>3. order[o].refunded \in Nat /\ order[o].payId \in Payments \cup {None}
  BY <1>1, <1>2 DEF TypeOK, OrderRow
<1>4. /\ v \in Request /\ v.pc = "hook_get" /\ v.order = o /\ v.pay = p
  BY Zenon, <1>2, <1>3 DEF Idle, Request, Pc, PaymentStatus
<1>5. req' = [req EXCEPT ![r] = v] /\ req'[r] = v
  BY <1>1 DEF SyncStart, TypeOK
<1>6. ReqInv(r)'
  BY ZenonT(60), <1>1, <1>2, <1>4, <1>5 DEF ReqInv, Holds, Exists
<1>. QED
  BY <1>1, <1>2, <1>4, <1>5, <1>6, ReqStep DEF TypeOK

LEMMA WebhookStartInv ==
    ASSUME IInv, NEW r \in Requests, NEW p \in Payments, WebhookStart(r, p)
    PROVE  IInv'
BY SyncStartInv DEF WebhookStart, IInv, TypeOK

LEMMA ReconcileStartInv ==
    ASSUME IInv, NEW r \in Requests, NEW p \in Payments, ReconcileStart(r, p)
    PROVE  IInv'
BY SyncStartInv DEF ReconcileStart, IInv, TypeOK

LEMMA HookGetPaymentInv ==
    ASSUME IInv, NEW r \in Requests, HookGetPayment(r)
    PROVE  IInv'
<1>. DEFINE o == req[r].order
            p == req[r].pay
            s == MapStatus(toss[p].status)
<1>1. /\ TypeOK /\ req[r].pc = "hook_get" /\ Holds(r) /\ req[r] \in Request
      /\ TossInv(p) /\ toss[p] \in TossRow
  BY Zenon DEF IInv, HookGetPayment, ReqInv, TypeOK, Holds
<1>2. CASE Done(r)
  BY Zenon, <1>1, <1>2, DoneReq DEF HookGetPayment, TypeOK
<1>3. CASE ~Done(r)
  <2>1. PICK branch \in {"hook_sub", "hook_paid", "hook_fail"} :
          /\ req' = [req EXCEPT ![r].pc = branch, ![r].status = s,
                                ![r].cancelled = toss[p].cancelled]
          /\ toss[p].amount = order[o].amount
          /\ branch = "hook_sub" => toss[p].cancelled > 0 \/ s = "cancelled"
          /\ branch = "hook_paid" => s = "paid"
    <3> DEFINE b == CASE toss[p].cancelled > 0 \/ s = "cancelled" -> "hook_sub"
                      [] toss[p].cancelled = 0 /\ s = "paid" -> "hook_paid"
                      [] toss[p].cancelled = 0 /\ s = "failed" -> "hook_fail"
                      [] OTHER -> "idle"
    <3>1. /\ b \in {"hook_sub", "hook_paid", "hook_fail", "idle"}
          /\ b = "hook_sub" => toss[p].cancelled > 0 \/ s = "cancelled"
          /\ b = "hook_paid" => s = "paid"
      <4> HIDE DEF s
      <4> QED
        OBVIOUS
    <3>2. IF toss[p].amount # order[o].amount \/ b = "idle"
            THEN Done(r)
            ELSE req' = [req EXCEPT ![r].pc = b, ![r].status = s,
                                    ![r].cancelled = toss[p].cancelled]
      BY Zenon DEF HookGetPayment, AmountMatches
    <3> HIDE DEF b, s
    <3>3. /\ toss[p].amount = order[o].amount /\ b # "idle"
          /\ req' = [req EXCEPT ![r].pc = b, ![r].status = s,
                                ![r].cancelled = toss[p].cancelled]
      BY <1>3, <3>2, Zenon
    <3> QED
      BY <3>1, <3>3
  <2>2. s \in PaymentStatus
    BY DEF MapStatus, PaymentStatus
  <2>. DEFINE v == [req[r] EXCEPT !.pc = branch, !.status = s,
                                  !.cancelled = toss[p].cancelled]
  <2>3. /\ v \in Request /\ v.pc = branch /\ v.order = o /\ v.pay = p
        /\ v.cancelled = toss[p].cancelled
    BY ZenonT(60), <1>1, <2>2 DEF Request, Pc, TossRow
  <2>4. req' = [req EXCEPT ![r] = v] /\ req'[r] = v
    BY <1>1, <2>1 DEF TypeOK
  <2>5. branch \in {"hook_sub", "hook_paid"} => Approved(p)
    <3>1. toss[p].cancelled > 0 => Approved(p)
      BY <1>1 DEF TossInv
    <3>2. s \in {"paid", "cancelled"} => Approved(p)
      BY DEF MapStatus, Approved
    <3> QED
      BY <2>1, <3>1, <3>2
  <2>6. /\ req'[r].pc = branch /\ req'[r].order = o /\ req'[r].pay = p
        /\ req'[r].cancelled = toss[p].cancelled
        /\ toss[p].cancelled \in Nat
    BY <1>1, <2>3, <2>4 DEF TossRow
  <2>7. Read(r)'
    <3>1. /\ o \in Orders /\ p \in Payments /\ order[o].status # "NONE"
          /\ toss[p].status # "NONE" /\ toss[p].order = o
      BY <1>1 DEF Holds, Exists
    <3>2. order' = order /\ toss' = toss
      BY Zenon DEF HookGetPayment
    <3> HIDE DEF o, p, s
    <3>3. Holds(r)'
      BY <2>6, <3>1, <3>2 DEF Holds, Exists
    <3>4. (toss[req[r].pay].amount = order[req[r].order].amount)'
      BY <2>1, <2>6, <3>2
    <3>5. toss[p].cancelled <= toss[p].cancelled
      BY <2>6
    <3>6. (req[r].cancelled <= toss[req[r].pay].cancelled)'
      BY <2>6, <3>2, <3>5
    <3> QED
      BY <3>3, <3>4, <3>6 DEF Read
  <2>8. ReqInv(r)'
    <3>1. toss' = toss
      BY Zenon DEF HookGetPayment
    <3> HIDE DEF o, p, s
    <3>2. branch \in {"hook_sub", "hook_paid"} => Approved(req[r].pay)'
      BY <2>5, <2>6, <3>1 DEF Approved
    <3> QED
      BY <2>1, <2>6, <2>7, <3>2 DEF ReqInv
  <2>. QED
    BY Zenon, <1>1, <2>3, <2>4, <2>8, ReqStep DEF HookGetPayment, TypeOK, Holds
<1>. QED BY <1>2, <1>3

LEMMA HookReadSubscriptionInv ==
    ASSUME IInv, NEW r \in Requests, HookReadSubscription(r)
    PROVE  IInv'
<1>. DEFINE o == req[r].order
<1>1. /\ TypeOK /\ req[r].pc = "hook_sub" /\ req[r] \in Request
      /\ Read(r) /\ Holds(r) /\ Approved(req[r].pay)
  BY DEF IInv, HookReadSubscription, ReqInv, TypeOK, Read
<1>2. CASE Issued(o)
  <2>. DEFINE v == [req[r] EXCEPT !.pc = "apply",
                      !.seen = Larger(@, subscription[o].refunded)]
  <2>1. subscription[o].refunded \in Nat
    BY <1>1 DEF TypeOK, SubscriptionRow, Holds
  <2>2. /\ v \in Request /\ v.pc = "apply" /\ v.order = o
        /\ v.pay = req[r].pay /\ v.cancelled = req[r].cancelled
    BY ZenonT(60), <1>1, <2>1 DEF Request, Pc, Larger
  <2>3. req' = [req EXCEPT ![r] = v] /\ req'[r] = v
    BY <1>1, <1>2 DEF TypeOK, HookReadSubscription
  <2>4. ReqInv(r)'
    BY <1>1, <1>2, <2>2, <2>3
       DEF HookReadSubscription, ReqInv, Read, Holds, Approved, Exists, Issued
  <2>. QED
    BY <1>1, <2>2, <2>3, <2>4, ReqStep DEF HookReadSubscription, TypeOK, Holds
<1>3. CASE ~Issued(o)
  <2>1. PICK pc \in {"hook_claim", "hook_void"} : Goto(r, pc)
    BY <1>3 DEF HookReadSubscription
  <2>2. req'[r] = [req[r] EXCEPT !.pc = pc]
    BY <1>1, <2>1 DEF Goto, TypeOK
  <2>3. req'[r].pc = pc /\ req'[r].order = o /\ req'[r].pay = req[r].pay
        /\ req'[r].cancelled = req[r].cancelled
    BY <1>1, <2>2 DEF Request
  <2>4. ReqInv(r)'
    BY <1>1, <2>1, <2>3
       DEF HookReadSubscription, ReqInv, Read, Holds, Approved, Exists
  <2>. QED
    BY <1>1, <2>1, <2>4, GotoReq DEF HookReadSubscription, TypeOK, Pc, Holds
<1>. QED BY <1>2, <1>3

LEMMA RefundStartInv ==
    ASSUME IInv, NEW r \in Requests, NEW o \in Orders, RefundStart(r, o)
    PROVE  IInv'
<1>. DEFINE v == [Idle EXCEPT !.pc = "refund_get", !.order = o,
                              !.pay = subscription[o].payId,
                              !.seen = Larger(order[o].refunded,
                                              subscription[o].refunded),
                              !.bound = order[o].payId]
<1>1. Issued(o) /\ OrderInv(o) /\ TypeOK
  BY DEF RefundStart, IInv, Issued
<1>2. /\ subscription[o].payId \in Payments
      /\ subscription[o].payId = order[o].payId
      /\ toss[subscription[o].payId].status # "NONE"
      /\ toss[subscription[o].payId].order = o
      /\ toss[subscription[o].payId].amount = order[o].amount
      /\ Approved(subscription[o].payId)
      /\ Exists(o)
  BY <1>1 DEF OrderInv, TypeOK, OrderRow, Exists
<1>3. order[o].refunded \in Nat /\ subscription[o].refunded \in Nat
      /\ toss[subscription[o].payId].cancelled \in Nat
  BY <1>1, <1>2 DEF TypeOK, OrderRow, SubscriptionRow, TossRow
<1>4. /\ v \in Request /\ v.pc = "refund_get" /\ v.order = o
      /\ v.pay = subscription[o].payId /\ v.cancelled = 0
  BY <1>2, <1>3 DEF Idle, Request, Pc, PaymentStatus, Larger
<1>5. req' = [req EXCEPT ![r] = v] /\ req'[r] = v
  BY <1>1 DEF RefundStart, TypeOK
<1>6. ReqInv(r)'
  BY <1>1, <1>2, <1>3, <1>4, <1>5
     DEF RefundStart, ReqInv, Read, Holds, Approved, Exists, Issued
<1>. QED
  BY ZenonT(60), <1>1, <1>2, <1>4, <1>5, <1>6, ReqStep DEF RefundStart, TypeOK

LEMMA RefundGetPaymentInv ==
    ASSUME IInv, NEW r \in Requests, RefundGetPayment(r)
    PROVE  IInv'
<1>. DEFINE p == req[r].pay
<1>1. /\ TypeOK /\ req[r].pc = "refund_get" /\ req[r] \in Request
      /\ Read(r) /\ Holds(r) /\ Approved(p) /\ Issued(req[r].order)
      /\ toss[p] \in TossRow
  BY DEF IInv, RefundGetPayment, ReqInv, TypeOK, Read, Holds
<1>2. CASE Done(r)
  BY <1>1, <1>2, DoneReq DEF RefundGetPayment, TypeOK
<1>3. CASE ~Done(r)
  <2>2. PICK pc \in {"refund_cancel", "apply"} :
          req' = [req EXCEPT ![r].pc = pc,
                             ![r].status = MapStatus(toss[p].status),
                             ![r].cancelled = toss[p].cancelled]
    BY <1>3 DEF RefundGetPayment
  <2>. DEFINE v == [req[r] EXCEPT !.pc = pc,
                                  !.status = MapStatus(toss[p].status),
                                  !.cancelled = toss[p].cancelled]
  <2>3. MapStatus(toss[p].status) \in PaymentStatus
    BY DEF MapStatus, PaymentStatus
  <2>4. /\ v \in Request /\ v.pc = pc /\ v.order = req[r].order
        /\ v.pay = p /\ v.cancelled = toss[p].cancelled
    BY ZenonT(60), <1>1, <2>3 DEF Request, Pc, TossRow
  <2>5. req' = [req EXCEPT ![r] = v] /\ req'[r] = v
    BY <1>1, <2>2 DEF TypeOK
  <2>6. /\ req'[r].pc = pc /\ req'[r].order = req[r].order /\ req'[r].pay = p
        /\ req'[r].cancelled = toss[p].cancelled
        /\ toss[p].cancelled \in Nat
    BY <1>1, <2>4, <2>5 DEF TossRow
  <2>7. Read(r)'
    BY <1>1, <2>6 DEF RefundGetPayment, Read, Holds, Exists
  <2>8. ReqInv(r)'
    BY <1>1, <2>6, <2>7 DEF RefundGetPayment, ReqInv, Approved, Issued
  <2>. QED
    BY <1>1, <2>4, <2>5, <2>8, ReqStep DEF RefundGetPayment, TypeOK, Holds
<1>. QED BY <1>2, <1>3

LEMMA CancelReplayedInv ==
    ASSUME IInv, NEW r \in Requests, CancelReplayed(r)
    PROVE  IInv'
<1>. DEFINE p == req[r].pay
            v == [req[r] EXCEPT !.pc = "apply", !.status = "cancelled",
                                !.cancelled = toss[p].amount]
<1>1. /\ TypeOK /\ req[r].pc = "refund_cancel" /\ req[r] \in Request
      /\ Read(r) /\ Holds(r) /\ Approved(p) /\ Issued(req[r].order)
      /\ toss[p] \in TossRow /\ TossInv(p) /\ toss[p].refundKey
  BY DEF IInv, CancelReplayed, ReqInv, TypeOK, Read, Holds
<1>2. toss[p].cancelled = toss[p].amount
  BY <1>1 DEF TossInv
<1>3. /\ v \in Request /\ v.pc = "apply" /\ v.order = req[r].order
      /\ v.pay = p /\ v.cancelled = toss[p].amount
  BY <1>1 DEF Request, Pc, TossRow, PaymentStatus
<1>4. req' = [req EXCEPT ![r] = v] /\ req'[r] = v
  BY <1>1 DEF CancelReplayed, TypeOK
<1>5. /\ req'[r].pc = "apply" /\ req'[r].order = req[r].order
      /\ req'[r].pay = p /\ req'[r].cancelled = toss[p].cancelled
      /\ toss[p].cancelled \in Nat
  BY <1>1, <1>2, <1>3, <1>4 DEF TossRow
<1>6. Read(r)'
  BY <1>1, <1>5 DEF CancelReplayed, Read, Holds, Exists
<1>7. ReqInv(r)'
  BY <1>1, <1>5, <1>6 DEF CancelReplayed, ReqInv, Approved, Issued
<1>. QED
  BY <1>1, <1>3, <1>4, <1>7, ReqStep DEF CancelReplayed, TypeOK, Holds

LEMMA CancelRejectedInv ==
    ASSUME IInv, NEW r \in Requests, CancelRejected(r)
    PROVE  IInv'
BY DoneReq DEF CancelRejected, TossRefusesRefund, IInv, TypeOK

LEMMA RequestDiesInv ==
    ASSUME IInv, NEW r \in Requests, RequestDies(r)
    PROVE  IInv'
<1>1. TypeOK /\ ReqInv(r)
  BY DEF IInv
<1>2. faults' \in 0..MaxFaults
  BY <1>1, MaxFaultsAssumption DEF RequestDies, TypeOK
<1>3. Syncing(r) => req[r].pay \in Payments
  BY <1>1 DEF ReqInv, Syncing, Holds, Read
<1>4. notice' \subseteq Payments
  BY <1>1, <1>3 DEF RequestDies, TypeOK
<1>. QED
  BY <1>2, <1>4, DoneReq DEF RequestDies

-----------------------------------------------------------------------------
(* Steps of Toss: one payment changes and no row does *)

\* The payment moves on as Toss lets it.
Advances(p, t) ==
    /\ t \in TossRow
    /\ toss[p].status # "NONE" =>
         /\ t.status # "NONE" /\ t.order = toss[p].order
         /\ t.amount = toss[p].amount /\ t.cancelled >= toss[p].cancelled
         /\ Approved(p) => t.status \in {"DONE", "PARTIAL_CANCELED", "CANCELED"}

LEMMA TossStep ==
    ASSUME IInv, NEW p \in Payments, NEW t, Advances(p, t),
           toss' = [toss EXCEPT ![p] = t], TossInv(p)',
           UNCHANGED <<order, subscription, refunds>>
    PROVE  /\ Grows
           /\ \A q \in Payments : TossInv(q)'
           /\ \A o \in Orders : OrderInv(o)'
           /\ TypeOK' => /\ \A o \in Orders : BackedInv(o)'
                         /\ \A x \in refunds' : RowInv(x)'
<1>1. TypeOK /\ \A q \in Payments : toss'[q] = IF q = p THEN t ELSE toss[q]
  BY DEF IInv, TypeOK
<1>2. Grows
  <2>1. ASSUME NEW q \in Payments, toss[q].status # "NONE"
        PROVE  /\ toss'[q].status # "NONE"
               /\ toss'[q].order = toss[q].order
               /\ toss'[q].amount = toss[q].amount
               /\ toss'[q].cancelled >= toss[q].cancelled
               /\ Approved(q) => Approved(q)'
    <3>1. CASE q = p
      BY <1>1, <2>1, <3>1 DEF Advances, Approved
    <3>2. CASE q # p
      BY <1>1, <2>1, <3>2 DEF TypeOK, TossRow, Approved
    <3>. QED BY <3>1, <3>2
  <2>. QED BY <2>1 DEF Grows, Exists, Issued
<1>3. \A q \in Payments : TossInv(q)'
  BY <1>1, <1>2, GrowsToss
<1>4. \A o \in Orders : OrderInv(o)'
  BY <1>2, GrowsOrder
<1>5. TypeOK' => /\ \A o \in Orders : BackedInv(o)'
                 /\ \A x \in refunds' : RowInv(x)'
  BY <1>2, GrowsBacked, GrowsRow DEF Issued
<1>. QED BY <1>2, <1>3, <1>4, <1>5

\* No request moves.
LEMMA EnvStep ==
    ASSUME IInv, TypeOK', Grows, UNCHANGED req,
           \A q \in Requests :
               req[q].pc = "create" => order'[req[q].order].status = "NONE",
           \A p \in Payments : TossInv(p)',
           \A o \in Orders : OrderInv(o)',
           \A o \in Orders : BackedInv(o)',
           \A x \in refunds' : RowInv(x)'
    PROVE  IInv'
<1>1. ASSUME NEW q \in Requests PROVE ReqInv(q)'
  BY GrowsReq
<1>2. FreshIds'
  BY DEF IInv, FreshIds
<1>. QED BY <1>1, <1>2 DEF IInv

\* A payment changes on its own: no row and no request does.
LEMMA TossAlone ==
    ASSUME IInv, NEW p \in Payments, NEW t, Advances(p, t),
           toss' = [toss EXCEPT ![p] = t], TossInv(p)',
           notice' \subseteq Payments,
           UNCHANGED <<order, subscription, refunds, req, faults>>
    PROVE  IInv'
<1>1. TypeOK'
  BY DEF IInv, TypeOK, Advances
<1>2. \A q \in Requests : req[q].pc = "create" =>
        order'[req[q].order].status = "NONE"
  BY DEF IInv, ReqInv
<1>. QED
  BY <1>1, <1>2, TossStep, EnvStep

LEMMA OpenPaymentInv ==
    ASSUME IInv, NEW p \in Payments, NEW o \in Orders, NEW a \in Prices,
           OpenPayment(p, o, a)
    PROVE  IInv'
<1>. DEFINE t == [Unopened EXCEPT !.status = "READY", !.order = o, !.amount = a]
<1>1. TypeOK /\ toss[p].status = "NONE" /\ order[o].status = "PENDING"
  BY DEF IInv, OpenPayment, TossOpens
<1>2. a \in Nat /\ a > 0
  BY PricesAssumption
<1>3. /\ t \in TossRow /\ t.status = "READY" /\ t.order = o /\ t.amount = a
      /\ t.cancelled = 0 /\ t.answered = "none" /\ t.refundKey = FALSE
  BY <1>2 DEF Unopened, TossRow, TossStatus
<1>4. toss' = [toss EXCEPT ![p] = t] /\ toss'[p] = t
  BY <1>1 DEF OpenPayment, TossOpens, TypeOK
<1>5. Advances(p, t)
  BY <1>1, <1>3 DEF Advances
<1>6. TossInv(p)'
  BY <1>1, <1>2, <1>3, <1>4 DEF OpenPayment, TossOpens, TossInv, Approved, Exists
<1>. QED
  BY <1>1, <1>4, <1>5, <1>6, TossAlone DEF OpenPayment, TossOpens, TypeOK

LEMMA PaymentAbortedInv ==
    ASSUME IInv, NEW p \in Payments, PaymentAborted(p)
    PROVE  IInv'
<1>. DEFINE t == [toss[p] EXCEPT !.status = "ABORTED"]
<1>1. /\ TypeOK /\ TossInv(p) /\ toss[p] \in TossRow
      /\ toss[p].status \in {"READY", "WAITING"}
  BY DEF IInv, TypeOK, PaymentAborted, TossAborts
<1>2. ~Approved(p)
  BY <1>1 DEF Approved
<1>3. /\ t \in TossRow /\ t.status = "ABORTED" /\ t.order = toss[p].order
      /\ t.amount = toss[p].amount /\ t.cancelled = toss[p].cancelled
      /\ t.answered = toss[p].answered /\ t.refundKey = toss[p].refundKey
      /\ t.cancelled \in Nat
  BY <1>1 DEF TossRow, TossStatus
<1>4. toss' = [toss EXCEPT ![p] = t] /\ toss'[p] = t
  BY <1>1 DEF PaymentAborted, TossAborts, TypeOK
<1>5. Advances(p, t)
  BY <1>1, <1>2, <1>3 DEF Advances
<1>6. TossInv(p)'
  BY <1>1, <1>2, <1>3, <1>4 DEF PaymentAborted, TossAborts, TossInv, Approved, Exists
<1>. QED
  BY <1>1, <1>4, <1>5, <1>6, TossAlone DEF PaymentAborted, TossAborts, TypeOK

LEMMA DepositArrivesInv ==
    ASSUME IInv, NEW p \in Payments, DepositArrives(p)
    PROVE  IInv'
<1>. DEFINE t == [toss[p] EXCEPT !.status = "DONE"]
<1>1. /\ TypeOK /\ TossInv(p) /\ toss[p] \in TossRow
      /\ toss[p].status = "WAITING"
  BY DEF IInv, TypeOK, DepositArrives, TossCollects
<1>2. ~Approved(p)
  BY <1>1 DEF Approved
<1>3. /\ t \in TossRow /\ t.status = "DONE" /\ t.order = toss[p].order
      /\ t.amount = toss[p].amount /\ t.cancelled = toss[p].cancelled
      /\ t.answered = toss[p].answered /\ t.refundKey = toss[p].refundKey
      /\ t.cancelled \in Nat /\ t.amount \in Nat
  BY <1>1 DEF TossRow, TossStatus
<1>4. toss' = [toss EXCEPT ![p] = t] /\ toss'[p] = t
  BY <1>1 DEF DepositArrives, TossCollects, TypeOK
<1>5. Advances(p, t)
  BY <1>1, <1>2, <1>3 DEF Advances
<1>6. TossInv(p)'
  BY <1>1, <1>2, <1>3, <1>4 DEF DepositArrives, TossCollects, TossInv, Approved, Exists
<1>. QED
  BY <1>1, <1>4, <1>5, <1>6, TossAlone DEF DepositArrives, TossCollects, TypeOK

LEMMA CancelledOutsideInv ==
    ASSUME IInv, NEW p \in Payments, NEW a \in 1..toss[p].amount,
           CancelledOutside(p, a)
    PROVE  IInv'
<1>. DEFINE c == toss[p].cancelled + a
            s == IF c = toss[p].amount THEN "CANCELED" ELSE "PARTIAL_CANCELED"
            t == [toss[p] EXCEPT !.status = s, !.cancelled = c]
<1>1. /\ TypeOK /\ TossInv(p) /\ toss[p] \in TossRow
      /\ toss[p].status \in {"DONE", "PARTIAL_CANCELED"} /\ Approved(p)
      /\ c <= toss[p].amount
  BY DEF IInv, TypeOK, CancelledOutside, TossReturns, Approved
<1>2. /\ toss[p].cancelled \in Nat /\ toss[p].amount \in Nat
      /\ c \in Nat /\ c > 0 /\ c >= toss[p].cancelled
  BY <1>1 DEF TossRow
<1>s. /\ s \in {"CANCELED", "PARTIAL_CANCELED"}
      /\ (s = "CANCELED" <=> c = toss[p].amount)
  OBVIOUS
<1>4. toss' = [toss EXCEPT ![p] = t] /\ toss'[p] = t
  BY <1>1 DEF CancelledOutside, TossReturns, TypeOK
<1>. HIDE DEF c, s
<1>3. /\ t \in TossRow /\ t.status = s /\ t.order = toss[p].order
      /\ t.amount = toss[p].amount /\ t.cancelled = c
      /\ t.answered = toss[p].answered /\ t.refundKey = toss[p].refundKey
  BY <1>s, <1>1, <1>2 DEF TossRow, TossStatus
<1>. HIDE DEF t
<1>5. Advances(p, t)
  BY <1>s, <1>1, <1>2, <1>3 DEF Advances
<1>6. ~toss[p].refundKey
  BY <1>1 DEF TossInv
<1>7. TossInv(p)'
  BY <1>s, <1>1, <1>2, <1>3, <1>4, <1>6
     DEF CancelledOutside, TossReturns, TossInv, Approved, Exists
<1>. QED
  BY <1>1, <1>4, <1>5, <1>7, TossAlone DEF CancelledOutside, TossReturns, TypeOK

LEMMA ConfirmAtTossInv ==
    ASSUME IInv, NEW r \in Requests, NEW s \in {"DONE", "WAITING"},
           ConfirmAtToss(r, s)
    PROVE  IInv'
<1>o. PICK o : o = req[r].order
  OBVIOUS
<1>p. PICK p : p = req[r].pay
  OBVIOUS
<1>. DEFINE t == [toss[p] EXCEPT !.status = s, !.answered = MapStatus(s)]
            pc == IF s = "DONE" THEN "finalize" ELSE "idle"
            v == IF s = "DONE" THEN [req[r] EXCEPT !.pc = "finalize"] ELSE Idle
<1>1. /\ TypeOK /\ req[r] \in Request /\ o \in Orders /\ p \in Payments
      /\ TossInv(p) /\ toss[p] \in TossRow /\ Exists(o)
      /\ req[r].cancelled = 0
      /\ toss[p].status = "READY" /\ toss[p].order = o
      /\ toss[p].amount = order[o].amount
  BY <1>o, <1>p DEF IInv, TypeOK, ConfirmAtToss, TossConfirms, ReqInv
<1>2. MapStatus(s) = IF s = "DONE" THEN "paid" ELSE "ready"
  BY DEF MapStatus
<1>3. /\ t \in TossRow /\ t.status = s /\ t.order = o
      /\ t.amount = toss[p].amount /\ t.cancelled = toss[p].cancelled
      /\ t.answered = MapStatus(s) /\ t.refundKey = toss[p].refundKey
  BY <1>1, <1>2 DEF TossRow, TossStatus, PaymentStatus
<1>4. toss' = [toss EXCEPT ![p] = t] /\ toss'[p] = t
  BY <1>o, <1>p, <1>1 DEF ConfirmAtToss, TossConfirms, TypeOK
<1>. HIDE DEF t
<1>5. ~Approved(p) /\ toss[p].cancelled = 0
  BY <1>1 DEF TossInv, Approved
<1>6. Advances(p, t)
  BY <1>1, <1>3, <1>5 DEF Advances
<1>7. TossInv(p)'
  <2>1. order' = order /\ toss[p].amount > 0 /\ toss[p].amount \in Nat
    BY <1>1 DEF ConfirmAtToss, TossConfirms, TossInv, TossRow
  <2>2. CASE s = "DONE"
    BY <1>1, <1>2, <1>3, <1>4, <1>5, <2>1, <2>2 DEF TossInv, Approved, Exists
  <2>3. CASE s = "WAITING"
    BY <1>1, <1>2, <1>3, <1>4, <1>5, <2>1, <2>3 DEF TossInv, Approved, Exists
  <2>. QED BY <2>2, <2>3
<1>8. req' = [req EXCEPT ![r] = v] /\ req'[r] = v
  BY <1>1, <1>2 DEF ConfirmAtToss, TossConfirms, Goto, Done, TypeOK
<1>9. /\ v \in Request /\ v.pc # "create"
      /\ v.order \in Orders => v.order = o
      /\ s = "DONE" => /\ v.pc = "finalize" /\ v.order = o /\ v.pay = p
                       /\ v.cancelled = 0
      /\ s # "DONE" => v.pc = "idle"
  BY <1>o, <1>p, <1>1, IdleIsRequest DEF Request, Pc, Idle
<1>. HIDE DEF v
<1>10. TypeOK'
  <2>1. /\ UNCHANGED <<order, subscription, refunds, faults>>
        /\ notice' = notice \cup {p} /\ t \in TossRow /\ p \in Payments
    BY <1>o, <1>p, <1>1, <1>4, <1>6, <1>8, <1>9 DEF ConfirmAtToss, TossConfirms, Advances
  <2>. QED
    BY <1>1, <1>4, <1>6, <1>8, <1>9, <2>1 DEF TypeOK
<1>11. ReqInv(r)'
  <2>1. CASE s = "DONE"
    <3>1. /\ req'[r].pc = "finalize" /\ req'[r].order = o /\ req'[r].pay = p
          /\ req'[r].cancelled = 0
      BY <1>8, <1>9, <2>1
    <3>2. toss'[p].status = "DONE" /\ toss'[p].order = o
          /\ toss'[p].amount = order[o].amount /\ toss'[p].cancelled = 0
          /\ order' = order
      BY <1>1, <1>3, <1>4, <1>5, <2>1 DEF ConfirmAtToss, TossConfirms
    <3>3. Read(r)' /\ Approved(p)'
      BY <1>1, <3>1, <3>2 DEF Read, Holds, Exists, Approved
    <3>. QED
      BY <3>1, <3>3 DEF ReqInv
  <2>2. CASE s # "DONE"
    BY <1>8, <1>9, <2>2 DEF ReqInv
  <2>. QED BY <2>1, <2>2
<1>12. \A q \in Requests \ {r} : req[q].pc = "create" =>
         order'[req[q].order].status = "NONE"
  BY DEF IInv, ReqInv, ConfirmAtToss, TossConfirms
<1>13. UNCHANGED <<order, subscription, refunds>>
  BY DEF ConfirmAtToss, TossConfirms
<1>14. /\ Grows
       /\ \A q \in Payments : TossInv(q)'
       /\ \A x \in Orders : OrderInv(x)'
       /\ \A x \in Orders : BackedInv(x)'
       /\ \A x \in refunds' : RowInv(x)'
  BY <1>1, <1>4, <1>6, <1>7, <1>10, <1>13, TossStep
<1>. QED
  BY <1>1, <1>8, <1>9, <1>10, <1>11, <1>12, <1>14, DoneStep

LEMMA CancelAtTossInv ==
    ASSUME IInv, NEW r \in Requests, CancelAtToss(r)
    PROVE  IInv'
<1>o. PICK o : o = req[r].order
  OBVIOUS
<1>p. PICK p : p = req[r].pay
  OBVIOUS
<1>. DEFINE t == [toss[p] EXCEPT !.status = "CANCELED",
                                 !.cancelled = toss[p].amount,
                                 !.refundKey = TRUE]
            v == [req[r] EXCEPT !.pc = "apply", !.status = "cancelled",
                                !.cancelled = toss[p].amount]
<1>1. /\ TypeOK /\ req[r] \in Request /\ Read(r) /\ Holds(r)
      /\ Approved(p) /\ Issued(o) /\ TossInv(p) /\ toss[p] \in TossRow
  BY Zenon, <1>o, <1>p DEF IInv, TypeOK, CancelAtToss, TossRefunds, ReqInv, Read, Holds
<1>2. /\ o \in Orders /\ p \in Payments /\ toss[p].order = o /\ Exists(o)
      /\ toss[p].amount = order[o].amount
      /\ toss[p].amount \in Nat /\ toss[p].cancelled \in Nat
      /\ toss[p].cancelled <= toss[p].amount /\ toss[p].amount > 0
  BY <1>o, <1>p, <1>1 DEF Read, Holds, TossInv, TossRow
<1>3. /\ t \in TossRow /\ t.status = "CANCELED" /\ t.order = o
      /\ t.amount = toss[p].amount /\ t.cancelled = toss[p].amount
      /\ t.answered = toss[p].answered /\ t.refundKey = TRUE
  BY <1>1, <1>2 DEF TossRow, TossStatus
<1>4. toss' = [toss EXCEPT ![p] = t] /\ toss'[p] = t
  BY Zenon, <1>o, <1>p, <1>1, <1>2 DEF CancelAtToss, TossRefunds, TypeOK
<1>. HIDE DEF t
<1>5. Advances(p, t)
  BY <1>1, <1>2, <1>3 DEF Advances
<1>6. TossInv(p)'
  <2>1. order' = order
    BY DEF CancelAtToss, TossRefunds
  <2>. QED
    BY <1>1, <1>2, <1>3, <1>4, <2>1 DEF TossInv, Approved, Exists
<1>7. req' = [req EXCEPT ![r] = v] /\ req'[r] = v
  BY <1>o, <1>p, <1>1 DEF CancelAtToss, TossRefunds, TypeOK
<1>8. /\ v \in Request /\ v.pc = "apply" /\ v.order = o /\ v.pay = p
      /\ v.cancelled = toss[p].amount
  BY ZenonT(60), <1>o, <1>p, <1>1, <1>2 DEF Request, Pc, PaymentStatus
<1>. HIDE DEF v
<1>9. TypeOK'
  <2>1. /\ UNCHANGED <<order, subscription, refunds, faults>>
        /\ notice' = notice \cup {p} /\ t \in TossRow /\ p \in Payments
    BY Zenon, <1>o, <1>p, <1>1, <1>2, <1>4, <1>5, <1>7, <1>8 DEF CancelAtToss, TossRefunds, Advances
  <2>. QED
    BY <1>1, <1>2, <1>4, <1>5, <1>7, <1>8, <2>1 DEF TypeOK
<1>10. Read(r)' /\ Approved(p)' /\ Issued(o)'
  <2>1. order' = order /\ subscription' = subscription
    BY DEF CancelAtToss, TossRefunds
  <2>2. /\ req'[r].order = o /\ req'[r].pay = p
        /\ req'[r].cancelled = toss[p].amount
    BY <1>7, <1>8
  <2>3. /\ toss'[p].status = "CANCELED" /\ toss'[p].order = o
        /\ toss'[p].amount = toss[p].amount
        /\ toss'[p].cancelled = toss[p].amount
    BY <1>3, <1>4
  <2>. QED
    BY <1>1, <1>2, <2>1, <2>2, <2>3 DEF Read, Holds, Exists, Approved, Issued
<1>11. ReqInv(r)'
  BY <1>7, <1>8, <1>10 DEF ReqInv
<1>12. \A q \in Requests \ {r} : req[q].pc = "create" =>
         order'[req[q].order].status = "NONE"
  BY Zenon DEF IInv, ReqInv, CancelAtToss, TossRefunds
<1>13. UNCHANGED <<order, subscription, refunds>>
  BY DEF CancelAtToss, TossRefunds
<1>14. /\ Grows
       /\ \A q \in Payments : TossInv(q)'
       /\ \A x \in Orders : OrderInv(x)'
       /\ \A x \in Orders : BackedInv(x)'
       /\ \A x \in refunds' : RowInv(x)'
  BY <1>2, <1>4, <1>5, <1>6, <1>9, <1>13, TossStep
<1>. QED
  BY <1>2, <1>7, <1>8, <1>9, <1>11, <1>12, <1>14, DoneStep

-----------------------------------------------------------------------------
(* Steps that write the rows of one order *)

LEMMA RowStep ==
    ASSUME IInv, NEW o \in Orders, NEW a \in OrderRow, NEW b \in SubscriptionRow,
           order' = [order EXCEPT ![o] = a],
           subscription' = [subscription EXCEPT ![o] = b],
           UNCHANGED toss,
           Exists(o) => a.status # "NONE" /\ a.amount = order[o].amount,
           Issued(o) => b.status # "NONE" /\ b.payId = subscription[o].payId
    PROVE  /\ Grows
           /\ \A p \in Payments : TossInv(p)'
           /\ \A x \in Orders \ {o} : OrderInv(x)'
           /\ TypeOK' => /\ \A x \in Orders \ {o} : BackedInv(x)'
                         /\ \A x \in refunds : RowInv(x)'
<1>1. /\ TypeOK
      /\ \A x \in Orders : order'[x] = IF x = o THEN a ELSE order[x]
      /\ \A x \in Orders :
            subscription'[x] = IF x = o THEN b ELSE subscription[x]
  BY DEF IInv, TypeOK
<1>2. Grows
  <2>1. \A p \in Payments : toss[p].cancelled \in Nat
    BY <1>1 DEF TypeOK, TossRow
  <2>2. \A p \in Payments : Approved(p)' <=> Approved(p)
    BY DEF Approved
  <2>. QED BY <1>1, <2>1, <2>2 DEF Grows, Exists, Issued
<1>3. \A p \in Payments : TossInv(p)'
  BY <1>2, GrowsToss
<1>4. \A x \in Orders \ {o} : OrderInv(x)'
  BY <1>1, <1>2, GrowsOrder
<1>5. TypeOK' => \A x \in Orders \ {o} : BackedInv(x)'
  BY <1>1, <1>2, GrowsBacked DEF Issued
<1>6. TypeOK' => \A x \in refunds : RowInv(x)'
  BY <1>2, GrowsRow
<1>. QED BY <1>2, <1>3, <1>4, <1>5, <1>6

\* Nobody is about to create an order that exists.
LEMMA CreateElsewhere ==
    ASSUME IInv, NEW o \in Orders, Exists(o), NEW a,
           order' = [order EXCEPT ![o] = a], NEW q \in Requests,
           req[q].pc = "create"
    PROVE  order'[req[q].order].status = "NONE"
<1>1. ReqInv(q) /\ TypeOK
  BY DEF IInv
<1>. QED BY <1>1 DEF ReqInv, Exists, TypeOK

LEMMA CheckoutCreateInv ==
    ASSUME IInv, NEW r \in Requests, NEW price \in Prices,
           CheckoutCreate(r, price)
    PROVE  IInv'
<1>o. PICK o : o = req[r].order
  OBVIOUS
<1>. DEFINE a == [AbsentOrder EXCEPT !.status = "PENDING", !.live = TRUE,
                                     !.owner = req[r].user, !.amount = price]
            b == subscription[o]
<1>1. /\ TypeOK /\ o \in Orders /\ req[r].user \in Users
      /\ order[o].status = "NONE" /\ OrderInv(o)
  BY <1>o DEF IInv, ReqInv, CheckoutCreate
<1>2. price \in Nat /\ price > 0
  BY PricesAssumption
<1>3. /\ a \in OrderRow /\ a.status = "PENDING" /\ a.amount = price
      /\ a.payId = None /\ a.refunded = 0
  BY <1>1, <1>2 DEF AbsentOrder, OrderRow, OrderStatus
<1>4. /\ b \in SubscriptionRow /\ ~Issued(o)
      /\ subscription' = [subscription EXCEPT ![o] = b]
  BY <1>1 DEF CheckoutCreate, TypeOK, OrderInv
<1>5. order' = [order EXCEPT ![o] = a] /\ order'[o] = a /\ ~Exists(o)
  BY <1>o, <1>1 DEF CheckoutCreate, TypeOK, Exists
<1>. HIDE DEF a
<1>6. OrderInv(o)'
  BY <1>2, <1>3, <1>4, <1>5 DEF CheckoutCreate, OrderInv, Exists, Issued
<1>7. BackedInv(o)'
  BY <1>4 DEF CheckoutCreate, BackedInv, Issued
<1>8. req' = [req EXCEPT ![r] = Idle] /\ req'[r] = Idle
  BY <1>1 DEF CheckoutCreate, Done, TypeOK
<1>9. TypeOK'
  BY <1>1, <1>3, <1>5, <1>8, IdleIsRequest DEF CheckoutCreate, TypeOK
<1>10. ReqInv(r)'
  BY <1>8 DEF ReqInv, Idle
<1>11. ASSUME NEW q \in Requests \ {r}, req[q].pc = "create"
       PROVE  order'[req[q].order].status = "NONE"
  <2>1. req[q].order # o /\ req[q].order \in Orders
    BY <1>o, <1>11 DEF IInv, FreshIds, ReqInv, CheckoutCreate
  <2>2. order[req[q].order].status = "NONE"
    BY <1>11 DEF IInv, ReqInv
  <2>. QED BY <1>1, <1>5, <2>1, <2>2 DEF TypeOK
<1>. HIDE DEF b
<1>12. toss' = toss /\ refunds' = refunds
  BY DEF CheckoutCreate
<1>13. /\ Grows
       /\ \A p \in Payments : TossInv(p)'
       /\ \A x \in Orders \ {o} : OrderInv(x)' /\ BackedInv(x)'
       /\ \A x \in refunds' : RowInv(x)'
  BY <1>1, <1>3, <1>4, <1>5, <1>9, <1>12, RowStep
<1>14. Idle \in Request /\ Idle.pc # "create" /\ Idle.order \notin Orders
  BY IdleIsRequest DEF Idle
<1>. QED
  BY <1>6, <1>7, <1>8, <1>9, <1>10, <1>11, <1>13, <1>14, DoneStep

\* A request that ends after writing an existing order.
LEMMA WriteAndEnd ==
    ASSUME IInv, NEW r \in Requests, NEW o \in Orders, Exists(o),
           NEW a \in OrderRow, NEW b \in SubscriptionRow,
           order' = [order EXCEPT ![o] = a],
           subscription' = [subscription EXCEPT ![o] = b],
           a.status # "NONE", a.amount = order[o].amount,
           Issued(o) => b.status # "NONE" /\ b.payId = subscription[o].payId,
           NEW v \in Request, req' = [req EXCEPT ![r] = v], v.pc # "create",
           v.order \in Orders => Exists(v.order), ReqInv(r)',
           OrderInv(o)', BackedInv(o)',
           refunds' \subseteq RefundRow,
           \A x \in refunds' \ refunds : RowInv(x)',
           UNCHANGED <<toss, notice, faults>>
    PROVE  IInv'
<1>1. TypeOK'
  BY DEF IInv, TypeOK
<1>2. /\ Grows
      /\ \A p \in Payments : TossInv(p)'
      /\ \A x \in Orders \ {o} : OrderInv(x)' /\ BackedInv(x)'
      /\ \A x \in refunds : RowInv(x)'
  BY <1>1, RowStep
<1>3. \A x \in refunds' : RowInv(x)'
  BY <1>2
<1>4. \A q \in Requests \ {r} : req[q].pc = "create" =>
        order'[req[q].order].status = "NONE"
  BY CreateElsewhere
<1>. QED BY <1>1, <1>2, <1>3, <1>4, DoneStep

\* finalizePaidOrder, followed by whatever the request does next.
LEMMA FinalizeInv ==
    ASSUME IInv, NEW r \in Requests, NEW o \in Orders, NEW p \in Payments,
           Read(r), Approved(p), o = req[r].order, p = req[r].pay,
           FinalizePaidOrder(o, p),
           NEW v \in Request, req' = [req EXCEPT ![r] = v],
           v = Idle \/ v = [req[r] EXCEPT !.pc = "hook_sub"],
           UNCHANGED <<refunds, toss, notice, faults>>
    PROVE  IInv'
<1>1. /\ TypeOK /\ OrderInv(o) /\ Exists(o) /\ order[o] \in OrderRow
      /\ toss[p].status # "NONE" /\ toss[p].order = o
      /\ toss[p].amount = order[o].amount /\ toss[p] \in TossRow
      /\ req[r] \in Request /\ req'[r] = v
  BY DEF IInv, TypeOK, Read, Holds
<1>2. /\ v.pc # "create"
      /\ v.order \in Orders => v.order = o
      /\ v.pc # "idle" => /\ v.pc = "hook_sub" /\ v.order = o /\ v.pay = p
                          /\ v.cancelled = req[r].cancelled
  <2>1. CASE v = Idle
    BY <2>1, IdleIsRequest DEF Idle
  <2>2. CASE v = [req[r] EXCEPT !.pc = "hook_sub"]
    BY <1>1, <2>2 DEF Request
  <2>. QED BY <2>1, <2>2
<1>3. ASSUME Exists(o)' , order'[o].amount = order[o].amount
      PROVE  ReqInv(r)'
  <2>1. CASE v.pc = "idle"
    BY <1>1, <2>1 DEF ReqInv
  <2>2. CASE v.pc # "idle"
    <3>1. /\ req'[r].pc = "hook_sub" /\ req'[r].order = o /\ req'[r].pay = p
          /\ req'[r].cancelled = req[r].cancelled
      BY <1>1, <1>2, <2>2
    <3>2. Read(r)' /\ Approved(p)'
      BY <1>1, <1>3, <3>1 DEF Read, Holds, Approved
    <3>. QED BY <3>1, <3>2 DEF ReqInv
  <2>. QED BY <2>1, <2>2
<1>4. CASE order[o].status = "PENDING" /\ ~UsedElsewhere(o, p)
  <2>. DEFINE a == [order[o] EXCEPT !.status = "PAID", !.payId = p]
              b == [AbsentSubscription EXCEPT !.status = "PAID",
                                              !.owner = order[o].owner,
                                              !.amount = order[o].amount,
                                              !.payId = p]
  <2>1. /\ order' = [order EXCEPT ![o] = a] /\ order'[o] = a
        /\ subscription' = [subscription EXCEPT ![o] = b]
        /\ subscription'[o] = b
    BY ZenonT(60), <1>1, <1>4 DEF FinalizePaidOrder, TypeOK
  <2>2. /\ a \in OrderRow /\ a.status = "PAID" /\ a.payId = p
        /\ a.amount = order[o].amount /\ a.refunded = order[o].refunded
        /\ a.owner = order[o].owner
    BY <1>1 DEF OrderRow, OrderStatus
  <2>3. /\ b \in SubscriptionRow /\ b.status = "PAID" /\ b.payId = p
        /\ b.amount = order[o].amount /\ b.refunded = 0
        /\ b.owner = order[o].owner
    BY ZenonT(60), <1>1 DEF AbsentSubscription, SubscriptionRow, OrderRow
  <2>. HIDE DEF a, b
  <2>4. order[o].refunded = 0 /\ ~Issued(o) /\ order[o].amount > 0
        /\ order[o].amount \in Nat /\ toss[p].cancelled \in Nat
    BY SMTT(60), <1>1, <1>4 DEF OrderInv, OrderRow, TossRow
  <2>5. OrderInv(o)'
    <3>1. toss' = toss /\ o \in Orders /\ p \in Payments
      BY <1>1 DEF FinalizePaidOrder
    <3>. QED
      BY <1>1, <2>1, <2>2, <2>3, <2>4, <3>1, NoneAssumption, TossNoneAssumption
         DEF OrderInv, Exists, Issued, Approved
  <2>6. BackedInv(o)'
    BY <2>1, <2>3, <2>4 DEF BackedInv
  <2>7. ReqInv(r)'
    BY <1>3, <2>1, <2>2 DEF Exists
  <2>8. refunds' \subseteq RefundRow /\ \A x \in refunds' \ refunds : RowInv(x)'
    BY <1>1 DEF TypeOK
  <2>. QED
    BY Zenon, <1>1, <1>2, <2>1, <2>2, <2>3, <2>4, <2>5, <2>6, <2>7, <2>8, WriteAndEnd
<1>5. CASE ~(order[o].status = "PENDING" /\ ~UsedElsewhere(o, p))
  <2>1. order' = order /\ subscription' = subscription
    BY <1>5 DEF FinalizePaidOrder
  <2>2. ReqInv(r)'
    BY <1>1, <1>3, <2>1 DEF Exists
  <2>. QED
    BY <1>1, <1>2, <2>1, <2>2, ReqStep DEF TypeOK
<1>. QED BY <1>4, <1>5

LEMMA VerifyFinalizeInv ==
    ASSUME IInv, NEW r \in Requests, VerifyFinalize(r)
    PROVE  IInv'
<1>1. ReqInv(r) /\ req[r].pc = "finalize"
  BY DEF IInv, VerifyFinalize
<1>2. Read(r) /\ Approved(req[r].pay) /\ req[r].order \in Orders
      /\ req[r].pay \in Payments
  BY <1>1 DEF ReqInv, Read, Holds
<1>3. PICK o \in Orders, p \in Payments : o = req[r].order /\ p = req[r].pay
  BY <1>2
<1>. QED
  BY <1>2, <1>3, FinalizeInv, IdleIsRequest DEF VerifyFinalize, Done

LEMMA HookPaidInv ==
    ASSUME IInv, NEW r \in Requests, HookPaid(r)
    PROVE  IInv'
<1>1. ReqInv(r) /\ req[r].pc = "hook_paid"
  BY DEF IInv, HookPaid
<1>2. Read(r) /\ Approved(req[r].pay) /\ req[r].order \in Orders
      /\ req[r].pay \in Payments
  BY <1>1 DEF ReqInv, Read, Holds
<1>3. PICK o \in Orders, p \in Payments : o = req[r].order /\ p = req[r].pay
  BY <1>2
<1>. QED
  BY <1>2, <1>3, FinalizeInv, IdleIsRequest DEF HookPaid, Done

LEMMA HookClaimInv ==
    ASSUME IInv, NEW r \in Requests, HookClaim(r)
    PROVE  IInv'
<1>1. ReqInv(r) /\ req[r].pc = "hook_claim" /\ TypeOK /\ req[r] \in Request
  BY DEF IInv, HookClaim, TypeOK
<1>2. Read(r) /\ Approved(req[r].pay) /\ req[r].order \in Orders
      /\ req[r].pay \in Payments
  BY <1>1 DEF ReqInv, Read, Holds
<1>3. PICK o \in Orders, p \in Payments : o = req[r].order /\ p = req[r].pay
  BY <1>2
<1>4. CASE Done(r)
  BY <1>2, <1>3, <1>4, FinalizeInv, IdleIsRequest DEF HookClaim, Done
<1>5. CASE Goto(r, "hook_sub")
  <2>. DEFINE v == [req[r] EXCEPT !.pc = "hook_sub"]
  <2>1. v \in Request
    BY <1>1 DEF Request, Pc
  <2>2. req' = [req EXCEPT ![r] = v]
    BY <1>1, <1>5 DEF Goto, TypeOK
  <2>. QED BY <1>2, <1>3, <2>1, <2>2, FinalizeInv DEF HookClaim
<1>. QED BY <1>4, <1>5 DEF HookClaim

LEMMA HookVoidInv ==
    ASSUME IInv, NEW r \in Requests, HookVoid(r)
    PROVE  IInv'
<1>o. PICK o : o = req[r].order
  OBVIOUS
<1>p. PICK p : p = req[r].pay
  OBVIOUS
<1>1. /\ TypeOK /\ Read(r) /\ Holds(r) /\ o \in Orders /\ p \in Payments
      /\ OrderInv(o) /\ Exists(o) /\ order[o] \in OrderRow
      /\ toss[p].status # "NONE" /\ toss[p].order = o
      /\ req[r] \in Request
  BY Zenon, <1>o, <1>p DEF IInv, HookVoid, ReqInv, Read, Holds, TypeOK
<1>2. CASE order[o].status = "PENDING" /\ ~UsedElsewhere(o, p)
  <2>. DEFINE a == [order[o] EXCEPT !.status = "CANCELED", !.payId = p,
                                !.refunded = req[r].cancelled]
              b == subscription[o]
  <2>1. /\ order' = [order EXCEPT ![o] = a] /\ order'[o] = a
        /\ subscription' = [subscription EXCEPT ![o] = b]
        /\ subscription'[o] = b
    BY ZenonT(60), <1>o, <1>p, <1>1, <1>2 DEF HookVoid, TypeOK
  <2>2. /\ a \in OrderRow /\ a.status = "CANCELED" /\ a.payId = p
        /\ a.amount = order[o].amount
    BY <1>1 DEF OrderRow, OrderStatus, Request
  <2>3. /\ b \in SubscriptionRow /\ ~Issued(o) /\ b.status = "NONE"
    BY <1>1, <1>2 DEF TypeOK, OrderInv, Issued
  <2>. HIDE DEF a, b
  <2>4. toss' = toss /\ refunds' = refunds /\ notice' = notice
        /\ faults' = faults
    BY DEF HookVoid
  <2>5. OrderInv(o)'
    BY <1>1, <2>1, <2>2, <2>3, <2>4, NoneAssumption, TossNoneAssumption
       DEF OrderInv, Exists, Issued
  <2>6. BackedInv(o)'
    BY <2>1, <2>3 DEF BackedInv, Issued
  <2>7. req' = [req EXCEPT ![r] = Idle] /\ ReqInv(r)'
    BY <1>1 DEF HookVoid, Done, TypeOK, ReqInv, Idle
  <2>8. refunds' \subseteq RefundRow /\ \A x \in refunds' \ refunds : RowInv(x)'
    BY <1>1, <2>4 DEF TypeOK
  <2>9. Idle \in Request /\ Idle.pc # "create" /\ Idle.order \notin Orders
    BY IdleIsRequest DEF Idle
  <2>. QED
    BY <1>1, <2>1, <2>2, <2>3, <2>4, <2>5, <2>6, <2>7, <2>8, <2>9, WriteAndEnd
<1>3. CASE ~(order[o].status = "PENDING" /\ ~UsedElsewhere(o, p))
  <2>1. order' = order /\ subscription' = subscription
    BY <1>o, <1>p, <1>3 DEF HookVoid
  <2>. QED
    BY <1>1, <2>1, DoneReq DEF HookVoid, TypeOK
<1>. QED BY <1>2, <1>3

LEMMA HookFailInv ==
    ASSUME IInv, NEW r \in Requests, HookFail(r)
    PROVE  IInv'
<1>o. PICK o : o = req[r].order
  OBVIOUS
<1>p. PICK p : p = req[r].pay
  OBVIOUS
<1>1. /\ TypeOK /\ Read(r) /\ Holds(r) /\ o \in Orders /\ p \in Payments
      /\ OrderInv(o) /\ Exists(o) /\ order[o] \in OrderRow
      /\ toss[p].status # "NONE" /\ toss[p].order = o
      /\ req[r] \in Request
  BY <1>o, <1>p DEF IInv, HookFail, ReqInv, Read, Holds, TypeOK
<1>2. CASE order[o].status = "PENDING" /\ ~UsedElsewhere(o, p)
  <2>. DEFINE a == [order[o] EXCEPT !.status = "FAILED", !.payId = p]
              b == subscription[o]
  <2>1. /\ order' = [order EXCEPT ![o] = a] /\ order'[o] = a
        /\ subscription' = [subscription EXCEPT ![o] = b]
        /\ subscription'[o] = b
    BY ZenonT(60), <1>o, <1>p, <1>1, <1>2 DEF HookFail, TypeOK
  <2>2. /\ a \in OrderRow /\ a.status = "FAILED" /\ a.payId = p
        /\ a.amount = order[o].amount
    BY <1>1 DEF OrderRow, OrderStatus, Request
  <2>3. /\ b \in SubscriptionRow /\ ~Issued(o) /\ b.status = "NONE"
    BY <1>1, <1>2 DEF TypeOK, OrderInv, Issued
  <2>. HIDE DEF a, b
  <2>4. toss' = toss /\ refunds' = refunds /\ notice' = notice
        /\ faults' = faults
    BY DEF HookFail
  <2>5. OrderInv(o)'
    BY <1>1, <2>1, <2>2, <2>3, <2>4, NoneAssumption, TossNoneAssumption
       DEF OrderInv, Exists, Issued
  <2>6. BackedInv(o)'
    BY <2>1, <2>3 DEF BackedInv, Issued
  <2>7. req' = [req EXCEPT ![r] = Idle] /\ ReqInv(r)'
    BY <1>1 DEF HookFail, Done, TypeOK, ReqInv, Idle
  <2>8. refunds' \subseteq RefundRow /\ \A x \in refunds' \ refunds : RowInv(x)'
    BY <1>1, <2>4 DEF TypeOK
  <2>9. Idle \in Request /\ Idle.pc # "create" /\ Idle.order \notin Orders
    BY IdleIsRequest DEF Idle
  <2>. QED
    BY <1>1, <2>1, <2>2, <2>3, <2>4, <2>5, <2>6, <2>7, <2>8, <2>9, WriteAndEnd
<1>3. CASE ~(order[o].status = "PENDING" /\ ~UsedElsewhere(o, p))
  <2>1. order' = order /\ subscription' = subscription
    BY <1>o, <1>p, <1>3 DEF HookFail
  <2>. QED
    BY <1>1, <2>1, DoneReq DEF HookFail, TypeOK
<1>. QED BY <1>2, <1>3

LEMMA ApplyRefundInv ==
    ASSUME IInv, NEW r \in Requests, ApplyRefund(r)
    PROVE  IInv'
<1>o. PICK o : o = req[r].order
  OBVIOUS
<1>p. PICK p : p = req[r].pay
  OBVIOUS
<1>c. PICK c : c = req[r].cancelled
  OBVIOUS
<1>1. /\ TypeOK /\ Read(r) /\ Holds(r) /\ o \in Orders /\ p \in Payments
      /\ OrderInv(o) /\ Exists(o) /\ order[o] \in OrderRow
      /\ toss[p].status # "NONE" /\ toss[p].order = o /\ Approved(p)
      /\ toss[p].amount = order[o].amount
      /\ req[r] \in Request /\ Issued(o) /\ subscription[o] \in SubscriptionRow
  BY <1>o, <1>p DEF IInv, ApplyRefund, ReqInv, Read, Holds, TypeOK
<1>2. /\ c \in Nat /\ req[r].seen \in Nat /\ c <= toss[p].cancelled
      /\ toss[p].cancelled \in Nat /\ order[o].amount \in Nat
      /\ order[o].amount > 0
  BY <1>o, <1>p, <1>c, <1>1 DEF Request, Read, TypeOK, TossRow, OrderRow, OrderInv
<1>3. CASE RefundPayment(r)
  <2>. DEFINE full == c >= order[o].amount
              a == [order[o] EXCEPT !.status = IF full THEN "CANCELED" ELSE "PAID",
                                    !.refunded = c]
              b == [subscription[o] EXCEPT
                      !.status = IF full THEN "REFUNDED" ELSE "PAID",
                      !.refunded = c]
              row == [order |-> o, cumulative |-> c, amount |-> c - req[r].seen]
  <2>1. /\ order' = [order EXCEPT ![o] = a] /\ order'[o] = a
        /\ subscription' = [subscription EXCEPT ![o] = b]
        /\ subscription'[o] = b
    <3>1. /\ order' = [order EXCEPT
                 ![o].status = IF full THEN "CANCELED" ELSE "PAID",
                 ![o].refunded = c]
          /\ subscription' = [subscription EXCEPT
                 ![o].status = IF full THEN "REFUNDED" ELSE "PAID",
                 ![o].refunded = c]
      BY <1>o, <1>p, <1>c, <1>3 DEF ApplyRefund, IsFullRefund
    <3>. HIDE DEF full
    <3>2. order' = [order EXCEPT ![o] = a] /\ order'[o] = a
      BY <1>1, <3>1 DEF TypeOK
    <3>3. /\ subscription' = [subscription EXCEPT ![o] = b]
          /\ subscription'[o] = b
      BY <1>1, <3>1 DEF TypeOK
    <3>. QED BY <3>2, <3>3
  <2>2. /\ a \in OrderRow /\ a.status = (IF full THEN "CANCELED" ELSE "PAID")
        /\ a.payId = order[o].payId /\ a.amount = order[o].amount
        /\ a.refunded = c /\ a.owner = order[o].owner
    BY ZenonT(60), <1>1, <1>2 DEF OrderRow, OrderStatus
  <2>3. /\ b \in SubscriptionRow /\ b.status = (IF full THEN "REFUNDED" ELSE "PAID")
        /\ b.payId = subscription[o].payId /\ b.amount = subscription[o].amount
        /\ b.refunded = c /\ b.owner = subscription[o].owner
    BY ZenonT(60), <1>1, <1>2 DEF SubscriptionRow
  <2>4. toss' = toss /\ notice' = notice /\ faults' = faults
    BY DEF ApplyRefund
  <2>5. refunds' \subseteq refunds \cup {row}
        /\ (row \in refunds' \ refunds => c > req[r].seen)
    BY <1>o, <1>p, <1>c, <1>3 DEF ApplyRefund
  <2>. HIDE DEF a, b, row, full
  <2>6. full <=> c >= order[o].amount
    BY DEF full
  <2>7. OrderInv(o)'
    BY <1>1, <1>2, <2>1, <2>2, <2>3, <2>4, <2>6
       DEF OrderInv, Exists, Issued, Approved
  <2>8. PaidOnce(o)' => p = subscription[o].payId
    BY <1>1, <2>1, <2>3, <2>4 DEF PaidOnce, Approved
  <2>9. BackedInv(o)'
    BY <1>1, <1>2, <2>1, <2>3, <2>4, <2>8 DEF BackedInv
  <2>10. ASSUME NEW x \in refunds' \ refunds PROVE x \in RefundRow /\ RowInv(x)'
    <3>1. x = row /\ c > req[r].seen
      BY <2>5, <2>10
    <3>2. /\ x \in RefundRow /\ x.order = o /\ x.cumulative = c
          /\ x.amount \in 1..c
      BY <1>1, <1>2, <3>1 DEF row, RefundRow
    <3>3. Issued(o)'
      BY <2>1, <2>3 DEF Issued
    <3>. QED
      BY <1>2, <2>1, <2>3, <2>4, <2>8, <3>2, <3>3 DEF RowInv
  <2>11. req' = [req EXCEPT ![r] = Idle] /\ ReqInv(r)'
    BY <1>1 DEF ApplyRefund, Done, TypeOK, ReqInv, Idle
  <2>12. refunds' \subseteq RefundRow /\ \A x \in refunds' \ refunds : RowInv(x)'
    BY <1>1, <2>10 DEF TypeOK
  <2>13. Idle \in Request /\ Idle.pc # "create" /\ Idle.order \notin Orders
    BY IdleIsRequest DEF Idle
  <2>14. a.status # "NONE" /\ b.status # "NONE"
    BY <2>2, <2>3
  <2>. QED
    BY <1>1, <2>1, <2>2, <2>3, <2>4, <2>7, <2>9, <2>11, <2>12, <2>13, <2>14,
       WriteAndEnd
<1>4. CASE ~RefundPayment(r)
  <2>1. order' = order /\ subscription' = subscription /\ refunds' = refunds
    BY <1>p, <1>4 DEF ApplyRefund
  <2>. QED
    BY <1>1, <2>1, DoneReq DEF ApplyRefund, TypeOK
<1>. QED BY <1>3, <1>4

\* The clock moves a row without touching anything the invariant speaks of.
LEMMA ClockStep ==
    ASSUME IInv, NEW o \in Orders, Exists(o),
           NEW a \in OrderRow, NEW b \in SubscriptionRow,
           order' = [order EXCEPT ![o] = a],
           subscription' = [subscription EXCEPT ![o] = b],
           a.status = order[o].status, a.owner = order[o].owner,
           a.amount = order[o].amount, a.payId = order[o].payId,
           a.refunded = order[o].refunded,
           b.status = subscription[o].status, b.owner = subscription[o].owner,
           b.amount = subscription[o].amount, b.payId = subscription[o].payId,
           b.refunded = subscription[o].refunded,
           UNCHANGED <<refunds, toss, notice, req, faults>>
    PROVE  IInv'
<1>1. TypeOK' /\ OrderInv(o) /\ order'[o] = a /\ subscription'[o] = b
  BY DEF IInv, TypeOK
<1>2. /\ Grows
      /\ \A p \in Payments : TossInv(p)'
      /\ \A x \in Orders \ {o} : OrderInv(x)' /\ BackedInv(x)'
      /\ \A x \in refunds' : RowInv(x)'
  BY <1>1, RowStep DEF Exists, Issued
<1>3. OrderInv(o)'
  BY <1>1 DEF OrderInv, Exists, Issued, Approved
<1>4. BackedInv(o)'
  BY <1>1, <1>2, GrowsBacked DEF Issued
<1>5. \A q \in Requests : req[q].pc = "create" =>
        order'[req[q].order].status = "NONE"
  BY CreateElsewhere
<1>. QED BY <1>1, <1>2, <1>3, <1>4, <1>5, EnvStep

LEMMA OrderExpiresInv ==
    ASSUME IInv, NEW o \in Orders, OrderExpires(o)
    PROVE  IInv'
<1>. DEFINE a == [order[o] EXCEPT !.live = FALSE]
            b == subscription[o]
<1>1. /\ TypeOK /\ Exists(o) /\ order[o] \in OrderRow /\ b \in SubscriptionRow
  BY DEF IInv, TypeOK, OrderExpires, Exists
<1>2. /\ order' = [order EXCEPT ![o] = a]
      /\ subscription' = [subscription EXCEPT ![o] = b]
  BY <1>1 DEF OrderExpires, TypeOK
<1>3. /\ a \in OrderRow /\ a.status = order[o].status
      /\ a.owner = order[o].owner /\ a.amount = order[o].amount
      /\ a.payId = order[o].payId /\ a.refunded = order[o].refunded
  BY <1>1 DEF OrderRow
<1>. HIDE DEF a
<1>. QED BY ZenonT(60), <1>1, <1>2, <1>3, ClockStep DEF OrderExpires

\* endsAt passes: no part of the invariant looks at it.
LEMMA SubscriptionEndsInv ==
    ASSUME IInv, NEW o \in Orders, SubscriptionEnds(o)
    PROVE  IInv'
<1>. DEFINE a == order[o]
            b == [subscription[o] EXCEPT !.over = TRUE]
<1>1. /\ TypeOK /\ OrderInv(o) /\ Issued(o) /\ a \in OrderRow
      /\ subscription[o] \in SubscriptionRow
  BY DEF IInv, TypeOK, SubscriptionEnds, Issued
<1>2. /\ order' = [order EXCEPT ![o] = a]
      /\ subscription' = [subscription EXCEPT ![o] = b]
  BY <1>1 DEF SubscriptionEnds, TypeOK
<1>3. /\ b \in SubscriptionRow /\ b.status = subscription[o].status
      /\ b.owner = subscription[o].owner /\ b.amount = subscription[o].amount
      /\ b.payId = subscription[o].payId
      /\ b.refunded = subscription[o].refunded
  BY <1>1 DEF SubscriptionRow
<1>4. Exists(o)
  BY <1>1 DEF OrderInv, Exists
<1>. HIDE DEF b
<1>. QED BY ZenonT(60), <1>1, <1>2, <1>3, <1>4, ClockStep DEF SubscriptionEnds

-----------------------------------------------------------------------------
(* The theorems *)

\* The invariant holds initially ...
THEOREM InitIInv == Init => IInv
<1>. SUFFICES ASSUME Init PROVE IInv
  OBVIOUS
<1>1. AbsentOrder \in OrderRow /\ AbsentSubscription \in SubscriptionRow
      /\ Unopened \in TossRow
  BY DEF AbsentOrder, OrderRow, OrderStatus, AbsentSubscription,
         SubscriptionRow, Unopened, TossRow, TossStatus
<1>2. TypeOK
  BY <1>1, IdleIsRequest, MaxFaultsAssumption DEF Init, TypeOK
<1>3. \A p \in Payments : TossInv(p)
  BY DEF Init, TossInv, Approved, Unopened
<1>4. \A o \in Orders : OrderInv(o)
  BY DEF Init, OrderInv, Exists, Issued, AbsentOrder, AbsentSubscription
<1>5. \A r \in Requests : ReqInv(r)
  BY DEF Init, ReqInv, Idle
<1>6. FreshIds
  BY DEF Init, FreshIds, Idle
<1>7. \A o \in Orders : BackedInv(o)
  BY DEF Init, BackedInv, Issued, AbsentSubscription
<1>8. \A x \in refunds : RowInv(x)
  BY DEF Init
<1>. QED
  BY <1>2, <1>3, <1>4, <1>5, <1>6, <1>7, <1>8 DEF IInv

\* ... and every step of every handler, of Toss and of the clock preserves it.
THEOREM NextIInv == IInv /\ [Next]_vars => IInv'
<1>. SUFFICES ASSUME IInv, [Next]_vars PROVE IInv'
  OBVIOUS
<1>1. CASE UNCHANGED vars
  <2>1. /\ order' = order /\ subscription' = subscription /\ refunds' = refunds
        /\ req' = req /\ toss' = toss /\ notice' = notice /\ faults' = faults
    BY <1>1 DEF vars
  <2>2. TypeOK' /\ FreshIds'
    BY <2>1 DEF IInv, TypeOK, FreshIds
  <2>3. /\ \A p \in Payments : TossInv(p)'
        /\ \A o \in Orders : OrderInv(o)'
    BY <2>1 DEF IInv, TossInv, OrderInv, Approved, Exists, Issued
  <2>4. \A r \in Requests : ReqInv(r)'
    BY <2>1 DEF IInv, ReqInv, Holds, Read, Approved, Exists, Issued
  <2>5. \A o \in Orders : BackedInv(o)'
    BY <2>1 DEF IInv, BackedInv, Issued, PaidOnce, Approved
  <2>6. \A x \in refunds : RowInv(x)'
    BY <2>1 DEF IInv, RowInv, Issued, PaidOnce, Approved
  <2>. QED
    BY <2>1, <2>2, <2>3, <2>4, <2>5, <2>6 DEF IInv
<1>2. ASSUME NEW r \in Requests, Checkout(r) PROVE IInv'
  BY <1>2, CheckoutReadInv, CheckoutCreateInv DEF Checkout
<1>3. ASSUME NEW r \in Requests, Verify(r) PROVE IInv'
  BY <1>3, VerifyStartInv, ConfirmAtTossInv, ConfirmReplayedInv,
     ConfirmRejectedInv, VerifyFinalizeInv DEF Verify
<1>4. ASSUME NEW r \in Requests, Sync(r) PROVE IInv'
  BY <1>4, WebhookStartInv, ReconcileStartInv, HookGetPaymentInv, HookPaidInv,
     HookReadSubscriptionInv, HookClaimInv, HookVoidInv, HookFailInv DEF Sync
<1>5. ASSUME NEW r \in Requests, Refund(r) PROVE IInv'
  BY <1>5, RefundStartInv, RefundGetPaymentInv, CancelAtTossInv,
     CancelReplayedInv, CancelRejectedInv, ApplyRefundInv DEF Refund
<1>6. ASSUME Environment PROVE IInv'
  BY <1>6, OrderExpiresInv, SubscriptionEndsInv, OpenPaymentInv,
     PaymentAbortedInv, DepositArrivesInv, CancelledOutsideInv, RequestDiesInv
     DEF Environment
<1>. QED BY <1>1, <1>2, <1>3, <1>4, <1>5, <1>6 DEF Next

\* The inductive invariant holds in every state.
THEOREM SpecIInv == Spec => []IInv
BY InitIInv, NextIInv, PTL DEF Spec

\* Rows and requests keep their types.
THEOREM TypeCorrect == Spec => []TypeOK
<1>1. IInv => TypeOK
  BY DEF IInv
<1>. QED BY <1>1, SpecIInv, PTL

\* The mismatches of buildPaymentReconciliation between an order and its
\* subscription never arise.
THEOREM BooksAgree == Spec => []ReconciliationClean
<1>1. IInv => ReconciliationClean
  <2>. SUFFICES ASSUME IInv, NEW o \in Orders
                PROVE  /\ order[o].status = "PAID" =>
                            Issued(o) /\ order[o].payId # None
                       /\ Issued(o) =>
                         /\ subscription[o].owner = order[o].owner
                         /\ subscription[o].amount = order[o].amount
                         /\ subscription[o].payId = order[o].payId
                         /\ subscription[o].refunded = order[o].refunded
                         /\ order[o].status = "PAID"
                              <=> subscription[o].status = "PAID"
                         /\ order[o].status = "CANCELED"
                              <=> subscription[o].status = "REFUNDED"
                         /\ order[o].status = "CANCELED"
                              <=> order[o].refunded >= order[o].amount
    BY DEF ReconciliationClean
  <2>1. /\ OrderInv(o) /\ order[o].status \in OrderStatus
        /\ subscription[o].status \in {"NONE", "PAID", "REFUNDED"}
    BY DEF IInv, TypeOK, OrderRow, SubscriptionRow
  <2>. QED BY <2>1 DEF OrderInv, Issued, OrderStatus
<1>. QED BY <1>1, SpecIInv, PTL

\* Every subscription was paid for, at Toss, by a payment of its own order.
THEOREM IssuedIsCollected == Spec => []IssuedOnlyIfCollected
<1>1. IInv => IssuedOnlyIfCollected
  <2>. SUFFICES ASSUME IInv, NEW o \in Orders, Issued(o)
                PROVE  LET p == subscription[o].payId
                       IN  /\ p \in Payments
                           /\ Approved(p)
                           /\ toss[p].order = o
                           /\ toss[p].amount = order[o].amount
                           /\ \A x \in Orders \ {o} : order[x].payId # p
    BY DEF IssuedOnlyIfCollected
  <2>1. \A x \in Orders : OrderInv(x)
    BY DEF IInv
  <2>2. order[o].payId \in Payments \cup {None}
    BY DEF IInv, TypeOK, OrderRow
  <2>. QED BY <2>1, <2>2 DEF OrderInv
<1>. QED BY <1>1, SpecIInv, PTL

\* The books never show more money returned than Toss returned.
THEOREM RefundsBacked == Spec => []RefundsAreBacked
<1>1. IInv => RefundsAreBacked
  <2>. SUFFICES ASSUME IInv PROVE RefundsAreBacked
    OBVIOUS
  <2>1. ASSUME NEW o \in Orders, Issued(o), PaidOnce(o)
        PROVE  /\ subscription[o].refunded
                    <= toss[subscription[o].payId].cancelled
               /\ subscription[o].status = "REFUNDED" =>
                    toss[subscription[o].payId].status = "CANCELED"
    <3>1. /\ OrderInv(o) /\ BackedInv(o) /\ order[o] \in OrderRow
          /\ subscription[o] \in SubscriptionRow
      BY DEF IInv, TypeOK
    <3>2. PICK p : p = subscription[o].payId
      OBVIOUS
    <3>3. p \in Payments /\ Approved(p) /\ toss[p].amount = order[o].amount
      BY <2>1, <3>1, <3>2 DEF OrderInv, OrderRow
    <3>4. TossInv(p) /\ toss[p] \in TossRow
      BY <3>3 DEF IInv, TypeOK
    <3>5. subscription[o].refunded <= toss[p].cancelled
      BY <2>1, <3>1, <3>2 DEF BackedInv
    <3>6. ASSUME subscription[o].status = "REFUNDED"
          PROVE  toss[p].status = "CANCELED"
      <4>1. order[o].status = "CANCELED"
        BY <2>1, <3>1, <3>6 DEF OrderInv, OrderRow, OrderStatus
      <4>2. subscription[o].refunded >= toss[p].amount
        BY <2>1, <3>1, <3>3, <4>1 DEF OrderInv
      <4>3. toss[p].cancelled = toss[p].amount
        BY <3>1, <3>3, <3>4, <3>5, <4>2 DEF TossInv, TossRow, SubscriptionRow
      <4>. QED BY <3>3, <3>4, <4>3 DEF TossInv
    <3>. QED BY <3>2, <3>5, <3>6
  <2>2. ASSUME NEW x \in refunds PROVE RowInv(x)
    BY DEF IInv
  <2>. QED BY <2>1, <2>2 DEF RefundsAreBacked, RowInv
<1>. QED BY <1>1, SpecIInv, PTL

-----------------------------------------------------------------------------
(* SubscriptionOrders implements SubscriptionLedger *)

\* What Toss does with one payment.
TossMove(p) ==
    \/ \E o \in Orders, a \in Prices : TossOpens(p, o, a)
    \/ TossAborts(p)
    \/ TossCollects(p)
    \/ \E a \in Nat \ {0} : TossReturns(p, a)
    \/ \E o, a : \E s \in {"DONE", "WAITING"} : TossConfirms(p, o, a, s)
    \/ \E a : TossRefunds(p, a)

\* A request calls Toss for its payment.
LEMMA CallsToss ==
    ASSUME IInv, NEW r \in Requests,
           CancelAtToss(r) \/ \E s \in {"DONE", "WAITING"} : ConfirmAtToss(r, s)
    PROVE  UNCHANGED <<order, subscription>> /\ \E p \in Payments : TossMove(p)
<1>1. req[r].pay \in Payments
  BY Zenon DEF ConfirmAtToss, CancelAtToss, IInv, ReqInv, Read, Holds
<1>2. UNCHANGED <<order, subscription>>
  BY Zenon DEF ConfirmAtToss, CancelAtToss
<1>3. TossMove(req[r].pay)
  BY Zenon DEF ConfirmAtToss, CancelAtToss, TossMove
<1>. QED BY Zenon, <1>1, <1>2, <1>3

\* No step changes the rows and the payments together.
LEMMA TossOrRows ==
    ASSUME IInv, Next
    PROVE  \/ UNCHANGED toss
           \/ UNCHANGED <<order, subscription>> /\ \E p \in Payments : TossMove(p)
<1>1. ASSUME NEW r \in Requests, Checkout(r) PROVE UNCHANGED toss
  BY Zenon, <1>1 DEF Checkout, CheckoutRead, CheckoutCreate
<1>2. ASSUME NEW r \in Requests, Verify(r)
      PROVE  \/ UNCHANGED toss
             \/ \E s \in {"DONE", "WAITING"} : ConfirmAtToss(r, s)
  BY Zenon, <1>2 DEF Verify, VerifyStart, ConfirmReplayed, ConfirmRejected, VerifyFinalize
<1>3. ASSUME NEW r \in Requests, Sync(r) PROVE UNCHANGED toss
  BY Zenon, <1>3 DEF Sync, WebhookStart, ReconcileStart, HookGetPayment, HookPaid,
     HookReadSubscription, HookClaim, HookVoid, HookFail
<1>4. ASSUME NEW r \in Requests, Refund(r) PROVE UNCHANGED toss \/ CancelAtToss(r)
  BY Zenon, <1>4 DEF Refund, RefundStart, RefundGetPayment, CancelReplayed,
     CancelRejected, ApplyRefund
<1>5. ASSUME NEW p \in Payments, NEW a \in 1 .. toss[p].amount, CancelledOutside(p, a)
      PROVE  UNCHANGED <<order, subscription>> /\ TossMove(p)
  <2>1. a \in Nat \ {0}
    BY DEF IInv, TypeOK, TossRow
  <2>. QED BY Zenon, <1>5, <2>1 DEF CancelledOutside, TossMove
<1>6. ASSUME Environment
      PROVE  \/ UNCHANGED toss
             \/ UNCHANGED <<order, subscription>> /\ \E p \in Payments : TossMove(p)
  BY Zenon, <1>5, <1>6 DEF Environment, OrderExpires, SubscriptionEnds, OpenPayment,
     PaymentAborted, DepositArrives, RequestDies, TossMove
<1>. QED BY Zenon, <1>1, <1>2, <1>3, <1>4, <1>6, CallsToss DEF Next

\* What the branch of a webhook was chosen on: the end a payment has come to,
\* which it does not leave.
SeenInv(r) ==
    /\ req[r].pc = "hook_fail" => toss[req[r].pay].status = "ABORTED"
    /\ req[r].pc \in {"hook_sub", "hook_void"} /\ req[r].status # "paid" =>
         /\ toss[req[r].pay].status = "CANCELED"
         /\ req[r].cancelled = toss[req[r].pay].amount
    /\ req[r].pc = "hook_void" => req[r].status # "paid"
    /\ req[r].pc = "hook_claim" => req[r].status = "paid"

\* A payment is opened at the price of a plan.
PriceInv(p) == toss[p].status # "NONE" => toss[p].amount \in Prices

\* What the refinement needs beyond IInv.
LedgerInv == /\ \A r \in Requests : SeenInv(r)
             /\ \A p \in Payments : PriceInv(p)

\* A payment that was aborted or cancelled does not change any more.
LEMMA TossEnds ==
    ASSUME IInv, NEW p \in Payments, TossMove(p), NEW q \in Payments,
           toss[q].status \in {"ABORTED", "CANCELED"}
    PROVE  toss'[q] = toss[q]
<1>1. toss \in [Payments -> TossRow]
  BY DEF IInv, TypeOK
<1>2. CASE \E o \in Orders, a \in Prices : TossOpens(p, o, a)
  BY <1>1, <1>2 DEF TossOpens
<1>3. CASE TossAborts(p) \/ TossCollects(p)
  BY <1>1, <1>3 DEF TossAborts, TossCollects
<1>4. CASE \E a \in Nat \ {0} : TossReturns(p, a)
  BY <1>1, <1>4 DEF TossReturns
<1>5. CASE \E o, a : \E s \in {"DONE", "WAITING"} : TossConfirms(p, o, a, s)
  BY <1>1, <1>5 DEF TossConfirms
<1>6. CASE \E a : TossRefunds(p, a)
  BY <1>1, <1>6 DEF TossRefunds
<1>. QED BY Zenon, <1>2, <1>3, <1>4, <1>5, <1>6 DEF TossMove

\* Every payment keeps its price.
LEMMA TossPrices ==
    ASSUME IInv, NEW p \in Payments, TossMove(p), \A q \in Payments : PriceInv(q)
    PROVE  \A q \in Payments : PriceInv(q)'
<1>. SUFFICES ASSUME NEW q \in Payments PROVE PriceInv(q)'
  OBVIOUS
<1>1. toss \in [Payments -> TossRow] /\ PriceInv(q)
  BY DEF IInv, TypeOK
<1>2. CASE \E o \in Orders, a \in Prices : TossOpens(p, o, a)
  BY <1>1, <1>2 DEF PriceInv, TossOpens, Unopened
<1>3. ASSUME ~\E o \in Orders, a \in Prices : TossOpens(p, o, a)
      PROVE  toss'[q].amount = toss[q].amount /\ (toss[q].status = "NONE" => toss'[q].status = "NONE")
  <2>1. CASE TossAborts(p) \/ TossCollects(p)
    BY <1>1, <2>1 DEF TossAborts, TossCollects, TossRow
  <2>2. CASE \E a \in Nat \ {0} : TossReturns(p, a)
    BY <1>1, <2>2 DEF TossReturns, TossRow
  <2>3. CASE \E o, a : \E s \in {"DONE", "WAITING"} : TossConfirms(p, o, a, s)
    BY <1>1, <2>3 DEF TossConfirms, TossRow
  <2>4. CASE \E a : TossRefunds(p, a)
    BY <1>1, <2>4 DEF TossRefunds, TossRow
  <2>. QED BY <1>3, <2>1, <2>2, <2>3, <2>4 DEF TossMove
<1>. QED BY <1>1, <1>2, <1>3 DEF PriceInv

\* The branches of a webhook that were chosen on the state of the payment.
Chosen == {"hook_fail", "hook_sub", "hook_void", "hook_claim"}

\* A request that did not move may still rely on what it saw.
LEMMA SeenStays ==
    ASSUME IInv, NEW q \in Requests, SeenInv(q), req'[q] = req[q],
           \/ UNCHANGED toss
           \/ \E p \in Payments : TossMove(p)
    PROVE  SeenInv(q)'
<1>1. CASE UNCHANGED toss
  BY <1>1 DEF SeenInv
<1>2. CASE \E p \in Payments : TossMove(p)
  <2>1. req[q].pc \in {"hook_fail", "hook_sub", "hook_void"} => req[q].pay \in Payments
    BY DEF IInv, ReqInv, Read, Holds
  <2>2. req[q].pay \in Payments /\ toss[req[q].pay].status \in {"ABORTED", "CANCELED"}
          => toss'[req[q].pay] = toss[req[q].pay]
    BY <1>2, TossEnds
  <2>. QED BY <2>1, <2>2 DEF SeenInv
<1>. QED BY <1>1, <1>2

\* Only request r moved, to none of these branches.
Elsewhere(r) == /\ req'[r].pc \notin Chosen
                /\ \A q \in Requests \ {r} : req'[q] = req[q]

\* The forms in which the handlers write req when they go elsewhere.
LEMMA ElsewhereForms ==
    ASSUME TypeOK, NEW r \in Requests
    PROVE  /\ Done(r) => Elsewhere(r)
           /\ \A c : Goto(r, c) /\ c \notin Chosen => Elsewhere(r)
           /\ \A v : req' = [req EXCEPT ![r] = v] /\ v.pc \notin Chosen => Elsewhere(r)
           /\ \A c, a, b : req' = [req EXCEPT ![r].pc = c, ![r].status = a,
                                              ![r].cancelled = b]
                           /\ c \notin Chosen => Elsewhere(r)
<1>1. req \in [Requests -> Request]
  BY DEF TypeOK
<1>2. Done(r) => Elsewhere(r)
  BY <1>1 DEF Done, Elsewhere, Chosen, Idle
<1>3. ASSUME NEW c, Goto(r, c), c \notin Chosen PROVE Elsewhere(r)
  BY <1>1, <1>3 DEF Goto, Elsewhere, Request
<1>4. ASSUME NEW v, req' = [req EXCEPT ![r] = v], v.pc \notin Chosen PROVE Elsewhere(r)
  BY <1>1, <1>4 DEF Elsewhere
<1>5. ASSUME NEW c, NEW a, NEW b, c \notin Chosen,
             req' = [req EXCEPT ![r].pc = c, ![r].status = a, ![r].cancelled = b]
      PROVE  Elsewhere(r)
  BY <1>1, <1>5 DEF Elsewhere, Request
<1>. QED BY Zenon, <1>2, <1>3, <1>4, <1>5

\* At most one request moves, and if it then follows such a branch it is a
\* webhook that read the payment or the subscription, or has claimed the order.
LEMMA WhoMoves ==
    ASSUME IInv, Next
    PROVE  \/ UNCHANGED req
           \/ \E r \in Requests : Elsewhere(r) \/ HookGetPayment(r)
                                    \/ HookReadSubscription(r) \/ HookClaim(r)
<1>1. TypeOK
  BY DEF IInv
<1>2. ASSUME NEW r \in Requests, Checkout(r) PROVE Elsewhere(r)
  <2>1. ASSUME NEW u \in Users, NEW o \in Orders, CheckoutRead(r, u, o) PROVE Elsewhere(r)
    <3>1. [Idle EXCEPT !.pc = "create", !.user = u, !.order = o].pc \notin Chosen
      BY DEF Idle, Chosen
    <3>. QED BY Zenon, <1>1, <2>1, <3>1, ElsewhereForms DEF CheckoutRead
  <2>. QED BY Zenon, <1>1, <1>2, <2>1, ElsewhereForms DEF Checkout, CheckoutCreate
<1>3. ASSUME NEW r \in Requests, Verify(r) PROVE Elsewhere(r)
  <2>1. ASSUME NEW o \in Orders, NEW p \in Payments, VerifyStart(r, o, p) PROVE Elsewhere(r)
    <3>1. [Idle EXCEPT !.pc = "confirm", !.order = o, !.pay = p].pc \notin Chosen
      BY DEF Idle, Chosen
    <3>. QED BY Zenon, <1>1, <2>1, <3>1, ElsewhereForms DEF VerifyStart
  <2>2. "finalize" \notin Chosen
    BY DEF Chosen
  <2>3. ASSUME Done(r) \/ Goto(r, "finalize") PROVE Elsewhere(r)
    BY Zenon, <1>1, <2>2, <2>3, ElsewhereForms
  <2>. QED BY Zenon, <1>3, <2>1, <2>3 DEF Verify, ConfirmAtToss, ConfirmReplayed,
              ConfirmRejected, VerifyFinalize
<1>4. ASSUME NEW r \in Requests, Sync(r)
      PROVE  Elsewhere(r) \/ HookGetPayment(r) \/ HookReadSubscription(r) \/ HookClaim(r)
  <2>1. ASSUME NEW p \in Payments, SyncStart(r, p) PROVE Elsewhere(r)
    <3>. DEFINE v == [Idle EXCEPT !.pc = "hook_get", !.order = toss[p].order, !.pay = p,
                                  !.seen = order[toss[p].order].refunded,
                                  !.bound = order[toss[p].order].payId]
    <3>1. v.pc \notin Chosen
      BY DEF Idle, Chosen
    <3>2. req' = [req EXCEPT ![r] = v]
      BY Zenon, <2>1 DEF SyncStart
    <3>. QED BY Zenon, <1>1, <3>1, <3>2, ElsewhereForms
  <2>. QED BY Zenon, <1>1, <1>4, <2>1, ElsewhereForms DEF Sync, WebhookStart,
              ReconcileStart, HookPaid, HookVoid, HookFail
<1>5. ASSUME NEW r \in Requests, Refund(r) PROVE Elsewhere(r)
  <2>1. ASSUME NEW o \in Orders, RefundStart(r, o) PROVE Elsewhere(r)
    <3>. DEFINE v == [Idle EXCEPT !.pc = "refund_get", !.order = o,
                                  !.pay = subscription[o].payId,
                                  !.seen = Larger(order[o].refunded, subscription[o].refunded),
                                  !.bound = order[o].payId]
    <3>1. v.pc \notin Chosen
      BY DEF Idle, Chosen
    <3>2. req' = [req EXCEPT ![r] = v]
      BY Zenon, <2>1 DEF RefundStart
    <3>. QED BY Zenon, <1>1, <3>1, <3>2, ElsewhereForms
  <2>2. "apply" \notin Chosen /\ "refund_cancel" \notin Chosen
    BY DEF Chosen
  <2>3. ASSUME RefundGetPayment(r) PROVE Elsewhere(r)
    <3>1. PICK c : \/ Done(r)
                   \/ /\ c \in {"apply", "refund_cancel"}
                      /\ req' = [req EXCEPT ![r].pc = c,
                                            ![r].status = MapStatus(toss[req[r].pay].status),
                                            ![r].cancelled = toss[req[r].pay].cancelled]
      <4>1. (IF order[req[r].order].amount - toss[req[r].pay].cancelled > 0
               THEN "refund_cancel" ELSE "apply") \in {"apply", "refund_cancel"}
        OBVIOUS
      <4>. QED BY Zenon, <2>3, <4>1 DEF RefundGetPayment
    <3>2. c \in {"apply", "refund_cancel"} => c \notin Chosen
      BY DEF Chosen
    <3>. QED BY Zenon, <1>1, <3>1, <3>2, ElsewhereForms
  <2>4. ASSUME CancelAtToss(r) \/ CancelReplayed(r) PROVE Elsewhere(r)
    BY Zenon, <1>1, <2>2, <2>4, ElsewhereForms DEF CancelAtToss, CancelReplayed
  <2>. QED BY Zenon, <1>1, <1>5, <2>1, <2>3, <2>4, ElsewhereForms DEF Refund,
              CancelRejected, ApplyRefund
<1>6. ASSUME Environment PROVE UNCHANGED req \/ \E r \in Requests : Elsewhere(r)
  BY Zenon, <1>1, <1>6, ElsewhereForms DEF Environment, OrderExpires, SubscriptionEnds,
     OpenPayment, PaymentAborted, DepositArrives, CancelledOutside, RequestDies
<1>. QED BY Zenon, <1>2, <1>3, <1>4, <1>5, <1>6 DEF Next

\* The branch of a webhook is chosen on the state of the payment.
LEMMA SeenMoves ==
    ASSUME IInv, NEW r \in Requests, SeenInv(r),
           HookGetPayment(r) \/ HookReadSubscription(r) \/ HookClaim(r)
    PROVE  SeenInv(r)' /\ \A q \in Requests \ {r} : req'[q] = req[q]
<1>1. TypeOK /\ req \in [Requests -> Request] /\ UNCHANGED toss
  <2>1. UNCHANGED toss
    BY Zenon DEF HookGetPayment, HookReadSubscription, HookClaim
  <2>. QED BY <2>1 DEF IInv, TypeOK
<1>2. ASSUME Elsewhere(r)
      PROVE  SeenInv(r)' /\ \A q \in Requests \ {r} : req'[q] = req[q]
  BY Zenon, <1>2 DEF Elsewhere, SeenInv, Chosen
<1>3. CASE HookGetPayment(r)
  <2>1. PICK p \in Payments : p = req[r].pay
    BY Zenon, <1>3 DEF HookGetPayment, IInv, ReqInv, Holds
  <2>2. TossInv(p) /\ toss[p] \in TossRow
    BY <1>1 DEF IInv, TypeOK
  <2>3. PICK c : \/ Done(r)
                 \/ /\ req' = [req EXCEPT ![r].pc = c, ![r].status = MapStatus(toss[p].status),
                                          ![r].cancelled = toss[p].cancelled]
                    /\ \/ c = "hook_sub" /\ (toss[p].cancelled > 0
                                             \/ MapStatus(toss[p].status) = "cancelled")
                       \/ c = "hook_paid"
                       \/ c = "hook_fail" /\ MapStatus(toss[p].status) = "failed"
    <3>. DEFINE s == MapStatus(toss[p].status)
                branch == CASE toss[p].cancelled > 0 \/ s = "cancelled" -> "hook_sub"
                            [] toss[p].cancelled = 0 /\ s = "paid" -> "hook_paid"
                            [] toss[p].cancelled = 0 /\ s = "failed" -> "hook_fail"
                            [] OTHER -> "idle"
    <3>1. \/ branch = "hook_sub" /\ (toss[p].cancelled > 0 \/ s = "cancelled")
          \/ branch = "hook_paid"
          \/ branch = "hook_fail" /\ s = "failed"
          \/ branch = "idle"
      OBVIOUS
    <3>2. \/ Done(r)
          \/ branch # "idle" /\ req' = [req EXCEPT ![r].pc = branch, ![r].status = s,
                                                   ![r].cancelled = toss[p].cancelled]
      BY Zenon, <1>3, <2>1 DEF HookGetPayment
    <3>. HIDE DEF branch, s
    <3>3. \/ Done(r)
          \/ /\ req' = [req EXCEPT ![r].pc = branch, ![r].status = s,
                                   ![r].cancelled = toss[p].cancelled]
             /\ \/ branch = "hook_sub" /\ (toss[p].cancelled > 0 \/ s = "cancelled")
                \/ branch = "hook_paid"
                \/ branch = "hook_fail" /\ s = "failed"
      BY Zenon, <3>1, <3>2
    <3>. QED BY Zenon, <3>3 DEF s
  <2>4. CASE Done(r)
    BY Zenon, <1>1, <1>2, <2>4, ElsewhereForms
  <2>5. CASE ~Done(r)
    <3>1. /\ req'[r].pc = c /\ req'[r].pay = p
          /\ req'[r].status = MapStatus(toss[p].status)
          /\ req'[r].cancelled = toss[p].cancelled
          /\ \A q \in Requests \ {r} : req'[q] = req[q]
      BY <1>1, <2>1, <2>3, <2>5 DEF Request
    <3>2. /\ c = "hook_fail" => toss[p].status = "ABORTED"
          /\ c = "hook_sub" /\ MapStatus(toss[p].status) # "paid" =>
               toss[p].status = "CANCELED" /\ toss[p].cancelled = toss[p].amount
          /\ c \notin {"hook_void", "hook_claim"}
      BY <2>2, <2>3, <2>5 DEF MapStatus, TossRow, TossStatus, TossInv, Approved
    <3>. QED BY <1>1, <3>1, <3>2 DEF SeenInv
  <2>. QED BY <2>4, <2>5
<1>4. ASSUME NEW c, req' = [req EXCEPT ![r].pc = c],
             c = "hook_claim" => req[r].status = "paid",
             c = "hook_void" => req[r].status # "paid" /\ req[r].pc = "hook_sub",
             c = "hook_sub" => req[r].status = "paid",
             c \in {"hook_claim", "hook_void", "hook_sub"}
      PROVE  SeenInv(r)' /\ \A q \in Requests \ {r} : req'[q] = req[q]
  <2>1. /\ req'[r].pc = c /\ req'[r].pay = req[r].pay
        /\ req'[r].status = req[r].status
        /\ req'[r].cancelled = req[r].cancelled
        /\ \A q \in Requests \ {r} : req'[q] = req[q]
    BY <1>1, <1>4 DEF Request
  <2>. QED BY <1>1, <1>4, <2>1 DEF SeenInv
<1>5. CASE HookReadSubscription(r)
  <2>1. CASE Issued(req[r].order)
    <3>1. PICK n : req' = [req EXCEPT ![r].pc = "apply", ![r].seen = n]
      BY <1>1, <1>5, <2>1 DEF HookReadSubscription
    <3>2. Elsewhere(r)
      BY <1>1, <3>1 DEF Elsewhere, Chosen, Request
    <3>. QED BY <1>2, <3>2
  <2>2. CASE ~Issued(req[r].order)
    <3>1. /\ req[r].pc = "hook_sub"
          /\ Goto(r, IF req[r].status = "paid" THEN "hook_claim" ELSE "hook_void")
      BY Zenon, <1>5, <2>2 DEF HookReadSubscription
    <3>. QED BY <1>4, <3>1 DEF Goto
  <2>. QED BY <2>1, <2>2
<1>6. CASE HookClaim(r)
  <2>1. req[r].status = "paid" /\ (Done(r) \/ Goto(r, "hook_sub"))
    BY Zenon, <1>6 DEF HookClaim, SeenInv
  <2>2. CASE Goto(r, "hook_sub")
    BY <1>4, <2>1, <2>2 DEF Goto
  <2>. QED BY Zenon, <1>1, <1>2, <2>1, <2>2, ElsewhereForms
<1>. QED BY Zenon, <1>3, <1>5, <1>6

\* LedgerInv is inductive together with IInv.
THEOREM NextLedgerInv == IInv /\ LedgerInv /\ [Next]_vars => LedgerInv'
<1>. SUFFICES ASSUME IInv, LedgerInv, [Next]_vars PROVE LedgerInv'
  OBVIOUS
<1>1. CASE UNCHANGED vars
  BY <1>1 DEF LedgerInv, SeenInv, PriceInv, vars
<1>2. CASE Next
  <2>1. \/ UNCHANGED toss
        \/ \E p \in Payments : TossMove(p)
    BY Zenon, <1>2, TossOrRows
  <2>2. \A p \in Payments : PriceInv(p)'
    <3>1. UNCHANGED toss => \A p \in Payments : PriceInv(p)'
      BY DEF LedgerInv, PriceInv
    <3>. QED BY Zenon, <2>1, <3>1, TossPrices DEF LedgerInv
  <2>3. \A q \in Requests : SeenInv(q)
    BY DEF LedgerInv
  <2>4. \A q \in Requests : req'[q] = req[q] => SeenInv(q)'
    BY Zenon, <2>1, <2>3, SeenStays
  <2>5. ASSUME NEW r \in Requests, Elsewhere(r) PROVE \A q \in Requests : SeenInv(q)'
    <3>1. SeenInv(r)'
      BY Zenon, <2>5 DEF Elsewhere, SeenInv, Chosen
    <3>. QED BY Zenon, <2>4, <2>5, <3>1 DEF Elsewhere
  <2>6. ASSUME NEW r \in Requests,
               HookGetPayment(r) \/ HookReadSubscription(r) \/ HookClaim(r)
        PROVE  \A q \in Requests : SeenInv(q)'
    BY Zenon, <2>3, <2>4, <2>6, SeenMoves
  <2>7. UNCHANGED req => \A q \in Requests : SeenInv(q)'
    BY <2>4
  <2>8. \A q \in Requests : SeenInv(q)'
    BY Zenon, <1>2, <2>5, <2>6, <2>7, WhoMoves
  <2>. QED BY <2>2, <2>8 DEF LedgerInv
<1>. QED BY <1>1, <1>2

\* ... so it holds throughout.
THEOREM SpecLedgerInv == Spec => []LedgerInv
<1>1. Init => LedgerInv
  BY DEF Init, LedgerInv, SeenInv, PriceInv, Idle, Unopened
<1>. QED BY <1>1, NextLedgerInv, SpecIInv, PTL DEF Spec

\* The book of an order, which is its row once the two tables agree.
Row(o) == [status |-> order[o].status, owner |-> order[o].owner,
           amount |-> order[o].amount, payId |-> order[o].payId,
           refunded |-> order[o].refunded, issued |-> Issued(o)]

\* The two tables agree so far that the order's row says it all.
BooksOfRows == Books = [o \in Orders |-> Row(o)]

\* ... which they do under the inductive invariant.
LEMMA BooksAreRows == IInv => BooksOfRows
<1>. SUFFICES ASSUME IInv, NEW o \in Orders PROVE BookRow(o) = Row(o)
  BY DEF Books, BooksOfRows
<1>1. OrderInv(o) /\ order[o] \in OrderRow /\ subscription[o] \in SubscriptionRow
  BY DEF IInv, TypeOK
<1>2. CASE ~Issued(o)
  BY <1>2 DEF BookRow, Row, Issued
<1>3. CASE Issued(o)
  <2>1. /\ subscription[o].owner = order[o].owner
        /\ subscription[o].amount = order[o].amount
        /\ subscription[o].payId = order[o].payId
        /\ subscription[o].refunded = order[o].refunded
    BY <1>1, <1>3 DEF OrderInv
  <2>2. order[o].status = IF subscription[o].status = "PAID" THEN "PAID" ELSE "CANCELED"
    BY <1>1, <1>3 DEF OrderInv, OrderRow, OrderStatus
  <2>. QED BY <1>3, <2>1, <2>2 DEF BookRow, Row
<1>. QED BY <1>2, <1>3

\* ... and so they do after the step.
LEMMA NextBooksAreRows == (IInv => BooksOfRows)'
BY BooksAreRows, PTL

\* The books after a step that wrote the rows of one order at most.
LEMMA OneRow ==
    ASSUME IInv, IInv', NEW o \in Orders,
           \A x \in Orders \ {o} : order'[x] = order[x] /\ subscription'[x] = subscription[x]
    PROVE  Books' = [Books EXCEPT ![o] = Row(o)']
<1>1. Books = [x \in Orders |-> Row(x)]
  BY BooksAreRows DEF BooksOfRows
<1>2. Books' = [x \in Orders |-> Row(x)']
  BY NextBooksAreRows DEF BooksOfRows
<1>3. \A x \in Orders \ {o} : Row(x)' = Row(x)
  BY DEF Row, Issued
<1>. QED BY <1>1, <1>2, <1>3

\* The books where the two tables did not change what they say.
LEMMA SameRows ==
    ASSUME IInv, IInv', \A o \in Orders : Row(o)' = Row(o)
    PROVE  Books' = Books
<1>1. Books = [x \in Orders |-> Row(x)]
  BY BooksAreRows DEF BooksOfRows
<1>2. Books' = [x \in Orders |-> Row(x)']
  BY NextBooksAreRows DEF BooksOfRows
<1>. QED BY <1>1, <1>2

\* The money where Toss did not move.
LEMMA SameMoney == ASSUME UNCHANGED toss PROVE Money' = Money
BY DEF Money, MoneyOf, Approved

\* The money after Toss moved one payment.
LEMMA OneKey ==
    ASSUME NEW p \in Payments, \A q \in Payments \ {p} : toss'[q] = toss[q]
    PROVE  Money' = [Money EXCEPT ![p] = MoneyOf(p)']
BY DEF Money, MoneyOf, Approved

\* What Toss does collects once under a key, and then returns more of it.
LEMMA TossKeepsLedger ==
    ASSUME IInv, LedgerInv, NEW p \in Payments, TossMove(p)
    PROVE  Money' = Money \/ (UNCHANGED Books => Ledger!MoneyMoves)
<1>1. toss \in [Payments -> TossRow] /\ toss[p] \in TossRow /\ TossInv(p) /\ PriceInv(p)
  BY DEF IInv, TypeOK, LedgerInv
<1>2. Money[p] = MoneyOf(p)
  BY DEF Money
<1>3. ASSUME \A q \in Payments \ {p} : toss'[q] = toss[q], MoneyOf(p)' = MoneyOf(p)
      PROVE  Money' = Money
  BY <1>2, <1>3, OneKey DEF Money
<1>4. ASSUME \A q \in Payments \ {p} : toss'[q] = toss[q], UNCHANGED Books,
             toss[p].status \in {"READY", "WAITING"}, toss'[p].status = "DONE",
             toss'[p].order = toss[p].order, toss'[p].amount = toss[p].amount,
             toss'[p].cancelled = toss[p].cancelled
      PROVE  Ledger!MoneyMoves
  <2>1. toss[p].order \in Orders /\ toss[p].amount \in Prices /\ toss[p].cancelled = 0
    BY <1>1, <1>4 DEF TossInv, PriceInv, Approved
  <2>2. Money[p] = Ledger!Nothing
    BY <1>2, <1>4, <2>1 DEF MoneyOf, Approved, Ledger!Nothing
  <2>3. MoneyOf(p)' = [order |-> toss[p].order, amount |-> toss[p].amount, returned |-> 0]
    BY <1>4, <2>1 DEF MoneyOf, Approved
  <2>4. Ledger!Collect(p, toss[p].order, toss[p].amount)
    BY <1>4, <2>2, <2>3, OneKey DEF Ledger!Collect
  <2>. QED BY <2>1, <2>4 DEF Ledger!MoneyMoves
<1>5. ASSUME \A q \in Payments \ {p} : toss'[q] = toss[q], UNCHANGED Books,
             Approved(p), Approved(p)',
             toss'[p].order = toss[p].order, toss'[p].amount = toss[p].amount,
             NEW n \in Nat, toss'[p].cancelled = n, n > toss[p].cancelled, n <= toss[p].amount
      PROVE  Ledger!MoneyMoves
  <2>1. Money[p] = [order |-> toss[p].order, amount |-> toss[p].amount,
                    returned |-> toss[p].cancelled]
    BY <1>2, <1>5 DEF MoneyOf
  <2>2. MoneyOf(p)' = [order |-> toss[p].order, amount |-> toss[p].amount, returned |-> n]
    BY <1>5 DEF MoneyOf
  <2>3. Money' = [Money EXCEPT ![p].returned = n]
    <3>1. MoneyOf(p)' = [Money[p] EXCEPT !.returned = n]
      BY <2>1, <2>2
    <3>. QED BY <1>5, <3>1, OneKey
  <2>4. Ledger!Return(p, n)
    BY <1>1, <1>5, <2>1, <2>3 DEF Ledger!Return, TossRow
  <2>5. n \in 1 .. Money[p].amount
    BY <1>1, <1>5, <2>1 DEF TossRow
  <2>. QED BY <2>4, <2>5 DEF Ledger!MoneyMoves
<1>6. CASE \E o \in Orders, a \in Prices : TossOpens(p, o, a)
  <2>1. /\ \A q \in Payments \ {p} : toss'[q] = toss[q]
        /\ toss[p].status = "NONE"
        /\ toss'[p].status = "READY" /\ toss'[p].cancelled = 0
    BY <1>1, <1>6 DEF TossOpens, Unopened
  <2>. QED BY <1>1, <1>3, <2>1 DEF TossInv, MoneyOf, Approved
<1>7. CASE TossAborts(p)
  <2>1. /\ \A q \in Payments \ {p} : toss'[q] = toss[q]
        /\ toss[p].status \in {"READY", "WAITING"}
        /\ toss'[p].status = "ABORTED" /\ toss'[p].cancelled = toss[p].cancelled
    BY <1>1, <1>7 DEF TossAborts, TossRow
  <2>. QED BY <1>3, <2>1 DEF MoneyOf, Approved
<1>8. CASE TossCollects(p)
  <2>1. /\ \A q \in Payments \ {p} : toss'[q] = toss[q]
        /\ toss[p].status = "WAITING" /\ toss'[p].status = "DONE"
        /\ toss'[p].order = toss[p].order /\ toss'[p].amount = toss[p].amount
        /\ toss'[p].cancelled = toss[p].cancelled
    BY <1>1, <1>8 DEF TossCollects, TossRow
  <2>. QED BY <1>4, <2>1
<1>9. ASSUME NEW a \in Nat \ {0}, TossReturns(p, a)
      PROVE  UNCHANGED Books => Ledger!MoneyMoves
  <2>1. /\ \A q \in Payments \ {p} : toss'[q] = toss[q]
        /\ toss[p].status \in {"DONE", "PARTIAL_CANCELED"}
        /\ toss'[p].status \in {"CANCELED", "PARTIAL_CANCELED"}
        /\ toss'[p].order = toss[p].order /\ toss'[p].amount = toss[p].amount
        /\ toss'[p].cancelled = toss[p].cancelled + a
        /\ toss[p].cancelled + a <= toss[p].amount
    BY <1>1, <1>9 DEF TossReturns, TossRow
  <2>2. toss[p].cancelled + a \in Nat /\ toss[p].cancelled + a > toss[p].cancelled
    BY <1>1 DEF TossRow
  <2>3. Approved(p) /\ Approved(p)'
    BY <2>1 DEF Approved
  <2>. QED BY <1>5, <2>1, <2>2, <2>3
<1>10. ASSUME NEW o, NEW a, NEW s \in {"DONE", "WAITING"}, TossConfirms(p, o, a, s)
       PROVE  Money' = Money \/ (UNCHANGED Books => Ledger!MoneyMoves)
  <2>1. /\ \A q \in Payments \ {p} : toss'[q] = toss[q]
        /\ toss[p].status = "READY" /\ toss'[p].status = s
        /\ toss'[p].order = toss[p].order /\ toss'[p].amount = toss[p].amount
        /\ toss'[p].cancelled = toss[p].cancelled
    BY <1>1, <1>10 DEF TossConfirms, TossRow
  <2>2. CASE s = "DONE"
    BY <1>4, <2>1, <2>2
  <2>3. CASE s = "WAITING"
    BY <1>3, <2>1, <2>3 DEF MoneyOf, Approved
  <2>. QED BY <2>2, <2>3
<1>11. ASSUME NEW a, TossRefunds(p, a)
       PROVE  UNCHANGED Books => Ledger!MoneyMoves
  <2>1. /\ \A q \in Payments \ {p} : toss'[q] = toss[q]
        /\ toss[p].status \in {"DONE", "PARTIAL_CANCELED"}
        /\ toss'[p].status = "CANCELED"
        /\ toss'[p].order = toss[p].order /\ toss'[p].amount = toss[p].amount
        /\ toss'[p].cancelled = toss[p].amount
    BY <1>1, <1>11 DEF TossRefunds, TossRow
  <2>2. toss[p].amount \in Nat /\ toss[p].amount > toss[p].cancelled
    BY <1>1, <2>1 DEF TossRow, TossInv, Approved
  <2>3. Approved(p) /\ Approved(p)'
    BY <2>1 DEF Approved
  <2>. QED BY <1>5, <2>1, <2>2, <2>3
<1>. QED BY Zenon, <1>6, <1>7, <1>8, <1>9, <1>10, <1>11 DEF TossMove

\* What the books say of an order, by fields.
LEMMA BookFields ==
    ASSUME IInv, NEW o \in Orders
    PROVE  /\ Books[o].status = order[o].status /\ Books[o].owner = order[o].owner
           /\ Books[o].amount = order[o].amount /\ Books[o].payId = order[o].payId
           /\ Books[o].issued = Issued(o)
BY BooksAreRows DEF BooksOfRows, Row

\* Nothing of a PENDING order was refunded or issued.
LEMMA PendingRow ==
    ASSUME IInv, NEW o \in Orders, order[o].status = "PENDING"
    PROVE  order[o].refunded = 0 /\ Issued(o) = FALSE
<1>1. OrderInv(o)
  BY DEF IInv
<1>. QED BY <1>1 DEF OrderInv, Issued

\* The key the code finds unused is used by no book.
LEMMA UnusedKey ==
    ASSUME IInv, NEW o \in Orders, NEW p \in Payments, ~UsedElsewhere(o, p)
    PROVE  Ledger!Unclaimed(p, o)
<1>1. \A x \in Orders : Books[x].payId = order[x].payId
  BY BooksAreRows DEF BooksOfRows, Row
<1>. QED BY Zenon, <1>1 DEF UsedElsewhere, Ledger!Unclaimed

\* The money the provider collected for an order, seen from its row.
LEMMA PriceCollected ==
    ASSUME IInv, NEW o \in Orders, NEW p \in Payments, Approved(p),
           toss[p].order = o, toss[p].amount = order[o].amount
    PROVE  /\ Ledger!Collected(p, o)
           /\ Money[p] = [order |-> o, amount |-> order[o].amount,
                          returned |-> toss[p].cancelled]
<1>1. Books[o].amount = order[o].amount
  BY BooksAreRows DEF BooksOfRows, Row
<1>2. Money[p] = [order |-> o, amount |-> order[o].amount, returned |-> toss[p].cancelled]
  BY DEF Money, MoneyOf
<1>. QED BY <1>1, <1>2 DEF Ledger!Collected

\* finalizePaidOrder sells the order, or writes nothing.
LEMMA FinalizeSells ==
    ASSUME IInv, IInv', NEW o \in Orders, NEW p \in Payments, FinalizePaidOrder(o, p),
           UNCHANGED toss, Approved(p), toss[p].order = o,
           toss[p].amount = order[o].amount
    PROVE  Books' = Books \/ Ledger!Sell(o, p)
<1>1. CASE UNCHANGED <<order, subscription>>
  BY <1>1, SameRows DEF Row, Issued
<1>2. CASE order[o].status = "PENDING" /\ ~UsedElsewhere(o, p)
  <2>1. TypeOK
    BY DEF IInv
  <2>2. /\ order' = [order EXCEPT ![o].status = "PAID", ![o].payId = p]
        /\ subscription' = [subscription EXCEPT ![o] =
              [AbsentSubscription EXCEPT !.status = "PAID", !.owner = order[o].owner,
                                         !.amount = order[o].amount, !.payId = p]]
    BY Zenon, <1>2 DEF FinalizePaidOrder
  <2>3. /\ \A x \in Orders \ {o} : order'[x] = order[x]
        /\ order'[o].status = "PAID" /\ order'[o].payId = p
        /\ order'[o].owner = order[o].owner /\ order'[o].amount = order[o].amount
        /\ order'[o].refunded = order[o].refunded
    BY <2>1, <2>2 DEF TypeOK, OrderRow
  <2>4. /\ \A x \in Orders \ {o} : subscription'[x] = subscription[x]
        /\ subscription'[o].status = "PAID"
    BY <2>1, <2>2 DEF TypeOK, AbsentSubscription
  <2>5. Books' = [Books EXCEPT ![o] = Row(o)']
    BY <2>3, <2>4, OneRow
  <2>6. Issued(o)' = TRUE
    BY <2>4 DEF Issued
  <2>7. Row(o)' = [status |-> "PAID", owner |-> Books[o].owner, amount |-> Books[o].amount,
                   payId |-> p, refunded |-> 0, issued |-> TRUE]
    <3>1. order[o].refunded = 0
      BY Zenon, <1>2, PendingRow
    <3>2. Books[o].owner = order[o].owner /\ Books[o].amount = order[o].amount
      BY Zenon, BookFields
    <3>. QED BY <2>3, <2>6, <3>1, <3>2 DEF Row
  <2>8. Ledger!Write(o, "PAID", p, 0, TRUE)
    BY Zenon, <2>5, <2>7, SameMoney DEF Ledger!Write
  <2>9. Books[o].status = "PENDING"
    BY Zenon, <1>2, BookFields
  <2>. QED BY Zenon, <1>2, <2>8, <2>9, UnusedKey, PriceCollected DEF Ledger!Sell
<1>. QED BY Zenon, <1>1, <1>2 DEF FinalizePaidOrder

\* What a request that writes the rows holds.
LEMMA HeldPayment ==
    ASSUME IInv, NEW r \in Requests,
           req[r].pc \in {"finalize", "hook_paid", "hook_claim", "hook_void", "apply"}
    PROVE  /\ req[r].order \in Orders /\ req[r].pay \in Payments
           /\ Approved(req[r].pay) /\ toss[req[r].pay].order = req[r].order
           /\ toss[req[r].pay].amount = order[req[r].order].amount
           /\ req[r].cancelled \in Nat
           /\ req[r].cancelled <= toss[req[r].pay].cancelled
<1>1. ReqInv(r) /\ req[r] \in Request
  BY DEF IInv, TypeOK
<1>2. Read(r) /\ Approved(req[r].pay) /\ req[r].cancelled \in Nat
  BY <1>1 DEF ReqInv, Request
<1>. QED BY <1>2 DEF Read, Holds

\* The webhook of a cancelled payment voids the order, or writes nothing.
LEMMA HookVoids ==
    ASSUME IInv, IInv', LedgerInv, NEW r \in Requests, HookVoid(r)
    PROVE  Books' = Books \/ Ledger!Void(req[r].order, req[r].pay)
<1>1. PICK o \in Orders, p \in Payments, n \in Nat :
         /\ o = req[r].order /\ p = req[r].pay /\ n = req[r].cancelled
         /\ Approved(p) /\ toss[p].order = o /\ toss[p].amount = order[o].amount
  BY Zenon, HeldPayment DEF HookVoid
<1>2. toss[p].status = "CANCELED" /\ n = toss[p].amount
  <2>1. req[r].pc = "hook_void"
    BY Zenon DEF HookVoid
  <2>. QED BY <1>1, <2>1 DEF LedgerInv, SeenInv
<1>3. TypeOK /\ TossInv(p) /\ OrderInv(o) /\ UNCHANGED <<subscription, toss>>
  BY DEF IInv, HookVoid
<1>4. CASE UNCHANGED order
  BY <1>3, <1>4, SameRows DEF Row, Issued
<1>5. CASE order[o].status = "PENDING" /\ ~UsedElsewhere(o, p)
  <2>1. order' = [order EXCEPT ![o].status = "CANCELED", ![o].payId = p, ![o].refunded = n]
    BY Zenon, <1>1, <1>5 DEF HookVoid
  <2>2. /\ \A x \in Orders \ {o} : order'[x] = order[x]
        /\ order'[o].status = "CANCELED" /\ order'[o].payId = p
        /\ order'[o].owner = order[o].owner /\ order'[o].amount = order[o].amount
        /\ order'[o].refunded = n
    BY <1>3, <2>1 DEF TypeOK, OrderRow
  <2>3. Books' = [Books EXCEPT ![o] = Row(o)']
    BY <1>3, <2>2, OneRow
  <2>4. Issued(o)' = FALSE
    BY <1>3, <1>5 DEF OrderInv, Issued
  <2>5. Money[p].amount = n /\ Money[p].returned = Money[p].amount
    <3>1. Money[p] = [order |-> o, amount |-> order[o].amount, returned |-> toss[p].cancelled]
      BY Zenon, <1>1, PriceCollected
    <3>2. toss[p].cancelled = n
      BY <1>1, <1>2, <1>3 DEF TossInv
    <3>. QED BY <1>1, <1>2, <3>1, <3>2
  <2>6. Row(o)' = [status |-> "CANCELED", owner |-> Books[o].owner,
                   amount |-> Books[o].amount, payId |-> p,
                   refunded |-> Money[p].amount, issued |-> FALSE]
    <3>1. Books[o].owner = order[o].owner /\ Books[o].amount = order[o].amount
      BY Zenon, BookFields
    <3>. QED BY <2>2, <2>4, <2>5, <3>1 DEF Row
  <2>7. Ledger!Write(o, "CANCELED", p, Money[p].amount, FALSE)
    BY Zenon, <1>3, <2>3, <2>6, SameMoney DEF Ledger!Write
  <2>8. Books[o].status = "PENDING"
    BY Zenon, <1>5, BookFields
  <2>9. Ledger!Void(o, p)
    BY Zenon, <1>1, <1>3, <1>5, <2>5, <2>7, <2>8, UnusedKey, PriceCollected
       DEF Ledger!Void
  <2>. QED BY Zenon, <1>1, <2>9
<1>. QED BY Zenon, <1>1, <1>4, <1>5 DEF HookVoid

\* The webhook of an aborted payment fails the order, or writes nothing.
LEMMA HookFails ==
    ASSUME IInv, IInv', LedgerInv, NEW r \in Requests, HookFail(r)
    PROVE  Books' = Books \/ Ledger!Fail(req[r].order, req[r].pay)
<1>1. PICK o \in Orders, p \in Payments : o = req[r].order /\ p = req[r].pay
  BY Zenon DEF HookFail, IInv, ReqInv, Read, Holds
<1>2. toss[p].status = "ABORTED"
  BY Zenon, <1>1 DEF LedgerInv, SeenInv, HookFail
<1>3. TypeOK /\ TossInv(p) /\ OrderInv(o) /\ UNCHANGED <<subscription, toss>>
  BY DEF IInv, HookFail
<1>4. CASE UNCHANGED order
  BY <1>3, <1>4, SameRows DEF Row, Issued
<1>5. CASE order[o].status = "PENDING" /\ ~UsedElsewhere(o, p)
  <2>1. order' = [order EXCEPT ![o].status = "FAILED", ![o].payId = p]
    BY Zenon, <1>1, <1>5 DEF HookFail
  <2>2. /\ \A x \in Orders \ {o} : order'[x] = order[x]
        /\ order'[o].status = "FAILED" /\ order'[o].payId = p
        /\ order'[o].owner = order[o].owner /\ order'[o].amount = order[o].amount
        /\ order'[o].refunded = order[o].refunded
    BY <1>3, <2>1 DEF TypeOK, OrderRow
  <2>3. Books' = [Books EXCEPT ![o] = Row(o)']
    BY <1>3, <2>2, OneRow
  <2>4. Issued(o)' = FALSE
    BY <1>3, <1>5 DEF OrderInv, Issued
  <2>5. Money[p] = Ledger!Nothing
    BY <1>2, <1>3 DEF Money, MoneyOf, Approved, TossInv, Ledger!Nothing
  <2>6. Row(o)' = [status |-> "FAILED", owner |-> Books[o].owner,
                   amount |-> Books[o].amount, payId |-> p, refunded |-> 0,
                   issued |-> FALSE]
    <3>1. order[o].refunded = 0
      BY Zenon, <1>5, PendingRow
    <3>2. Books[o].owner = order[o].owner /\ Books[o].amount = order[o].amount
      BY Zenon, BookFields
    <3>. QED BY <2>2, <2>4, <3>1, <3>2 DEF Row
  <2>7. Ledger!Write(o, "FAILED", p, 0, FALSE)
    BY Zenon, <1>3, <2>3, <2>6, SameMoney DEF Ledger!Write
  <2>8. Books[o].status = "PENDING"
    BY Zenon, <1>5, BookFields
  <2>9. Ledger!Fail(o, p)
    BY Zenon, <1>3, <1>5, <2>5, <2>7, <2>8, UnusedKey DEF Ledger!Fail
  <2>. QED BY Zenon, <1>1, <2>9
<1>. QED BY Zenon, <1>1, <1>4, <1>5 DEF HookFail

\* A refund books a sum Toss has returned, or writes nothing.
LEMMA RefundBooks ==
    ASSUME IInv, IInv', NEW r \in Requests, ApplyRefund(r)
    PROVE  \/ Books' = Books
           \/ \E n \in 0 .. Money[req[r].pay].returned :
                 Ledger!Book(req[r].order, req[r].pay, n)
<1>1. PICK o \in Orders, p \in Payments, n \in Nat :
         /\ o = req[r].order /\ p = req[r].pay /\ n = req[r].cancelled
         /\ Approved(p) /\ toss[p].order = o /\ toss[p].amount = order[o].amount
         /\ n <= toss[p].cancelled
  BY Zenon, HeldPayment DEF ApplyRefund
<1>2. TypeOK /\ TossInv(p) /\ toss[p] \in TossRow /\ UNCHANGED toss
  BY DEF IInv, TypeOK, ApplyRefund
<1>3. Issued(o)
  BY Zenon, <1>1 DEF IInv, ReqInv, ApplyRefund
<1>4. CASE UNCHANGED <<order, subscription>>
  BY <1>4, SameRows DEF Row, Issued
<1>5. CASE RefundPayment(r)
  <2>1. IsFullRefund(o, n) <=> n = order[o].amount
    <3>1. n <= order[o].amount /\ order[o].amount \in Nat
      BY <1>1, <1>2 DEF TossInv, TossRow
    <3>. QED BY <3>1 DEF IsFullRefund
  <2>2. /\ order' = [order EXCEPT
              ![o].status = IF IsFullRefund(o, n) THEN "CANCELED" ELSE "PAID",
              ![o].refunded = n]
        /\ subscription' = [subscription EXCEPT
              ![o].status = IF IsFullRefund(o, n) THEN "REFUNDED" ELSE "PAID",
              ![o].refunded = n]
    BY Zenon, <1>1, <1>5 DEF ApplyRefund
  <2>3. /\ \A x \in Orders \ {o} : order'[x] = order[x]
        /\ order'[o].status = IF n = order[o].amount THEN "CANCELED" ELSE "PAID"
        /\ order'[o].payId = order[o].payId
        /\ order'[o].owner = order[o].owner /\ order'[o].amount = order[o].amount
        /\ order'[o].refunded = n
    BY <1>2, <2>1, <2>2 DEF TypeOK, OrderRow
  <2>4. /\ \A x \in Orders \ {o} : subscription'[x] = subscription[x]
        /\ subscription'[o].status \in {"REFUNDED", "PAID"}
    BY <1>2, <2>2 DEF TypeOK, SubscriptionRow
  <2>5. Issued(o)' = TRUE /\ Issued(o) = TRUE
    BY <1>3, <2>4 DEF Issued
  <2>6. Books' = [Books EXCEPT ![o] = Row(o)']
    BY <2>3, <2>4, OneRow
  <2>7. Row(o)' = [status |-> IF n = Books[o].amount THEN "CANCELED" ELSE "PAID",
                   owner |-> Books[o].owner, amount |-> Books[o].amount,
                   payId |-> Books[o].payId, refunded |-> n, issued |-> TRUE]
    <3>1. /\ Books[o].owner = order[o].owner /\ Books[o].amount = order[o].amount
          /\ Books[o].payId = order[o].payId
      BY Zenon, BookFields
    <3>. QED BY <2>3, <2>5, <3>1 DEF Row
  <2>8. Ledger!Write(o, IF n = Books[o].amount THEN "CANCELED" ELSE "PAID",
                      Books[o].payId, n, TRUE)
    BY Zenon, <1>2, <2>6, <2>7, SameMoney DEF Ledger!Write
  <2>9. Books[o].issued
    BY Zenon, <2>5, BookFields
  <2>10. Ledger!Book(o, p, n)
    BY Zenon, <1>1, <1>2, <2>8, <2>9, PriceCollected DEF Ledger!Book
  <2>11. n \in 0 .. Money[p].returned
    BY <1>1, <1>2 DEF Money, MoneyOf, TossRow
  <2>. QED BY Zenon, <1>1, <2>10, <2>11
<1>. QED BY Zenon, <1>4, <1>5 DEF ApplyRefund

\* A checkout places its order.
LEMMA CheckoutPlaces ==
    ASSUME IInv, IInv', NEW r \in Requests, NEW price \in Prices, CheckoutCreate(r, price)
    PROVE  \E o \in Orders, u \in Users : Ledger!Place(o, u, price)
<1>1. PICK o \in Orders, u \in Users : /\ o = req[r].order /\ u = req[r].user
                                       /\ order[o].status = "NONE"
  BY Zenon DEF CheckoutCreate, IInv, ReqInv
<1>2. TypeOK /\ OrderInv(o) /\ UNCHANGED <<subscription, toss>>
  BY DEF IInv, CheckoutCreate
<1>3. order' = [order EXCEPT ![o] = [AbsentOrder EXCEPT !.status = "PENDING", !.live = TRUE,
                                                        !.owner = u, !.amount = price]]
  BY Zenon, <1>1 DEF CheckoutCreate
<1>4. /\ \A x \in Orders \ {o} : order'[x] = order[x]
      /\ order'[o].status = "PENDING" /\ order'[o].owner = u /\ order'[o].amount = price
      /\ order'[o].payId = None /\ order'[o].refunded = 0
  BY <1>2, <1>3 DEF TypeOK, AbsentOrder
<1>5. Issued(o)' = FALSE
  BY <1>1, <1>2 DEF OrderInv, Issued
<1>6. Books' = [Books EXCEPT ![o] = Row(o)']
  BY <1>2, <1>4, OneRow
<1>7. Row(o)' = [status |-> "PENDING", owner |-> u, amount |-> price, payId |-> None,
                 refunded |-> 0, issued |-> FALSE]
  BY <1>4, <1>5 DEF Row
<1>8. Books[o].status = "NONE"
  BY Zenon, <1>1, BookFields
<1>9. Ledger!Place(o, u, price)
  BY <1>2, <1>6, <1>7, <1>8, SameMoney DEF Ledger!Place
<1>. QED BY Zenon, <1>9

\* The clock changes no book.
LEMMA ClockKeepsBooks ==
    ASSUME IInv, IInv', NEW o \in Orders, OrderExpires(o) \/ SubscriptionEnds(o)
    PROVE  Books' = Books
<1>1. TypeOK
  BY DEF IInv
<1>2. CASE OrderExpires(o)
  <2>1. \A x \in Orders : /\ order'[x].status = order[x].status
                          /\ order'[x].owner = order[x].owner
                          /\ order'[x].amount = order[x].amount
                          /\ order'[x].payId = order[x].payId
                          /\ order'[x].refunded = order[x].refunded
    BY <1>1, <1>2 DEF OrderExpires, TypeOK, OrderRow
  <2>2. UNCHANGED subscription
    BY <1>2 DEF OrderExpires
  <2>. QED BY <2>1, <2>2, SameRows DEF Row, Issued
<1>3. CASE SubscriptionEnds(o)
  <2>1. \A x \in Orders : subscription'[x].status = subscription[x].status
    BY <1>1, <1>3 DEF SubscriptionEnds, TypeOK, SubscriptionRow
  <2>2. UNCHANGED order
    BY <1>3 DEF SubscriptionEnds
  <2>. QED BY <2>1, <2>2, SameRows DEF Row, Issued
<1>. QED BY <1>2, <1>3

\* Every step is one of the ledger's, or none.
THEOREM NextKeepsLedger ==
    ASSUME IInv, IInv', LedgerInv, Next
    PROVE  [Ledger!LedgerNext]_<<Books, Money>>
<1>. DEFINE Kept == Books' = Books \/ Ledger!BookIsWritten
<1>1. ASSUME NEW o \in Orders, NEW p \in Payments,
             \/ Books' = Books \/ Ledger!Sell(o, p) \/ Ledger!Fail(o, p) \/ Ledger!Void(o, p)
             \/ \E n \in 0 .. Money[p].returned : Ledger!Book(o, p, n)
      PROVE  Kept
  BY Zenon, <1>1 DEF Ledger!BookIsWritten
<1>2. ASSUME UNCHANGED <<order, subscription>> PROVE Books' = Books
  BY <1>2, SameRows DEF Row, Issued
<1>3. ASSUME NEW r \in Requests, Checkout(r) PROVE Kept
  <2>1. ASSUME NEW price \in Prices, CheckoutCreate(r, price) PROVE Kept
    BY Zenon, <2>1, CheckoutPlaces DEF Ledger!BookIsWritten
  <2>. QED BY Zenon, <1>2, <1>3, <2>1 DEF Checkout, CheckoutRead
<1>4. ASSUME NEW r \in Requests, VerifyFinalize(r) \/ HookPaid(r) \/ HookClaim(r) PROVE Kept
  <2>1. /\ FinalizePaidOrder(req[r].order, req[r].pay) /\ UNCHANGED toss
        /\ req[r].pc \in {"finalize", "hook_paid", "hook_claim"}
    BY Zenon, <1>4 DEF VerifyFinalize, HookPaid, HookClaim
  <2>2. req[r].pc \in {"finalize", "hook_paid", "hook_claim", "hook_void", "apply"}
    BY <2>1
  <2>. QED BY Zenon, <1>1, <2>1, <2>2, HeldPayment, FinalizeSells
<1>5. ASSUME NEW r \in Requests, HookVoid(r) \/ ApplyRefund(r) PROVE Kept
  <2>1. req[r].order \in Orders /\ req[r].pay \in Payments
    BY Zenon, <1>5, HeldPayment DEF HookVoid, ApplyRefund
  <2>. QED BY Zenon, <1>1, <1>5, <2>1, HookVoids, RefundBooks
<1>6. ASSUME NEW r \in Requests, HookFail(r) PROVE Kept
  <2>1. req[r].order \in Orders /\ req[r].pay \in Payments
    BY Zenon, <1>6 DEF HookFail, IInv, ReqInv, Read, Holds
  <2>. QED BY Zenon, <1>1, <1>6, <2>1, HookFails
<1>7. ASSUME NEW r \in Requests, Verify(r) PROVE Kept
  BY Zenon, <1>2, <1>4, <1>7 DEF Verify, VerifyStart, ConfirmAtToss, ConfirmReplayed,
     ConfirmRejected
<1>8. ASSUME NEW r \in Requests, Sync(r) PROVE Kept
  BY Zenon, <1>2, <1>4, <1>5, <1>6, <1>8 DEF Sync, WebhookStart, ReconcileStart,
     HookGetPayment, HookReadSubscription
<1>9. ASSUME NEW r \in Requests, Refund(r) PROVE Kept
  BY Zenon, <1>2, <1>5, <1>9 DEF Refund, RefundStart, RefundGetPayment, CancelAtToss,
     CancelReplayed, CancelRejected
<1>10. ASSUME Environment PROVE Kept
  BY Zenon, <1>2, <1>10, ClockKeepsBooks DEF Environment, OpenPayment, PaymentAborted,
     DepositArrives, CancelledOutside, RequestDies
<1>11. Kept
  BY Zenon, <1>3, <1>7, <1>8, <1>9, <1>10 DEF Next
<1>12. CASE UNCHANGED toss
  BY Zenon, <1>11, <1>12, SameMoney DEF Ledger!LedgerNext
<1>13. ASSUME UNCHANGED <<order, subscription>>, NEW p \in Payments, TossMove(p)
       PROVE  Books' = Books /\ (Money' = Money \/ Ledger!MoneyMoves)
  BY Zenon, <1>2, <1>13, TossKeepsLedger
<1>. QED BY Zenon, <1>12, <1>13, TossOrRows DEF Ledger!LedgerNext

\* The handlers and the provider together implement the ledger: what they
\* read, wait for and write later comes to one step of the books at a time.
THEOREM ImplementsLedger == Spec => KeepsTheLedger
<1>1. Init => Ledger!LedgerInit
  BY DEF Init, Ledger!LedgerInit, Books, BookRow, Money, MoneyOf, Issued, Approved,
     AbsentOrder, AbsentSubscription, Unopened, Ledger!Blank, Ledger!Nothing
<1>2. IInv /\ IInv' /\ LedgerInv /\ [Next]_vars => [Ledger!LedgerNext]_Ledger!ledgerVars
  <2>. SUFFICES ASSUME IInv, IInv', LedgerInv, [Next]_vars
                PROVE  [Ledger!LedgerNext]_<<Books, Money>>
    BY DEF Ledger!ledgerVars
  <2>1. CASE UNCHANGED vars
    BY <2>1 DEF vars, Books, BookRow, Money, MoneyOf, Issued, Approved
  <2>. QED BY <2>1, NextKeepsLedger
<1>. QED BY <1>1, <1>2, SpecIInv, SpecLedgerInv, PTL
        DEF Spec, KeepsTheLedger, Ledger!LedgerSpec
=============================================================================
