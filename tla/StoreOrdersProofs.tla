-------------------------- MODULE StoreOrdersProofs --------------------------
(***************************************************************************)
(* The book store for any number of buyers, orders, payments, products,    *)
(* requests and faults: no unit of stock is lost, a PAID order was paid, a *)
(* CANCELED one was given back.                                             *)
(*                                                                         *)
(* IInv says what Toss guarantees about a payment (TossInv), what the row  *)
(* of an order says about its payment and its reservation (OrderInv), what *)
(* a request suspended at an await may still rely on (ReqInv, FreshIds),   *)
(* and that shelf and reservations add up (StockInv).                      *)
(***************************************************************************)
EXTENDS StoreOrders, FiniteSetTheorems, TLAPS

\* The order was made.
Exists(o) == order[o].status # "NONE"

\* What Toss guarantees, and that a payment was opened for an order.
TossInv(p) ==
    /\ toss[p].status # "NONE" => /\ toss[p].order \in Orders
                                  /\ Exists(toss[p].order)
                                  /\ toss[p].amount > 0
    /\ toss[p].status = "NONE" => toss[p].answered = "none" /\ toss[p].order = None
    /\ ~Approved(p) => toss[p].cancelled = 0
    /\ toss[p].cancelled <= toss[p].amount
    /\ Approved(p) => (toss[p].status = "CANCELED"
                         <=> toss[p].cancelled = toss[p].amount)
    /\ toss[p].refundKey => toss[p].status = "CANCELED"
    /\ toss[p].answered = "paid" => Approved(p)

\* The payment was opened for the order, at its price.
Matches(p, o) == /\ p \in Payments /\ o \in Orders
                 /\ Exists(o)
                 /\ toss[p].order = o
                 /\ toss[p].amount = order[o].amount

\* A payment that pays the order, and one that was given back.
Collected(p, o) == Matches(p, o) /\ Approved(p)
GivenBack(p, o) == Matches(p, o) /\ toss[p].status = "CANCELED"

\* What the row of an order says about its payment and its reservation.
OrderInv(o) ==
    /\ Exists(o) => order[o].owner \in Users /\ order[o].amount > 0
    /\ ~Exists(o) => ~order[o].reserved
    /\ ~order[o].reserved => \A p \in Stocked : order[o].items[p] = 0
    /\ order[o].status = "PENDING" => ~order[o].released
    /\ order[o].status = "FAILED" /\ order[o].reserved => order[o].released
    /\ order[o].status = "PAID" => Collected(order[o].payId, o)
    /\ order[o].status = "CANCELED" =>
         /\ order[o].refunded = order[o].amount
         /\ \E p \in Payments : GivenBack(p, o)

\* The request read the order of its payment when it held what it says.
HookRead(q) == /\ q.pay \in Payments /\ q.order \in Orders
               /\ toss[q.pay].order = q.order /\ Exists(q.order)
               /\ q.held => order[q.order].reserved

\* What a suspended request may rely on.
ReqInv(q) ==
    /\ q.order \in Orders => Exists(q.order) \/ q.pc = "create"
    /\ q.pc = "cart_put" => q.user \in Users
    /\ q.pc = "create" => /\ q.order \in Orders /\ q.user \in Users
                          /\ ~Exists(q.order) /\ q.amount > 0
    /\ q.pc \in {"release", "confirm", "refund_get"} =>
         q.order \in Orders /\ q.pay \in Payments
    /\ q.pc = "commit" => Collected(q.pay, q.order)
    /\ q.pc = "hook_get" =>
         /\ HookRead(q)
         /\ q.status = "PENDING" => (q.held <=> order[q.order].reserved)
    /\ q.pc = "hook_write" =>
         /\ HookRead(q) /\ Matches(q.pay, q.order)
         /\ \/ q.status = "PAID" /\ Approved(q.pay)
            \/ /\ q.status = "CANCELED" /\ GivenBack(q.pay, q.order)
               /\ q.cancelled = order[q.order].amount
            \/ /\ q.status = "FAILED" /\ toss[q.pay].status = "ABORTED"
               /\ q.held <=> order[q.order].reserved
    /\ q.pc = "refund_cancel" => Collected(q.pay, q.order)
    /\ q.pc = "refund_write" => /\ GivenBack(q.pay, q.order)
                                /\ q.cancelled = order[q.order].amount

\* Two checkouts never draw the same order id.
FreshIds == \A r, x \in Requests :
    req[r].pc = "create" /\ req[x].order = req[r].order => x = r

StockInv == \A p \in Stocked : /\ IsFiniteSet(HeldUnits(p))
                               /\ stock[p] + Held(p) >= InitialStock[p]

\* The inductive invariant.
IInv == /\ TypeOK
        /\ \A p \in notice : toss[p].status # "NONE"
        /\ \A p \in Payments : TossInv(p)
        /\ \A o \in Orders : OrderInv(o)
        /\ \A r \in Requests : ReqInv(req[r])
        /\ FreshIds
        /\ StockInv

-----------------------------------------------------------------------------
(* What no step takes back *)

\* An order keeps what was ordered, a payment its order, its amount, and that
\* it was collected, cancelled or aborted.
Grows ==
    /\ \A o \in Orders : Exists(o) =>
         /\ order'[o].status # "NONE"
         /\ order'[o].owner = order[o].owner
         /\ order'[o].amount = order[o].amount
         /\ order'[o].reserved = order[o].reserved
    /\ \A p \in Payments : toss[p].status # "NONE" =>
         /\ toss'[p].status # "NONE"
         /\ toss'[p].order = toss[p].order
         /\ toss'[p].amount = toss[p].amount
         /\ Approved(p) => Approved(p)'
         /\ toss[p].status = "CANCELED" => toss'[p].status = "CANCELED"
         /\ toss[p].status = "ABORTED" => toss'[p].status = "ABORTED"

\* Neither the rows nor the payments change.
LEMMA GrowsStill == ASSUME UNCHANGED <<order, toss>> PROVE Grows
BY DEF Grows, Exists, Approved

\* What is said of a payment and its order stays true.
LEMMA GrowsFacts ==
    ASSUME IInv, Grows, NEW p, NEW o
    PROVE  /\ Matches(p, o) => Matches(p, o)'
           /\ Collected(p, o) => Collected(p, o)'
           /\ GivenBack(p, o) => GivenBack(p, o)'
<1>1. Matches(p, o) => toss[p].status # "NONE"
  BY TossNoneAssumption DEF IInv, TossInv, Matches
<1>2. Matches(p, o) => Matches(p, o)'
  BY <1>1 DEF Matches, Grows, Exists
<1> QED BY <1>1, <1>2 DEF Matches, Collected, GivenBack, Grows

\* A request may go on relying on what it relied on.
LEMMA GrowsReq ==
    ASSUME IInv, Grows, NEW q \in Request, ReqInv(q),
           q.pc = "create" => order'[q.order].status = "NONE"
    PROVE  ReqInv(q)'
<1>1. q.order \in Orders /\ Exists(q.order) => Exists(q.order)'
  BY DEF Grows, Exists
<1>2. HookRead(q) => HookRead(q)'
  <2>1. HookRead(q) => toss[q.pay].status # "NONE"
    BY TossNoneAssumption DEF IInv, TossInv, HookRead
  <2> QED BY <2>1 DEF HookRead, Grows, Exists
<1>3. HookRead(q) => /\ order'[q.order].reserved = order[q.order].reserved
                     /\ order'[q.order].amount = order[q.order].amount
                     /\ toss[q.pay].status = "ABORTED" => toss'[q.pay].status = "ABORTED"
  BY DEF HookRead, Grows, Exists
<1>4. Matches(q.pay, q.order) =>
        /\ order'[q.order].amount = order[q.order].amount
        /\ Approved(q.pay) => Approved(q.pay)'
  BY TossNoneAssumption DEF Matches, Grows, IInv, TossInv
<1>5. /\ Matches(q.pay, q.order) => Matches(q.pay, q.order)'
      /\ Collected(q.pay, q.order) => Collected(q.pay, q.order)'
      /\ GivenBack(q.pay, q.order) => GivenBack(q.pay, q.order)'
  BY GrowsFacts
<1>6. q.pc = "hook_write" => ReqInv(q)'
  BY <1>1, <1>2, <1>3, <1>4, <1>5 DEF ReqInv, Collected, GivenBack
<1>7. q.pc # "hook_write" => ReqInv(q)'
  BY <1>1, <1>2, <1>3, <1>4, <1>5 DEF ReqInv, Exists, Collected, GivenBack
<1> QED BY <1>6, <1>7

\* An order whose row did not change keeps its invariant.
LEMMA GrowsOrder ==
    ASSUME IInv, Grows, NEW o \in Orders, order'[o] = order[o]
    PROVE  OrderInv(o)'
<1>1. OrderInv(o)
  BY DEF IInv
<1>2. Collected(order[o].payId, o) => Collected(order[o].payId, o)'
  <2>1. PICK p : p = order[o].payId
    OBVIOUS
  <2>2. Collected(p, o) => Collected(p, o)'
    BY GrowsFacts
  <2> QED BY <2>1, <2>2 DEF Collected, Matches, Exists, Approved
<1>3. \A p \in Payments : GivenBack(p, o) => GivenBack(p, o)'
  BY GrowsFacts
<1> QED BY <1>1, <1>2, <1>3 DEF OrderInv, Exists

\* A payment that did not change keeps what Toss guarantees.
LEMMA GrowsToss ==
    ASSUME IInv, Grows, NEW p \in Payments, toss'[p] = toss[p]
    PROVE  TossInv(p)'
BY DEF IInv, TossInv, Approved, Grows, Exists

-----------------------------------------------------------------------------
(* Shelf and reservations *)

\* One more order sets aside n units.
LEMMA UnitsAdded ==
    ASSUME NEW S, IsFiniteSet(S), NEW o, NEW n \in Nat, S \cap ({o} \X (1 .. n)) = {}
    PROVE  /\ IsFiniteSet(S \cup ({o} \X (1 .. n)))
           /\ Cardinality(S \cup ({o} \X (1 .. n))) = Cardinality(S) + n
<1>1. IsFiniteSet({o}) /\ Cardinality({o}) = 1
  BY FS_Singleton
<1>2. IsFiniteSet(1 .. n) /\ Cardinality(1 .. n) = n
  BY FS_Interval
<1> DEFINE A == {o}
           B == 1 .. n
           C == A \X B
<1>3. IsFiniteSet(C) /\ Cardinality(C) = n
  <2> HIDE DEF A, B
  <2>1. IsFiniteSet(A \X B) /\ Cardinality(A \X B) = Cardinality(A) * Cardinality(B)
    BY <1>1, <1>2, FS_Product DEF A, B
  <2> QED BY <2>1, <1>1, <1>2 DEF A, B
<1>4. Cardinality(S) \in Nat /\ Cardinality({}) = 0
  BY FS_CardinalityType, FS_EmptySet
<1>5. S \cap C = {}
  OBVIOUS
<1>6. IsFiniteSet(S \cup C) /\ Cardinality(S \cup C) = Cardinality(S) + n
  <2> HIDE DEF C
  <2>1. IsFiniteSet(S \cup C)
        /\ Cardinality(S \cup C) = Cardinality(S) + Cardinality(C) - Cardinality(S \cap C)
    BY <1>3, FS_Union
  <2>2. Cardinality(S \cap C) = 0
    BY <1>4, <1>5
  <2> QED BY <2>1, <2>2, <1>3, <1>4
<1> QED BY <1>6

\* Rows that hold what they held, and an unchanged shelf.
LEMMA StockSame ==
    ASSUME IInv, UNCHANGED stock, Holding' = Holding,
           \A o \in Holding : order'[o].items = order[o].items
    PROVE  StockInv'
<1>1. \A p \in Stocked : HeldUnits(p)' = HeldUnits(p)
  BY DEF HeldUnits
<1> QED BY <1>1 DEF IInv, StockInv, Held

\* What an order held goes back on the shelf: if it held it no longer, there
\* is more than there was.
LEMMA StockGivenBack ==
    ASSUME IInv, NEW o \in Orders, order[o].reserved, stock' = Returned(o),
           order'[o].released,
           \A x \in Orders : /\ order'[x].items = order[x].items
                             /\ order'[x].reserved = order[x].reserved
                             /\ x # o => order'[x].released = order[x].released
    PROVE  StockInv'
<1> SUFFICES ASSUME NEW p \in Stocked
             PROVE  /\ IsFiniteSet(HeldUnits(p)')
                    /\ stock'[p] + Held(p)' >= InitialStock[p]
  BY DEF StockInv, Held
<1>1. PICK n \in Nat : n = order[o].items[p]
  BY StoreAssumption DEF IInv, TypeOK, OrderRow
<1>2. stock'[p] = stock[p] + n /\ stock[p] \in Nat /\ InitialStock[p] \in Nat
  BY <1>1, StoreAssumption DEF Returned, IInv, TypeOK
<1>3. IsFiniteSet(HeldUnits(p))
      /\ stock[p] + Cardinality(HeldUnits(p)) >= InitialStock[p]
  BY DEF IInv, StockInv, Held
<1>4. Holding' = Holding \ {o}
  BY DEF Holding
<1>5. PICK S : S = HeldUnits(p)'
  OBVIOUS
<1>6. S = UNION {{x} \X (1 .. order[x].items[p]) : x \in Holding \ {o}}
  BY <1>4, <1>5 DEF HeldUnits, Holding
<1>7. CASE o \in Holding
  <2>1. HeldUnits(p) = S \cup ({o} \X (1 .. n))
    BY <1>1, <1>6, <1>7 DEF HeldUnits
  <2>2. S \cap ({o} \X (1 .. n)) = {}
    BY <1>6
  <2>3. IsFiniteSet(S)
    BY <1>3, <2>1, FS_Subset
  <2>4. Cardinality(HeldUnits(p)) = Cardinality(S) + n /\ Cardinality(S) \in Nat
    <3>1. Cardinality(S \cup ({o} \X (1 .. n))) = Cardinality(S) + n
      BY <2>2, <2>3, UnitsAdded
    <3> QED BY <2>1, <2>3, <3>1, FS_CardinalityType
  <2> QED BY <1>2, <1>3, <1>5, <2>3, <2>4 DEF Held
<1>8. CASE o \notin Holding
  <2>1. S = HeldUnits(p)
    BY <1>6, <1>8 DEF HeldUnits
  <2>2. Cardinality(S) \in Nat
    BY <1>3, <2>1, FS_CardinalityType
  <2> QED BY <1>2, <1>3, <1>5, <2>1, <2>2 DEF Held
<1> QED BY <1>7, <1>8

\* What a checkout takes off the shelf its order holds.
LEMMA StockTaken ==
    ASSUME IInv, NEW o \in Orders, o \notin Holding, NEW items \in [Products -> Nat],
           stock' = [p \in Products |->
                       IF p \in Stocked THEN stock[p] - items[p] ELSE stock[p]],
           order'[o].items = items, ~order'[o].released,
           order'[o].reserved <=> \E p \in Stocked : items[p] > 0,
           \A x \in Orders \ {o} : order'[x] = order[x]
    PROVE  StockInv'
<1> SUFFICES ASSUME NEW p \in Stocked
             PROVE  /\ IsFiniteSet(HeldUnits(p)')
                    /\ stock'[p] + Held(p)' >= InitialStock[p]
  BY DEF StockInv, Held
<1>1. PICK n \in Nat : n = items[p]
  BY StoreAssumption
<1>2. stock'[p] = stock[p] - n /\ stock[p] \in Nat /\ InitialStock[p] \in Nat
  BY <1>1, StoreAssumption DEF IInv, TypeOK
<1>3. IsFiniteSet(HeldUnits(p))
      /\ stock[p] + Cardinality(HeldUnits(p)) >= InitialStock[p]
  BY DEF IInv, StockInv, Held
<1>4. PICK S : S = HeldUnits(p)
  OBVIOUS
<1>5. CASE order'[o].reserved
  <2>1. Holding' = Holding \cup {o}
    BY <1>5 DEF Holding
  <2>2. HeldUnits(p)' = S \cup ({o} \X (1 .. n))
    BY <1>1, <1>4, <2>1 DEF HeldUnits, Holding
  <2>3. S \cap ({o} \X (1 .. n)) = {}
    BY <1>4 DEF HeldUnits
  <2>4. IsFiniteSet(S \cup ({o} \X (1 .. n)))
        /\ Cardinality(S \cup ({o} \X (1 .. n))) = Cardinality(S) + n
    BY <1>3, <1>4, <2>3, UnitsAdded
  <2>5. Cardinality(S) \in Nat
    BY <1>3, <1>4, FS_CardinalityType
  <2> QED BY <1>2, <1>3, <1>4, <2>2, <2>4, <2>5 DEF Held
<1>6. CASE ~order'[o].reserved
  <2>1. Holding' = Holding /\ n = 0
    BY <1>1, <1>6 DEF Holding
  <2>2. HeldUnits(p)' = S
    BY <1>4, <2>1 DEF HeldUnits, Holding
  <2>3. Cardinality(S) \in Nat
    BY <1>3, <1>4, FS_CardinalityType
  <2> QED BY <1>2, <1>3, <1>4, <2>1, <2>2, <2>3 DEF Held
<1> QED BY <1>5, <1>6

-----------------------------------------------------------------------------
(* Frames *)

\* The request that moved draws no order id anybody else has drawn.
LEMMA FreshStep ==
    ASSUME IInv, NEW r \in Requests, NEW v \in Request,
           req' = [req EXCEPT ![r] = v],
           v.order \in Orders => Exists(v.order) \/ v.pc = "create",
           v.pc = "create" => \A x \in Requests : req[x].order # v.order
    PROVE  FreshIds'
<1>1. SUFFICES ASSUME NEW a \in Requests, NEW b \in Requests,
                      req'[a].pc = "create", req'[b].order = req'[a].order
               PROVE  b = a
  BY DEF FreshIds
<1>2. \A x \in Requests : req'[x] = IF x = r THEN v ELSE req[x]
  BY DEF IInv, TypeOK
<1>3. \A x \in Requests : req[x].pc = "create" =>
         req[x].order \in Orders /\ ~Exists(req[x].order)
  BY DEF IInv, ReqInv
<1>4. CASE a = r
  BY <1>1, <1>2, <1>4
<1>5. CASE a # r /\ b = r
  BY <1>1, <1>2, <1>3, <1>5
<1>6. CASE a # r /\ b # r
  BY <1>1, <1>2, <1>6 DEF IInv, FreshIds
<1> QED BY <1>4, <1>5, <1>6

\* One request moves and what it wrote is in order.
LEMMA WriteStep ==
    ASSUME IInv, TypeOK', Grows, NEW r \in Requests, NEW v \in Request,
           req' = [req EXCEPT ![r] = v], ReqInv(v)',
           v.order \in Orders => Exists(v.order) \/ v.pc = "create",
           v.pc = "create" => \A x \in Requests : req[x].order # v.order,
           \A x \in Requests \ {r} :
              req[x].pc = "create" => order'[req[x].order].status = "NONE",
           \A p \in notice' : toss'[p].status # "NONE",
           \A p \in Payments : TossInv(p)',
           \A o \in Orders : OrderInv(o)',
           StockInv'
    PROVE  IInv'
<1>1. \A x \in Requests : req[x] \in Request /\ ReqInv(req[x])
  BY DEF IInv, TypeOK
<1>2. req'[r] = v /\ \A x \in Requests \ {r} : req'[x] = req[x]
  BY DEF IInv, TypeOK
<1>3. ASSUME NEW x \in Requests PROVE ReqInv(req[x])' 
  <2>1. CASE x = r
    BY <1>2, <2>1 DEF ReqInv, HookRead, Matches, Collected, GivenBack, Exists, Approved
  <2>2. CASE x # r
    <3>1. PICK q \in Request : q = req[x]
      BY <1>1
    <3>2. ReqInv(q)'
      BY <1>1, <2>2, <3>1, GrowsReq
    <3>3. req'[x] = q
      BY <1>2, <2>2, <3>1
    <3> QED BY ZenonT(60), <3>2, <3>3
            DEF ReqInv, HookRead, Matches, Collected, GivenBack, Exists, Approved
  <2> QED BY <2>1, <2>2
<1>4. FreshIds'
  BY FreshStep
<1> QED BY <1>3, <1>4 DEF IInv

\* No request moves.
LEMMA EnvStep ==
    ASSUME IInv, TypeOK', Grows, UNCHANGED req,
           \A x \in Requests :
              req[x].pc = "create" => order'[req[x].order].status = "NONE",
           \A p \in notice' : toss'[p].status # "NONE",
           \A p \in Payments : TossInv(p)',
           \A o \in Orders : OrderInv(o)',
           StockInv'
    PROVE  IInv'
<1>1. ASSUME NEW x \in Requests PROVE ReqInv(req[x])'
  <2>1. PICK q \in Request : q = req[x]
    BY DEF IInv, TypeOK
  <2>2. ReqInv(q)'
    BY <2>1, GrowsReq DEF IInv
  <2> QED BY <2>1, <2>2
          DEF ReqInv, HookRead, Matches, Collected, GivenBack, Exists, Approved
<1>2. FreshIds'
  BY DEF IInv, FreshIds
<1> QED BY <1>1, <1>2 DEF IInv

\* One request moves, and no row of an order, payment or shelf changes.
LEMMA ReadStep ==
    ASSUME IInv, NEW r \in Requests, NEW v \in Request,
           UNCHANGED <<stock, order, toss>>,
           req' = [req EXCEPT ![r] = v], ReqInv(v),
           cart' \in [Users -> [Products -> Nat]],
           \A p \in notice' : p \in Payments /\ toss[p].status # "NONE",
           faults' \in 0..MaxFaults,
           v.pc = "create" => \A x \in Requests : req[x].order # v.order
    PROVE  IInv'
<1>1. TypeOK' /\ \A p \in notice' : toss'[p].status # "NONE"
  BY DEF IInv, TypeOK
<1>2. Grows
  BY GrowsStill
<1>3. ReqInv(v)'
  BY DEF ReqInv, HookRead, Matches, Collected, GivenBack, Exists, Approved
<1>4. \A x \in Requests : req[x].pc = "create" => order'[req[x].order].status = "NONE"
  BY DEF IInv, ReqInv, Exists
<1>5. /\ \A p \in Payments : TossInv(p)'
      /\ \A o \in Orders : OrderInv(o)'
  BY <1>2, GrowsToss, GrowsOrder
<1>6. StockInv'
  BY StockSame DEF Holding
<1>7. v.order \in Orders => Exists(v.order) \/ v.pc = "create"
  BY DEF ReqInv
<1> QED BY <1>1, <1>2, <1>3, <1>4, <1>5, <1>6, <1>7, WriteStep

\* An idle request remembers no order.
LEMMA IdleIsRequest == Idle \in Request /\ Idle.order \notin Orders /\ ReqInv(Idle)
BY TossNoneAssumption, StoreAssumption
   DEF Idle, Request, Pc, OrderStatus, NoItems, ReqInv

\* The request ends with nothing written.
LEMMA DoneStep ==
    ASSUME IInv, NEW r \in Requests, Done(r),
           UNCHANGED <<stock, order, toss>>,
           cart' \in [Users -> [Products -> Nat]],
           \A p \in notice' : p \in Payments /\ toss[p].status # "NONE",
           faults' \in 0..MaxFaults
    PROVE  IInv'
<1>1. Idle.pc # "create"
  BY DEF Idle
<1> QED BY <1>1, IdleIsRequest, ReadStep DEF Done

-----------------------------------------------------------------------------
(* Cart and shop *)

\* A quantity that may be asked for is a number.
LEMMA QuantitiesAreNumbers == Quantities \subseteq Nat
BY StoreAssumption DEF Quantities

\* setCartItem has read the cart; nothing is written yet.
LEMMA CartReadInv ==
    ASSUME IInv, NEW r \in Requests, NEW u \in Users, NEW p \in Products,
           NEW n \in Quantities, CartRead(r, u, p, n)
    PROVE  IInv'
<1> DEFINE items == [NoItems EXCEPT ![p] = n]
           v == [Idle EXCEPT !.pc = "cart_put", !.user = u, !.items = items]
<1>1. items \in [Products -> Nat]
  BY QuantitiesAreNumbers DEF NoItems
<1> HIDE DEF items
<1>2. v \in Request /\ v.pc = "cart_put" /\ v.user = u /\ v.order = None
  BY <1>1, IdleIsRequest DEF Idle, Request, Pc
<1>3. req' = [req EXCEPT ![r] = v] /\ UNCHANGED <<stock, order, cart, toss, notice, faults>>
  BY DEF CartRead, items
<1> HIDE DEF v
<1>4. ReqInv(v)
  BY <1>2, TossNoneAssumption DEF ReqInv
<1> QED BY <1>2, <1>3, <1>4, ReadStep DEF IInv, TypeOK

\* The upsert writes one row of the cart of the user who asked.
LEMMA CartPutInv ==
    ASSUME IInv, NEW r \in Requests, CartPut(r)
    PROVE  IInv'
<1>1. PICK u \in Users : u = req[r].user
  BY DEF IInv, ReqInv, CartPut
<1>2. PICK items \in [Products -> Nat] : items = req[r].items
  BY DEF IInv, TypeOK, Request
<1>3. cart' = [cart EXCEPT ![u] = [p \in Products |->
                  IF items[p] > 0 THEN items[p] ELSE @[p]]]
  BY <1>1, <1>2 DEF CartPut
<1>4. cart' \in [Users -> [Products -> Nat]]
  BY <1>3 DEF IInv, TypeOK
<1> QED BY <1>4, DoneStep DEF CartPut, IInv, TypeOK

\* The list of overdue reservations is only read.
LEMMA SweepReadInv ==
    ASSUME IInv, NEW r \in Requests, SweepRead(r)
    PROVE  IInv'
<1>1. PICK pc \in {"shop", "sweep"} : pc = IF Overdue = {} THEN "shop" ELSE "sweep"
  OBVIOUS
<1>2. PICK todo \in SUBSET Orders : todo = Overdue
  BY DEF Overdue
<1> DEFINE v == [Idle EXCEPT !.pc = pc, !.todo = todo]
<1>3. v \in Request /\ v.pc = pc /\ v.order = None
  BY ZenonT(60), IdleIsRequest DEF Idle, Request, Pc
<1>4. req' = [req EXCEPT ![r] = v]
      /\ UNCHANGED <<stock, order, cart, toss, notice, faults>>
  BY <1>1, <1>2 DEF SweepRead
<1> HIDE DEF v
<1>5. ReqInv(v)
  BY <1>3, TossNoneAssumption DEF ReqInv
<1> QED BY <1>3, <1>4, <1>5, ReadStep DEF IInv, TypeOK

\* The product list ends its request.
LEMMA ListProductsInv ==
    ASSUME IInv, NEW r \in Requests, ListProducts(r)
    PROVE  IInv'
BY DoneStep DEF ListProducts, IInv, TypeOK

\* The checkout draws an order id nobody else has drawn.
LEMMA CheckoutReadInv ==
    ASSUME IInv, NEW r \in Requests, NEW u \in Users, NEW o \in Orders,
           NEW items \in Baskets, NEW amount \in Amounts,
           CheckoutRead(r, u, o, items, amount)
    PROVE  IInv'
<1> DEFINE v == [Idle EXCEPT !.pc = "create", !.user = u, !.order = o,
                             !.items = items, !.amount = amount]
<1>1. items \in [Products -> Nat] /\ amount \in Nat /\ amount > 0
  BY StoreAssumption
<1>2. v \in Request /\ v.pc = "create" /\ v.user = u /\ v.order = o /\ v.amount = amount
  BY <1>1, IdleIsRequest DEF Idle, Request, Pc
<1>3. /\ req' = [req EXCEPT ![r] = v]
      /\ UNCHANGED <<stock, order, cart, toss, notice, faults>>
      /\ ~Exists(o) /\ \A x \in Requests : req[x].order # o
  BY DEF CheckoutRead, Exists
<1> HIDE DEF v
<1>4. ReqInv(v)
  BY <1>1, <1>2, <1>3 DEF ReqInv
<1> QED BY <1>2, <1>3, <1>4, ReadStep DEF IInv, TypeOK

-----------------------------------------------------------------------------
(* Confirmation, webhook and refund, before anything is written *)

\* The order and the payment a confirmation goes on with exist.
LEMMA ConfirmStartInv ==
    ASSUME IInv, NEW r \in Requests, NEW o \in Orders, NEW p \in Payments,
           ConfirmStart(r, o, p)
    PROVE  IInv'
<1>1. PICK pc \in {"confirm", "release"} :
         pc = IF order[o].expiry = "open" THEN "confirm" ELSE "release"
  OBVIOUS
<1> DEFINE v == [Idle EXCEPT !.pc = pc, !.order = o, !.pay = p]
<1>2. v \in Request /\ v.pc = pc /\ v.order = o /\ v.pay = p
  BY IdleIsRequest DEF Idle, Request, Pc
<1>3. /\ req' = [req EXCEPT ![r] = v]
      /\ UNCHANGED <<stock, order, cart, toss, notice, faults>> /\ Exists(o)
  BY <1>1 DEF ConfirmStart, Exists
<1> HIDE DEF v
<1>4. ReqInv(v)
  BY <1>2, <1>3 DEF ReqInv
<1> QED BY <1>2, <1>3, <1>4, ReadStep DEF IInv, TypeOK

\* Toss replays "paid" only for a payment it has collected.
LEMMA ConfirmReplayedInv ==
    ASSUME IInv, NEW r \in Requests, ConfirmReplayed(r)
    PROVE  IInv'
<1>1. PICK q \in Request : q = req[r]
  BY DEF IInv, TypeOK
<1>2. q.order \in Orders /\ q.pay \in Payments /\ Exists(q.order)
  BY <1>1 DEF ConfirmReplayed, IInv, ReqInv
<1>3. CASE Done(r)
  BY <1>3, DoneStep DEF ConfirmReplayed, IInv, TypeOK
<1>4. CASE /\ toss[q.pay].answered = "paid" /\ PaymentIdentity(q.order, q.pay)
           /\ Goto(r, "commit")
  <2> DEFINE v == [q EXCEPT !.pc = "commit"]
  <2>1. v \in Request /\ v.pc = "commit" /\ v.order = q.order /\ v.pay = q.pay
    BY DEF Request, Pc
  <2>2. req' = [req EXCEPT ![r] = v]
        /\ UNCHANGED <<stock, order, cart, toss, notice, faults>>
    BY <1>1, <1>4 DEF ConfirmReplayed, Goto
  <2>3. Collected(q.pay, q.order)
    BY <1>2, <1>4 DEF IInv, TossInv, Collected, Matches, PaymentIdentity
  <2> HIDE DEF v
  <2>4. ReqInv(v)
    BY <1>2, <2>1, <2>3 DEF ReqInv
  <2> QED BY <2>1, <2>2, <2>4, ReadStep DEF IInv, TypeOK
<1> QED BY <1>1, <1>3, <1>4 DEF ConfirmReplayed

\* A refused confirmation ends the request.
LEMMA ConfirmRejectedInv ==
    ASSUME IInv, NEW r \in Requests, ConfirmRejected(r)
    PROVE  IInv'
BY DoneStep DEF ConfirmRejected, TossRefuses, IInv, TypeOK

\* A webhook reads the order of its payment and what it holds.
LEMMA WebhookStartInv ==
    ASSUME IInv, NEW r \in Requests, NEW p \in Payments, WebhookStart(r, p)
    PROVE  IInv'
<1>1. PICK o \in Orders : o = toss[p].order
  BY DEF WebhookStart, IInv, TossInv
<1>2. PICK status \in OrderStatus : status = order[o].status
  BY DEF IInv, TypeOK, OrderRow
<1>3. PICK held \in BOOLEAN : held = (/\ order[o].status = "PENDING"
                                      /\ order[o].reserved
                                      /\ ~order[o].released)
  OBVIOUS
<1> DEFINE v == [Idle EXCEPT !.pc = "hook_get", !.order = o, !.pay = p,
                             !.status = status, !.held = held]
<1>4. /\ v \in Request /\ v.pc = "hook_get" /\ v.order = o /\ v.pay = p
      /\ v.status = status /\ v.held = held
  BY ZenonT(60), IdleIsRequest DEF Idle, Request, Pc
<1>5. /\ req' = [req EXCEPT ![r] = v] /\ UNCHANGED <<stock, order, cart, toss, faults>>
      /\ \A x \in notice' : x \in Payments /\ toss[x].status # "NONE"
      /\ Exists(o)
  BY <1>1, <1>2, <1>3 DEF WebhookStart, Exists, IInv, TypeOK
<1>6. /\ held => order[o].reserved
      /\ status = "PENDING" => (held <=> order[o].reserved)
  BY <1>2, <1>3 DEF IInv, OrderInv, TypeOK, OrderRow
<1> HIDE DEF v
<1>7. ReqInv(v)
  BY <1>1, <1>4, <1>5, <1>6 DEF ReqInv, HookRead
<1> QED BY <1>4, <1>5, <1>7, ReadStep DEF IInv, TypeOK

\* What the payment says the order is to become.
LEMMA WebhookGetPaymentInv ==
    ASSUME IInv, NEW r \in Requests, WebhookGetPayment(r)
    PROVE  IInv'
<1>1. PICK q \in Request : q = req[r]
  BY DEF IInv, TypeOK
<1>2. HookRead(q) /\ (q.status = "PENDING" => (q.held <=> order[q.order].reserved))
  BY <1>1 DEF WebhookGetPayment, IInv, ReqInv
<1>3. q.pay \in Payments /\ q.order \in Orders /\ toss[q.pay].order = q.order
      /\ Exists(q.order)
  BY <1>2 DEF HookRead
<1>4. CASE Done(r)
  BY <1>4, DoneStep DEF WebhookGetPayment, IInv, TypeOK
<1>5. CASE ~Done(r)
  <2>1. PICK status : status = WebhookStatus(q.pay, q.status)
    OBVIOUS
  <2>2. PICK cancelled \in Nat : cancelled = toss[q.pay].cancelled
    BY <1>3 DEF IInv, TypeOK, TossRow
  <2> DEFINE v == [q EXCEPT !.pc = "hook_write", !.status = status,
                            !.cancelled = cancelled]
  <2>3. /\ PaymentIdentity(q.order, q.pay) /\ status # q.status
        /\ req' = [req EXCEPT ![r] = v]
        /\ UNCHANGED <<stock, order, cart, toss, notice, faults>>
    BY <1>1, <1>5, <2>1, <2>2 DEF WebhookGetPayment, IInv, TypeOK
  <2>4. Matches(q.pay, q.order)
    BY <1>3, <2>3 DEF Matches, PaymentIdentity
  <2>5. TossInv(q.pay) /\ toss[q.pay] \in TossRow
    BY <1>3 DEF IInv, TypeOK
  <2>6. \/ status = "PAID" /\ Approved(q.pay)
        \/ status = "CANCELED" /\ toss[q.pay].status = "CANCELED"
        \/ status = "FAILED" /\ q.status = "PENDING" /\ toss[q.pay].status = "ABORTED"
    BY <2>1, <2>3, <2>5 DEF WebhookStatus, MapStatus, Approved, TossRow, TossStatus
  <2>7. /\ v \in Request /\ v.pc = "hook_write" /\ v.order = q.order /\ v.pay = q.pay
        /\ v.status = status /\ v.held = q.held /\ v.cancelled = cancelled
    BY ZenonT(60), <2>6 DEF Request, Pc, OrderStatus
  <2> HIDE DEF v
  <2>8. status = "CANCELED" => /\ GivenBack(q.pay, q.order)
                               /\ cancelled = order[q.order].amount
    BY <2>2, <2>4, <2>5, <2>6 DEF GivenBack, Matches, TossInv, Approved
  <2>9. HookRead(v)
    BY <1>2, <2>7 DEF HookRead
  <2>10. ReqInv(v)
    BY <1>2, <1>3, <2>4, <2>6, <2>7, <2>8, <2>9 DEF ReqInv
  <2> QED BY <2>3, <2>7, <2>10, ReadStep DEF IInv, TypeOK
<1> QED BY <1>4, <1>5

\* A refund takes the payment of a PAID order.
LEMMA RefundStartInv ==
    ASSUME IInv, NEW r \in Requests, NEW o \in Orders, RefundStart(r, o)
    PROVE  IInv'
<1>1. order[o].status = "PAID" /\ OrderInv(o)
  BY DEF RefundStart, IInv
<1>2. PICK p \in Payments : p = order[o].payId
  BY <1>1 DEF OrderInv, Collected, Matches
<1> DEFINE v == [Idle EXCEPT !.pc = "refund_get", !.order = o, !.pay = p]
<1>3. v \in Request /\ v.pc = "refund_get" /\ v.order = o /\ v.pay = p
  BY IdleIsRequest DEF Idle, Request, Pc
<1>4. req' = [req EXCEPT ![r] = v] /\ UNCHANGED <<stock, order, cart, toss, notice, faults>>
  BY <1>2 DEF RefundStart
<1> HIDE DEF v
<1>5. ReqInv(v)
  BY <1>1, <1>3 DEF ReqInv, Exists
<1> QED BY <1>3, <1>4, <1>5, ReadStep DEF IInv, TypeOK

\* Only a payment of the order that is collected, or given back altogether,
\* goes on.
LEMMA RefundGetPaymentInv ==
    ASSUME IInv, NEW r \in Requests, RefundGetPayment(r)
    PROVE  IInv'
<1>1. PICK q \in Request : q = req[r]
  BY DEF IInv, TypeOK
<1>2. q.order \in Orders /\ q.pay \in Payments /\ Exists(q.order)
  BY <1>1 DEF RefundGetPayment, IInv, ReqInv
<1>3. CASE Done(r)
  BY <1>3, DoneStep DEF RefundGetPayment, IInv, TypeOK
<1>4. CASE ~Done(r)
  <2>1. PICK open : open = order[q.order].amount - toss[q.pay].cancelled
    OBVIOUS
  <2>2. PICK pc \in {"refund_cancel", "refund_write"} :
           pc = IF open > 0 THEN "refund_cancel" ELSE "refund_write"
    OBVIOUS
  <2>3. PICK cancelled \in Nat : cancelled = toss[q.pay].cancelled
    BY <1>2 DEF IInv, TypeOK, TossRow
  <2> DEFINE v == [q EXCEPT !.pc = pc, !.cancelled = cancelled]
  <2>4. /\ PaymentIdentity(q.order, q.pay)
        /\ open > 0 => MapStatus(toss[q.pay].status) = "paid"
        /\ req' = [req EXCEPT ![r] = v]
        /\ UNCHANGED <<stock, order, cart, toss, notice, faults>>
    BY Zenon, <1>1, <1>4, <2>1, <2>2, <2>3 DEF RefundGetPayment, IInv, TypeOK
  <2>5. /\ v \in Request /\ v.pc = pc /\ v.order = q.order /\ v.pay = q.pay
        /\ v.cancelled = cancelled
    BY DEF Request, Pc
  <2>6. /\ Matches(q.pay, q.order) /\ TossInv(q.pay) /\ toss[q.pay] \in TossRow
        /\ order[q.order].amount \in Nat /\ order[q.order].amount > 0
    BY <1>2, <2>4 DEF Matches, PaymentIdentity, IInv, TypeOK, OrderRow, OrderInv
  <2> HIDE DEF v
  <2>7. open > 0 => Collected(q.pay, q.order)
    BY <2>4, <2>6 DEF MapStatus, Collected, Approved, TossRow, TossStatus
  <2>8. ~(open > 0) => /\ GivenBack(q.pay, q.order)
                       /\ cancelled = order[q.order].amount
    <3>1. ASSUME ~(open > 0) PROVE toss[q.pay].cancelled = toss[q.pay].amount
      BY <2>1, <2>6, <3>1 DEF TossInv, TossRow, Matches
    <3>2. ASSUME ~(open > 0) PROVE toss[q.pay].status = "CANCELED"
      BY <3>1, <3>2, <2>6 DEF TossInv, Matches
    <3> QED BY <2>3, <2>6, <3>1, <3>2 DEF GivenBack, Matches
  <2>9. ReqInv(v)
    BY <1>2, <2>2, <2>5, <2>7, <2>8 DEF ReqInv
  <2> QED BY <2>2, <2>4, <2>5, <2>9, ReadStep DEF IInv, TypeOK
<1> QED BY <1>3, <1>4

\* The key of the refund was used for a complete cancellation only.
LEMMA RefundReplayedInv ==
    ASSUME IInv, NEW r \in Requests, RefundReplayed(r)
    PROVE  IInv'
<1>1. PICK q \in Request : q = req[r]
  BY DEF IInv, TypeOK
<1>2. Collected(q.pay, q.order) /\ toss[q.pay].refundKey
  BY <1>1 DEF RefundReplayed, IInv, ReqInv
<1>3. q.pay \in Payments /\ q.order \in Orders /\ Exists(q.order)
      /\ toss[q.pay].amount = order[q.order].amount
  BY <1>2 DEF Collected, Matches
<1>4. PICK cancelled \in Nat : cancelled = toss[q.pay].amount
  BY <1>3 DEF IInv, TypeOK, TossRow
<1> DEFINE v == [q EXCEPT !.pc = "refund_write", !.cancelled = cancelled]
<1>5. /\ v \in Request /\ v.pc = "refund_write" /\ v.order = q.order /\ v.pay = q.pay
      /\ v.cancelled = cancelled
  BY DEF Request, Pc
<1>6. req' = [req EXCEPT ![r] = v] /\ UNCHANGED <<stock, order, cart, toss, notice, faults>>
  BY <1>1, <1>4 DEF RefundReplayed, IInv, TypeOK
<1> HIDE DEF v
<1>7. GivenBack(q.pay, q.order)
  BY <1>2, <1>3 DEF IInv, TossInv, GivenBack, Collected
<1>8. ReqInv(v)
  BY <1>3, <1>4, <1>5, <1>7 DEF ReqInv
<1> QED BY <1>5, <1>6, <1>8, ReadStep DEF IInv, TypeOK

\* A refused cancellation ends the request.
LEMMA RefundRejectedInv ==
    ASSUME IInv, NEW r \in Requests, RefundRejected(r)
    PROVE  IInv'
BY DoneStep DEF RefundRejected, IInv, TypeOK

\* A request that dies leaves a payment that exists to be announced again.
LEMMA RequestDiesInv ==
    ASSUME IInv, NEW r \in Requests, RequestDies(r)
    PROVE  IInv'
<1>1. faults' \in 0..MaxFaults
  BY StoreAssumption DEF RequestDies, IInv, TypeOK
<1>2. \A p \in notice' : p \in Payments /\ toss[p].status # "NONE"
  <2>1. req[r].pc \in {"hook_get", "hook_write"} =>
          req[r].pay \in Payments /\ toss[req[r].pay].status # "NONE"
    BY TossNoneAssumption DEF IInv, ReqInv, HookRead, TossInv
  <2> QED BY <2>1 DEF RequestDies, IInv, TypeOK
<1> QED BY <1>1, <1>2, DoneStep DEF RequestDies, IInv, TypeOK

-----------------------------------------------------------------------------
(* Steps that write the row of an order *)

\* The row of one order changes, the payments do not.
LEMMA RowStep ==
    ASSUME IInv, NEW o \in Orders, NEW row \in OrderRow,
           order' = [order EXCEPT ![o] = row], UNCHANGED toss,
           Exists(o) => /\ row.status # "NONE" /\ row.owner = order[o].owner
                        /\ row.amount = order[o].amount
                        /\ row.reserved = order[o].reserved,
           OrderInv(o)'
    PROVE  /\ Grows
           /\ order' \in [Orders -> OrderRow]
           /\ \A p \in Payments : TossInv(p)'
           /\ \A x \in Orders : OrderInv(x)'
<1>1. \A x \in Orders : order'[x] = IF x = o THEN row ELSE order[x]
  BY DEF IInv, TypeOK
<1>2. Grows
  BY <1>1 DEF Grows, Exists, Approved
<1>3. order' \in [Orders -> OrderRow]
  BY DEF IInv, TypeOK
<1> QED BY <1>1, <1>2, <1>3, GrowsOrder, GrowsToss

\* The conditional claim of a PENDING order: it fails and its stock is back.
LEMMA ReleaseStep ==
    ASSUME IInv, NEW o \in Orders, Release(o), UNCHANGED toss
    PROVE  /\ Grows
           /\ order' \in [Orders -> OrderRow] /\ stock' \in [Products -> Nat]
           /\ \A p \in Payments : TossInv(p)'
           /\ \A x \in Orders : OrderInv(x)'
           /\ StockInv'
           /\ \A x \in Orders : order[x].status = "NONE" => order'[x].status = "NONE"
<1>1. order[o] \in OrderRow /\ OrderInv(o) /\ order \in [Orders -> OrderRow]
      /\ stock \in [Products -> Nat]
  BY DEF IInv, TypeOK
<1>2. CASE UNCHANGED <<order, stock>>
  <2>1. Grows
    BY <1>2, GrowsStill
  <2>2. StockInv'
    BY <1>2, StockSame DEF Holding
  <2> QED BY <1>1, <1>2, <2>1, <2>2, GrowsOrder, GrowsToss
<1>3. CASE /\ order[o].status = "PENDING" /\ ~order[o].released
           /\ order' = [order EXCEPT ![o].status = "FAILED", ![o].released = TRUE]
           /\ stock' = IF order[o].reserved THEN Returned(o) ELSE stock
  <2> DEFINE row == [order[o] EXCEPT !.status = "FAILED", !.released = TRUE]
  <2>1. /\ row \in OrderRow /\ row.status = "FAILED" /\ row.released
        /\ row.owner = order[o].owner /\ row.amount = order[o].amount
        /\ row.reserved = order[o].reserved /\ row.items = order[o].items
    BY <1>1 DEF OrderRow, OrderStatus
  <2>2. order' = [order EXCEPT ![o] = row]
    BY <1>1, <1>3
  <2> HIDE DEF row
  <2>3. \A x \in Orders : order'[x] = IF x = o THEN row ELSE order[x]
    BY <1>1, <2>2
  <2>4. OrderInv(o)'
    BY <1>1, <1>3, <2>1, <2>3 DEF OrderInv, Exists
  <2>5. stock' \in [Products -> Nat]
    BY <1>1, <1>3, StoreAssumption DEF Returned, OrderRow
  <2>6. StockInv'
    <3>1. CASE order[o].reserved
      <4>1. stock' = Returned(o) /\ order'[o].released
        BY <1>3, <2>1, <2>3, <3>1
      <4>2. \A x \in Orders : /\ order'[x].items = order[x].items
                              /\ order'[x].reserved = order[x].reserved
                              /\ x # o => order'[x].released = order[x].released
        BY <2>1, <2>3
      <4> QED BY <3>1, <4>1, <4>2, StockGivenBack
    <3>2. CASE ~order[o].reserved
      BY ZenonT(60), <1>3, <2>1, <2>3, <3>2, StockSame DEF Holding
    <3> QED BY <3>1, <3>2
  <2> QED BY <1>3, <2>1, <2>2, <2>3, <2>4, <2>5, <2>6, RowStep
<1> QED BY <1>2, <1>3 DEF Release

\* An order id drawn by a checkout is not in the database yet.
LEMMA DrawnIsAbsent ==
    ASSUME IInv, NEW x \in Requests, req[x].pc = "create"
    PROVE  req[x].order \in Orders /\ order[req[x].order].status = "NONE"
BY DEF IInv, ReqInv, Exists

\* The sweep releases the orders of its list one by one.
LEMMA SweepReleaseInv ==
    ASSUME IInv, NEW r \in Requests, NEW o \in Orders, SweepRelease(r, o)
    PROVE  IInv'
<1>1. PICK q \in Request : q = req[r]
  BY DEF IInv, TypeOK
<1>2. PICK todo \in SUBSET Orders : todo = q.todo \ {o}
  BY DEF Request
<1>3. PICK pc \in {"shop", "sweep"} : pc = IF q.todo = {o} THEN "shop" ELSE "sweep"
  OBVIOUS
<1> DEFINE v == [q EXCEPT !.todo = todo, !.pc = pc]
<1>4. v \in Request /\ v.pc = pc /\ v.order = q.order
  BY DEF Request, Pc
<1>5. /\ req' = [req EXCEPT ![r] = v] /\ Release(o) /\ q.pc = "sweep"
      /\ UNCHANGED <<cart, toss, notice, faults>>
  BY <1>1, <1>2, <1>3 DEF SweepRelease, IInv, TypeOK
<1> HIDE DEF v
<1>6. v.order \in Orders => Exists(v.order)
  BY <1>1, <1>4, <1>5 DEF IInv, ReqInv
<1>7. ReqInv(v)
  BY <1>4, <1>6 DEF ReqInv
<1>8. /\ Grows /\ order' \in [Orders -> OrderRow] /\ stock' \in [Products -> Nat]
      /\ \A p \in Payments : TossInv(p)'
      /\ \A x \in Orders : OrderInv(x)'
      /\ StockInv'
      /\ \A x \in Orders : order[x].status = "NONE" => order'[x].status = "NONE"
  BY <1>5, ReleaseStep
<1>9. ReqInv(v)'
  BY <1>4, <1>7, <1>8, GrowsReq
<1>10. TypeOK' /\ \A p \in notice' : toss'[p].status # "NONE"
  BY <1>4, <1>5, <1>8 DEF IInv, TypeOK
<1> QED BY <1>4, <1>5, <1>6, <1>8, <1>9, <1>10, DrawnIsAbsent, WriteStep

\* A confirmation that came too late releases the order.
LEMMA ConfirmReleaseInv ==
    ASSUME IInv, NEW r \in Requests, ConfirmRelease(r)
    PROVE  IInv'
<1>1. PICK o \in Orders : o = req[r].order
  BY DEF ConfirmRelease, IInv, ReqInv
<1>2. Release(o) /\ req' = [req EXCEPT ![r] = Idle] /\ UNCHANGED <<cart, toss, notice, faults>>
  BY <1>1 DEF ConfirmRelease, Done
<1>3. /\ Grows /\ order' \in [Orders -> OrderRow] /\ stock' \in [Products -> Nat]
      /\ \A p \in Payments : TossInv(p)'
      /\ \A x \in Orders : OrderInv(x)'
      /\ StockInv'
      /\ \A x \in Orders : order[x].status = "NONE" => order'[x].status = "NONE"
  BY <1>2, ReleaseStep
<1>4. ReqInv(Idle)' /\ Idle.pc # "create"
  BY <1>3, IdleIsRequest, GrowsReq DEF Idle
<1>5. TypeOK' /\ \A p \in notice' : toss'[p].status # "NONE"
  BY <1>2, <1>3, IdleIsRequest DEF IInv, TypeOK
<1> QED BY <1>2, <1>3, <1>4, <1>5, IdleIsRequest, DrawnIsAbsent, WriteStep

\* What a payment takes out of the cart leaves a cart.
LEMMA CartClearedType ==
    ASSUME IInv, NEW o \in Orders
    PROVE  CartCleared(o) \in [Users -> [Products -> Nat]]
BY DEF CartCleared, IInv, TypeOK

\* The request ends after writing one row; nothing goes back on the shelf.
LEMMA RowWritten ==
    ASSUME IInv, NEW r \in Requests, Done(r), NEW o \in Orders, NEW row \in OrderRow,
           order' = [order EXCEPT ![o] = row], UNCHANGED <<toss, notice, faults>>,
           cart' \in [Users -> [Products -> Nat]], stock' \in [Products -> Nat],
           Exists(o), row.status # "NONE", row.owner = order[o].owner,
           row.amount = order[o].amount, row.reserved = order[o].reserved,
           OrderInv(o)', StockInv'
    PROVE  IInv'
<1>1. /\ Grows /\ order' \in [Orders -> OrderRow]
      /\ \A p \in Payments : TossInv(p)'
      /\ \A x \in Orders : OrderInv(x)'
  BY RowStep
<1>2. req' = [req EXCEPT ![r] = Idle] /\ Idle.pc # "create"
  BY DEF Done, Idle
<1>3. ReqInv(Idle)'
  BY <1>1, <1>2, IdleIsRequest, GrowsReq
<1>4. TypeOK' /\ \A p \in notice' : toss'[p].status # "NONE"
  BY <1>1, <1>2, IdleIsRequest DEF IInv, TypeOK
<1>5. \A x \in Requests : req[x].pc = "create" => order'[req[x].order].status = "NONE"
  BY DrawnIsAbsent DEF Exists, IInv, TypeOK
<1> QED BY <1>1, <1>2, <1>3, <1>4, <1>5, IdleIsRequest, WriteStep

\* The claim of a PENDING order that Toss has collected the money for.
LEMMA ConfirmCommitInv ==
    ASSUME IInv, NEW r \in Requests, ConfirmCommit(r)
    PROVE  IInv'
<1>1. PICK o \in Orders, p \in Payments : o = req[r].order /\ p = req[r].pay
  BY DEF ConfirmCommit, IInv, ReqInv, Collected, Matches
<1>2. Collected(p, o)
  BY <1>1 DEF ConfirmCommit, IInv, ReqInv
<1>3. CASE UNCHANGED <<order, cart>>
  BY <1>3, DoneStep DEF ConfirmCommit, IInv, TypeOK
<1>4. CASE /\ order[o].status = "PENDING"
           /\ order' = [order EXCEPT ![o].status = "PAID", ![o].payId = p]
           /\ cart' = CartCleared(o)
  <2> DEFINE row == [order[o] EXCEPT !.status = "PAID", !.payId = p]
  <2>1. order[o] \in OrderRow /\ OrderInv(o) /\ order \in [Orders -> OrderRow]
    BY DEF IInv, TypeOK
  <2>2. /\ row \in OrderRow /\ row.status = "PAID" /\ row.payId = p
        /\ row.owner = order[o].owner /\ row.amount = order[o].amount
        /\ row.reserved = order[o].reserved /\ row.items = order[o].items
        /\ row.released = order[o].released
    BY <2>1 DEF OrderRow, OrderStatus
  <2>3. order' = [order EXCEPT ![o] = row]
    BY <1>4, <2>1
  <2> HIDE DEF row
  <2>4. \A x \in Orders : order'[x] = IF x = o THEN row ELSE order[x]
    BY <2>1, <2>3
  <2>5. Done(r) /\ UNCHANGED <<stock, toss, notice, faults>>
    BY DEF ConfirmCommit
  <2>6. Collected(p, o)'
    BY <1>2, <2>2, <2>4, <2>5 DEF Collected, Matches, Exists, Approved
  <2>7. order'[o].payId = p /\ order'[o].status = "PAID"
    BY <2>2, <2>4
  <2>8. Collected(order[o].payId, o)'
    BY <2>6, <2>7 DEF Collected, Matches, Exists, Approved
  <2>9. OrderInv(o)'
    BY <2>1, <2>2, <2>4, <2>7, <2>8, <1>4 DEF OrderInv, Exists
  <2>10. StockInv'
    BY <2>2, <2>4, <2>5, StockSame DEF Holding
  <2>11. cart' \in [Users -> [Products -> Nat]] /\ stock' \in [Products -> Nat]
    BY <1>4, <2>5, CartClearedType DEF IInv, TypeOK
  <2> QED BY <1>4, <2>2, <2>3, <2>5, <2>9, <2>10, <2>11, RowWritten DEF Exists
<1> QED BY <1>1, <1>3, <1>4 DEF ConfirmCommit

\* Toss has given everything back before the row says so.
LEMMA RefundWriteInv ==
    ASSUME IInv, NEW r \in Requests, RefundWrite(r)
    PROVE  IInv'
<1>1. PICK q \in Request : q = req[r]
  BY DEF IInv, TypeOK
<1>2. GivenBack(q.pay, q.order) /\ q.cancelled = order[q.order].amount
  BY <1>1 DEF RefundWrite, IInv, ReqInv
<1>3. PICK o \in Orders, p \in Payments : o = q.order /\ p = q.pay
  BY <1>2 DEF GivenBack, Matches
<1> DEFINE row == [order[o] EXCEPT !.status = "CANCELED", !.refunded = q.cancelled]
<1>4. order[o] \in OrderRow /\ OrderInv(o) /\ order \in [Orders -> OrderRow]
      /\ q.cancelled \in Nat
  BY DEF IInv, TypeOK, Request
<1>5. /\ row \in OrderRow /\ row.status = "CANCELED" /\ row.refunded = q.cancelled
      /\ row.owner = order[o].owner /\ row.amount = order[o].amount
      /\ row.reserved = order[o].reserved /\ row.items = order[o].items
      /\ row.released = order[o].released
  BY <1>4 DEF OrderRow, OrderStatus
<1>6. /\ order' = [order EXCEPT ![o] = row] /\ Done(r)
      /\ UNCHANGED <<stock, cart, toss, notice, faults>>
  BY <1>1, <1>3, <1>4 DEF RefundWrite
<1> HIDE DEF row
<1>7. \A x \in Orders : order'[x] = IF x = o THEN row ELSE order[x]
  BY <1>4, <1>6
<1>8. Exists(o) /\ GivenBack(p, o)
  BY <1>2, <1>3 DEF GivenBack, Matches
<1>9. GivenBack(p, o)'
  BY <1>5, <1>6, <1>7, <1>8 DEF GivenBack, Matches, Exists
<1>10. OrderInv(o)'
  BY <1>2, <1>3, <1>4, <1>5, <1>7, <1>8, <1>9 DEF OrderInv, Exists
<1>11. StockInv'
  BY <1>5, <1>6, <1>7, StockSame DEF Holding
<1> QED BY <1>5, <1>6, <1>8, <1>10, <1>11, RowWritten DEF IInv, TypeOK

\* The webhook's row: PAID if Toss collected, CANCELED if it gave everything
\* back, FAILED if the payment was aborted, with the stock that was held.
LEMMA WebhookWriteInv ==
    ASSUME IInv, NEW r \in Requests, WebhookWrite(r)
    PROVE  IInv'
<1>1. PICK q \in Request : q = req[r]
  BY DEF IInv, TypeOK
<1>2. /\ HookRead(q) /\ Matches(q.pay, q.order)
      /\ \/ q.status = "PAID" /\ Approved(q.pay)
         \/ /\ q.status = "CANCELED" /\ GivenBack(q.pay, q.order)
            /\ q.cancelled = order[q.order].amount
         \/ /\ q.status = "FAILED" /\ toss[q.pay].status = "ABORTED"
            /\ q.held <=> order[q.order].reserved
  BY ZenonT(60), <1>1 DEF WebhookWrite, IInv, ReqInv
<1>3. PICK o \in Orders, p \in Payments : o = q.order /\ p = q.pay
  BY <1>2 DEF Matches
<1>4. order[o] \in OrderRow /\ OrderInv(o) /\ order \in [Orders -> OrderRow]
      /\ q.cancelled \in Nat /\ q.status \in OrderStatus /\ q.held \in BOOLEAN
      /\ stock \in [Products -> Nat]
  BY DEF IInv, TypeOK, Request
<1>5. PICK released \in BOOLEAN :
         released = (order[o].released \/ (q.status # "PAID" /\ q.held))
  OBVIOUS
<1> DEFINE row == [order[o] EXCEPT !.status = q.status, !.payId = p,
                                   !.refunded = q.cancelled, !.released = released]
<1>6. /\ row \in OrderRow /\ row.status = q.status /\ row.payId = p
      /\ row.refunded = q.cancelled /\ row.released = released
      /\ row.owner = order[o].owner /\ row.amount = order[o].amount
      /\ row.reserved = order[o].reserved /\ row.items = order[o].items
  BY <1>4 DEF OrderRow
<1>7. WebhookReleased(r) = released
  BY <1>1, <1>3, <1>5, <1>4 DEF WebhookReleased, OrderRow
<1>8. /\ order' = [order EXCEPT ![o].status = q.status, ![o].payId = p,
                                ![o].refunded = q.cancelled, ![o].released = released]
      /\ cart' = IF q.status = "PAID" THEN CartCleared(o) ELSE cart
      /\ stock' = IF q.status # "PAID" /\ q.held THEN Returned(o) ELSE stock
      /\ Done(r) /\ UNCHANGED <<toss, notice, faults>>
  BY <1>1, <1>3, <1>7 DEF WebhookWrite
<1>9. order' = [order EXCEPT ![o] = row]
  BY <1>4, <1>8
<1> HIDE DEF row
<1>10. \A x \in Orders : order'[x] = IF x = o THEN row ELSE order[x]
  BY <1>4, <1>9
<1>11. Exists(o) /\ Matches(p, o) /\ (q.held => order[o].reserved)
  BY <1>2, <1>3 DEF HookRead, Matches
<1>12. /\ Matches(p, o)'
       /\ q.status = "PAID" => Collected(p, o)'
       /\ q.status = "CANCELED" => GivenBack(p, o)'
  <2>1. row.status # "NONE"
    BY <1>2, <1>6
  <2>2. Matches(p, o)'
    BY ZenonT(60), <1>6, <1>8, <1>10, <1>11, <2>1 DEF Matches, Exists
  <2> QED BY <1>2, <1>3, <1>8, <2>2 DEF Collected, GivenBack, Approved
<1>13. OrderInv(o)'
  <2>1. order'[o] = row
    BY <1>10
  <2>2. /\ order'[o].status = q.status /\ order'[o].payId = p
        /\ order'[o].refunded = q.cancelled /\ order'[o].released = released
        /\ order'[o].owner = order[o].owner /\ order'[o].amount = order[o].amount
        /\ order'[o].reserved = order[o].reserved /\ order'[o].items = order[o].items
    BY <1>6, <2>1
  <2>3. order'[o].status = "PAID" => Collected(order[o].payId, o)'
    BY <1>12, <2>2 DEF Collected, Matches, Exists, Approved
  <2>4. order'[o].status = "CANCELED" => /\ order'[o].refunded = order'[o].amount
                                         /\ \E x \in Payments : GivenBack(x, o)'
    BY <1>2, <1>3, <1>12, <2>2
  <2>5. order'[o].status = "FAILED" /\ order'[o].reserved => order'[o].released
    BY <1>2, <1>3, <1>5, <2>2
  <2>6. order'[o].owner \in Users /\ order'[o].amount > 0
        /\ order'[o].status \notin {"NONE", "PENDING"}
    BY <1>2, <1>4, <1>11, <2>2 DEF OrderInv
  <2>7. ~order'[o].reserved => \A x \in Stocked : order'[o].items[x] = 0
    BY <1>4, <2>2 DEF OrderInv
  <2> QED BY <2>3, <2>4, <2>5, <2>6, <2>7 DEF OrderInv, Exists
<1>14. StockInv'
  <2>1. \A x \in Orders : /\ order'[x].items = order[x].items
                          /\ order'[x].reserved = order[x].reserved
                          /\ x # o => order'[x].released = order[x].released
    BY <1>6, <1>10
  <2>2. CASE q.status # "PAID" /\ q.held
    <3>1. stock' = Returned(o) /\ order'[o].released /\ order[o].reserved
      BY <1>5, <1>6, <1>8, <1>10, <1>11, <2>2
    <3> QED BY <2>1, <3>1, StockGivenBack
  <2>3. CASE ~(q.status # "PAID" /\ q.held)
    <3>1. stock' = stock /\ order'[o].released = order[o].released
      BY <1>4, <1>5, <1>6, <1>8, <1>10, <2>3 DEF OrderRow
    <3>2. Holding' = Holding
      BY <2>1, <3>1 DEF Holding
    <3> QED BY <2>1, <3>1, <3>2, StockSame DEF Holding
  <2> QED BY <2>2, <2>3
<1>15. cart' \in [Users -> [Products -> Nat]] /\ stock' \in [Products -> Nat]
  <2>1. Returned(o) \in [Products -> Nat]
    BY <1>4, StoreAssumption DEF Returned, OrderRow
  <2> QED BY <1>8, <2>1, CartClearedType DEF IInv, TypeOK
<1>16. row.status # "NONE"
  BY <1>2, <1>6
<1> QED BY <1>6, <1>8, <1>9, <1>11, <1>13, <1>14, <1>15, <1>16, RowWritten

\* createCheckout: the order holds what left the shelf, or nothing happens.
LEMMA CheckoutCreateInv ==
    ASSUME IInv, NEW r \in Requests, CheckoutCreate(r)
    PROVE  IInv'
<1>1. PICK q \in Request : q = req[r]
  BY DEF IInv, TypeOK
<1>2. q.pc = "create" /\ q.order \in Orders /\ q.user \in Users /\ ~Exists(q.order)
      /\ q.amount > 0 /\ q.items \in [Products -> Nat] /\ q.amount \in Nat
  BY <1>1 DEF CheckoutCreate, IInv, ReqInv, Request
<1>3. PICK o \in Orders, items \in [Products -> Nat], u \in Users, amount \in Nat :
         o = q.order /\ items = q.items /\ u = q.user /\ amount = q.amount
  BY <1>2
<1>4. CASE UNCHANGED <<stock, order>>
  BY <1>4, DoneStep DEF CheckoutCreate, IInv, TypeOK
<1>5. CASE InStock(items) /\ ~UNCHANGED <<stock, order>>
  <2>1. PICK reserved \in BOOLEAN : reserved = \E p \in Stocked : items[p] > 0
    OBVIOUS
  <2> DEFINE row == [AbsentOrder EXCEPT !.status = "PENDING", !.owner = u,
                        !.items = items, !.amount = amount, !.reserved = reserved]
  <2>2. /\ stock' = [p \in Products |->
                       IF p \in Stocked THEN stock[p] - items[p] ELSE stock[p]]
        /\ order' = [order EXCEPT ![o] = row]
        /\ Done(r) /\ UNCHANGED <<cart, toss, notice, faults>>
    BY <1>1, <1>3, <1>5, <2>1 DEF CheckoutCreate
  <2>3. /\ row \in OrderRow /\ row.status = "PENDING" /\ row.owner = u
        /\ row.items = items /\ row.amount = amount /\ row.reserved = reserved
        /\ row.released = FALSE
    BY DEF AbsentOrder, NoItems, OrderRow, OrderStatus, Expiry
  <2> HIDE DEF row
  <2>4. order \in [Orders -> OrderRow] /\ stock \in [Products -> Nat] /\ OrderInv(o)
    BY DEF IInv, TypeOK
  <2>5. \A x \in Orders : order'[x] = IF x = o THEN row ELSE order[x]
    BY <2>2, <2>4
  <2>6. ~Exists(o) /\ amount > 0
    BY <1>2, <1>3
  <2>7. OrderInv(o)'
    <3>1. /\ order'[o].status = "PENDING" /\ order'[o].owner = u
          /\ order'[o].items = items /\ order'[o].amount = amount
          /\ order'[o].reserved = reserved /\ order'[o].released = FALSE
      BY <2>3, <2>5
    <3>2. ~reserved => \A p \in Stocked : items[p] = 0
      BY <2>1, StoreAssumption
    <3> QED BY <2>6, <3>1, <3>2 DEF OrderInv, Exists
  <2>8. o \notin Holding
    BY <2>4, <2>6 DEF OrderInv, Holding
  <2>9. StockInv'
    <3>1. order'[o].items = items /\ ~order'[o].released
          /\ (order'[o].reserved <=> \E p \in Stocked : items[p] > 0)
      BY <2>1, <2>3, <2>5
    <3>2. \A x \in Orders \ {o} : order'[x] = order[x]
      BY <2>5
    <3> QED BY <2>2, <2>8, <3>1, <3>2, StockTaken
  <2>10. stock' \in [Products -> Nat]
    <3>1. ASSUME NEW p \in Products, p \in Stocked PROVE stock[p] - items[p] \in Nat
      BY <1>5, <2>4, <3>1 DEF InStock
    <3> QED BY <2>2, <2>4, <3>1
  <2>11. /\ Grows /\ order' \in [Orders -> OrderRow]
         /\ \A p \in Payments : TossInv(p)'
         /\ \A x \in Orders : OrderInv(x)'
    BY <2>2, <2>3, <2>6, <2>7, RowStep
  <2>12. req' = [req EXCEPT ![r] = Idle] /\ Idle.pc # "create"
    BY <2>2 DEF Done, Idle
  <2>13. ReqInv(Idle)'
    BY <2>11, <2>12, IdleIsRequest, GrowsReq
  <2>14. TypeOK' /\ \A p \in notice' : toss'[p].status # "NONE"
    BY <2>2, <2>10, <2>11, <2>12, IdleIsRequest DEF IInv, TypeOK
  <2>15. \A x \in Requests \ {r} :
            req[x].pc = "create" => order'[req[x].order].status = "NONE"
    <3>1. \A x \in Requests \ {r} : req[x].pc = "create" => req[x].order # o
      BY <1>1, <1>2, <1>3 DEF IInv, FreshIds
    <3> QED BY <2>5, <3>1, DrawnIsAbsent
  <2> QED BY <2>9, <2>11, <2>12, <2>13, <2>14, <2>15, IdleIsRequest, WriteStep
<1> QED BY <1>1, <1>3, <1>4, <1>5 DEF CheckoutCreate

\* The clock moves the expiry of a PENDING order only.
LEMMA TimePassesInv ==
    ASSUME IInv, NEW o \in Orders, TimePasses(o)
    PROVE  IInv'
<1>1. PICK e \in Expiry : e = IF order[o].expiry = "open" THEN "expired" ELSE "overdue"
  BY DEF Expiry
<1> DEFINE row == [order[o] EXCEPT !.expiry = e]
<1>2. order[o] \in OrderRow /\ OrderInv(o) /\ order \in [Orders -> OrderRow]
      /\ order[o].status = "PENDING"
  BY DEF IInv, TypeOK, TimePasses
<1>3. /\ row \in OrderRow /\ row.status = order[o].status /\ row.payId = order[o].payId
      /\ row.owner = order[o].owner /\ row.amount = order[o].amount
      /\ row.reserved = order[o].reserved /\ row.items = order[o].items
      /\ row.released = order[o].released
  BY <1>2 DEF OrderRow
<1>4. order' = [order EXCEPT ![o] = row]
      /\ UNCHANGED <<stock, cart, toss, notice, req, faults>>
  BY <1>1, <1>2 DEF TimePasses
<1> HIDE DEF row
<1>5. \A x \in Orders : order'[x] = IF x = o THEN row ELSE order[x]
  BY <1>2, <1>4
<1>6. OrderInv(o)'
  BY <1>2, <1>3, <1>5 DEF OrderInv, Exists
<1>7. /\ Grows /\ order' \in [Orders -> OrderRow]
      /\ \A p \in Payments : TossInv(p)'
      /\ \A x \in Orders : OrderInv(x)'
  BY <1>2, <1>3, <1>4, <1>6, RowStep
<1>8. StockInv'
  BY <1>3, <1>4, <1>5, StockSame DEF Holding
<1>9. TypeOK' /\ \A p \in notice' : toss'[p].status # "NONE"
  BY <1>4, <1>7 DEF IInv, TypeOK
<1>10. \A x \in Requests : req[x].pc = "create" => order'[req[x].order].status = "NONE"
  BY <1>2, <1>5, DrawnIsAbsent
<1> QED BY <1>4, <1>7, <1>8, <1>9, <1>10, EnvStep

-----------------------------------------------------------------------------
(* Steps of Toss *)

\* A payment goes on to t and takes nothing back.
Advances(p, t) ==
    /\ t \in TossRow /\ t.status # "NONE"
    /\ toss[p].status # "NONE" => t.order = toss[p].order /\ t.amount = toss[p].amount
    /\ Approved(p) => t.status \in {"DONE", "PARTIAL_CANCELED", "CANCELED"}
    /\ toss[p].status = "CANCELED" => t.status = "CANCELED"
    /\ toss[p].status # "ABORTED"

\* One payment advances; the rows and the shelf are as they were.
LEMMA TossStep ==
    ASSUME IInv, NEW p \in Payments, NEW t, Advances(p, t),
           toss' = [toss EXCEPT ![p] = t], UNCHANGED <<order, stock>>, TossInv(p)',
           notice' \subseteq notice \cup {p}
    PROVE  /\ Grows
           /\ toss' \in [Payments -> TossRow]
           /\ \A x \in notice' : toss'[x].status # "NONE"
           /\ \A x \in Payments : TossInv(x)'
           /\ \A o \in Orders : OrderInv(o)'
           /\ StockInv'
<1>1. \A x \in Payments : toss'[x] = IF x = p THEN t ELSE toss[x]
  BY DEF IInv, TypeOK
<1>2. Grows
  BY <1>1 DEF Grows, Advances, Approved, Exists
<1>3. toss' \in [Payments -> TossRow] /\ \A x \in notice' : toss'[x].status # "NONE"
  BY <1>1 DEF IInv, TypeOK, Advances
<1>4. StockInv'
  BY StockSame DEF Holding
<1> QED BY <1>1, <1>2, <1>3, <1>4, GrowsToss, GrowsOrder

\* Toss acts alone.
LEMMA TossAlone ==
    ASSUME IInv, NEW p \in Payments, NEW t, Advances(p, t),
           toss' = [toss EXCEPT ![p] = t], UNCHANGED <<stock, order, cart, req, faults>>,
           TossInv(p)', notice' \subseteq notice \cup {p}
    PROVE  IInv'
<1>1. /\ Grows /\ toss' \in [Payments -> TossRow]
      /\ \A x \in notice' : toss'[x].status # "NONE"
      /\ \A x \in Payments : TossInv(x)'
      /\ \A o \in Orders : OrderInv(o)'
      /\ StockInv'
  BY TossStep
<1>2. TypeOK'
  BY <1>1 DEF IInv, TypeOK
<1>3. \A x \in Requests : req[x].pc = "create" => order'[req[x].order].status = "NONE"
  BY DrawnIsAbsent
<1> QED BY <1>1, <1>2, <1>3, EnvStep

\* The buyer opens a payment for an order that exists.
LEMMA OpenPaymentInv ==
    ASSUME IInv, NEW p \in Payments, NEW o \in Orders, NEW a \in Amounts,
           OpenPayment(p, o, a)
    PROVE  IInv'
<1> DEFINE t == [Unopened EXCEPT !.status = "READY", !.order = o, !.amount = a]
<1>1. a \in Nat /\ a > 0
  BY StoreAssumption
<1>2. /\ t \in TossRow /\ t.status = "READY" /\ t.order = o /\ t.amount = a
      /\ t.cancelled = 0 /\ t.answered = "none" /\ t.refundKey = FALSE
  BY <1>1 DEF Unopened, TossRow, TossStatus
<1>3. /\ toss[p].status = "NONE" /\ Exists(o) /\ toss' = [toss EXCEPT ![p] = t]
      /\ toss'[p] = t /\ UNCHANGED <<stock, order, cart, req, notice, faults>>
  BY DEF OpenPayment, TossOpens, Exists, IInv, TypeOK
<1> HIDE DEF t
<1>4. Advances(p, t)
  BY <1>2, <1>3 DEF Advances, Approved
<1>5. TossInv(p)'
  BY <1>1, <1>2, <1>3 DEF TossInv, Approved, Exists
<1> QED BY <1>3, <1>4, <1>5, TossAlone

\* A payment that was not collected is aborted.
LEMMA PaymentAbortedInv ==
    ASSUME IInv, NEW p \in Payments, PaymentAborted(p)
    PROVE  IInv'
<1> DEFINE t == [toss[p] EXCEPT !.status = "ABORTED"]
<1>1. /\ TossInv(p) /\ toss[p] \in TossRow /\ toss[p].status \in {"READY", "WAITING"}
      /\ toss' = [toss EXCEPT ![p] = t] /\ toss'[p] = t
      /\ UNCHANGED <<stock, order, cart, req, faults>> /\ notice' = notice \cup {p}
  BY DEF IInv, TypeOK, PaymentAborted, TossAborts
<1>2. /\ t \in TossRow /\ t.status = "ABORTED" /\ t.order = toss[p].order
      /\ t.amount = toss[p].amount /\ t.cancelled = toss[p].cancelled
      /\ t.answered = toss[p].answered /\ t.refundKey = toss[p].refundKey
  BY <1>1 DEF TossRow, TossStatus
<1> HIDE DEF t
<1>3. Advances(p, t)
  BY <1>1, <1>2 DEF Advances, Approved
<1>4. TossInv(p)'
  BY <1>1, <1>2 DEF TossInv, Approved, Exists
<1> QED BY <1>1, <1>3, <1>4, TossAlone

\* A deposit that was awaited is collected.
LEMMA DepositArrivesInv ==
    ASSUME IInv, NEW p \in Payments, DepositArrives(p)
    PROVE  IInv'
<1> DEFINE t == [toss[p] EXCEPT !.status = "DONE"]
<1>1. /\ TossInv(p) /\ toss[p] \in TossRow /\ toss[p].status = "WAITING"
      /\ toss' = [toss EXCEPT ![p] = t] /\ toss'[p] = t
      /\ UNCHANGED <<stock, order, cart, req, faults>> /\ notice' = notice \cup {p}
  BY DEF IInv, TypeOK, DepositArrives, TossCollects
<1>2. /\ t \in TossRow /\ t.status = "DONE" /\ t.order = toss[p].order
      /\ t.amount = toss[p].amount /\ t.cancelled = toss[p].cancelled
      /\ t.answered = toss[p].answered /\ t.refundKey = toss[p].refundKey
  BY <1>1 DEF TossRow, TossStatus
<1> HIDE DEF t
<1>3. Advances(p, t)
  BY <1>1, <1>2 DEF Advances, Approved
<1>4. TossInv(p)'
  BY <1>1, <1>2 DEF TossInv, Approved, Exists, TossRow
<1> QED BY <1>1, <1>3, <1>4, TossAlone

\* The operator cancels in part or in full: CANCELED exactly at the amount.
LEMMA CancelledOutsideInv ==
    ASSUME IInv, NEW p \in Payments, NEW a \in 1..toss[p].amount,
           CancelledOutside(p, a)
    PROVE  IInv'
<1>1. TossInv(p) /\ toss[p] \in TossRow /\ toss[p].status \in {"DONE", "PARTIAL_CANCELED"}
      /\ toss[p].cancelled + a <= toss[p].amount
  BY DEF IInv, TypeOK, CancelledOutside, TossReturns
<1>2. PICK c \in Nat : c = toss[p].cancelled + a
  BY <1>1 DEF TossRow
<1>3. PICK s \in {"CANCELED", "PARTIAL_CANCELED"} :
         s = IF c = toss[p].amount THEN "CANCELED" ELSE "PARTIAL_CANCELED"
  OBVIOUS
<1> DEFINE t == [toss[p] EXCEPT !.status = s, !.cancelled = c]
<1>4. /\ toss' = [toss EXCEPT ![p] = t] /\ toss'[p] = t
      /\ UNCHANGED <<stock, order, cart, req, faults>> /\ notice' = notice \cup {p}
  BY <1>2, <1>3 DEF IInv, TypeOK, CancelledOutside, TossReturns
<1>5. /\ t \in TossRow /\ t.status = s /\ t.order = toss[p].order
      /\ t.amount = toss[p].amount /\ t.cancelled = c
      /\ t.answered = toss[p].answered /\ t.refundKey = toss[p].refundKey
  BY <1>1 DEF TossRow, TossStatus
<1> HIDE DEF t
<1>6. Advances(p, t)
  BY <1>1, <1>5 DEF Advances, Approved
<1>7. ~toss[p].refundKey
  BY <1>1 DEF TossInv
<1>8. TossInv(p)'
  BY <1>1, <1>2, <1>3, <1>4, <1>5, <1>7 DEF TossInv, Approved, Exists
<1> QED BY <1>4, <1>6, <1>8, TossAlone

\* A request hears from Toss what the step did to the payment.
LEMMA TossAnswers ==
    ASSUME IInv, NEW r \in Requests, NEW v \in Request, NEW p \in Payments, NEW t,
           Advances(p, t), toss' = [toss EXCEPT ![p] = t], TossInv(p)',
           UNCHANGED <<stock, order, cart, faults>>, notice' \subseteq notice \cup {p},
           req' = [req EXCEPT ![r] = v], ReqInv(v)', v.pc # "create",
           v.order \in Orders => Exists(v.order)
    PROVE  IInv'
<1>1. /\ Grows /\ toss' \in [Payments -> TossRow]
      /\ \A x \in notice' : toss'[x].status # "NONE"
      /\ \A x \in Payments : TossInv(x)'
      /\ \A o \in Orders : OrderInv(o)'
      /\ StockInv'
  BY TossStep
<1>2. TypeOK'
  BY <1>1 DEF IInv, TypeOK
<1>3. \A x \in Requests \ {r} :
         req[x].pc = "create" => order'[req[x].order].status = "NONE"
  BY DrawnIsAbsent
<1> QED BY <1>1, <1>2, <1>3, WriteStep

\* Toss confirms: the money is collected, or a deposit is awaited.
LEMMA ConfirmAtTossInv ==
    ASSUME IInv, NEW r \in Requests, NEW s \in {"DONE", "WAITING"}, ConfirmAtToss(r, s)
    PROVE  IInv'
<1>1. PICK q \in Request : q = req[r]
  BY DEF IInv, TypeOK
<1>2. PICK o \in Orders, p \in Payments : o = q.order /\ p = q.pay
  BY <1>1 DEF ConfirmAtToss, IInv, ReqInv
<1>3. /\ Exists(o) /\ TossInv(p) /\ toss[p] \in TossRow
      /\ toss[p].status = "READY" /\ toss[p].order = o
      /\ toss[p].amount = order[o].amount
  BY <1>1, <1>2 DEF ConfirmAtToss, TossConfirms, IInv, TypeOK, ReqInv
<1>4. PICK a \in PaymentStatus : a = MapStatus(s) /\ (a = "paid" <=> s = "DONE")
  BY DEF MapStatus, PaymentStatus
<1> DEFINE t == [toss[p] EXCEPT !.status = s, !.answered = a]
<1>5. /\ toss' = [toss EXCEPT ![p] = t] /\ toss'[p] = t
      /\ UNCHANGED <<stock, order, cart, faults>> /\ notice' = notice \cup {p}
  BY <1>1, <1>2, <1>4 DEF ConfirmAtToss, TossConfirms, IInv, TypeOK
<1>6. /\ t \in TossRow /\ t.status = s /\ t.order = o
      /\ t.amount = toss[p].amount /\ t.cancelled = toss[p].cancelled
      /\ t.answered = a /\ t.refundKey = toss[p].refundKey
  BY <1>3 DEF TossRow, TossStatus
<1> HIDE DEF t
<1>7. Advances(p, t)
  BY <1>3, <1>6 DEF Advances, Approved
<1>8. TossInv(p)'
  BY <1>3, <1>4, <1>5, <1>6 DEF TossInv, Approved, Exists, TossRow
<1>9. CASE s = "DONE"
  <2> DEFINE v == [q EXCEPT !.pc = "commit"]
  <2>1. v \in Request /\ v.pc = "commit" /\ v.order = o /\ v.pay = p
    BY <1>2 DEF Request, Pc
  <2>2. req' = [req EXCEPT ![r] = v]
    BY <1>1, <1>4, <1>9 DEF ConfirmAtToss, Goto
  <2> HIDE DEF v
  <2>3. Collected(p, o)'
    BY <1>3, <1>5, <1>6, <1>9 DEF Collected, Matches, Approved, Exists
  <2>4. ReqInv(v)'
    BY <1>3, <1>5, <2>1, <2>3 DEF ReqInv, Collected, Matches, Approved, Exists
  <2> QED BY <1>3, <1>5, <1>7, <1>8, <2>1, <2>2, <2>4, TossAnswers
<1>10. CASE s # "DONE"
  <2>1. req' = [req EXCEPT ![r] = Idle]
    BY <1>4, <1>10 DEF ConfirmAtToss, Done
  <2>2. ReqInv(Idle)' /\ Idle.pc # "create"
    BY IdleIsRequest DEF ReqInv, Idle
  <2> QED BY <1>5, <1>7, <1>8, <2>1, <2>2, IdleIsRequest, TossAnswers
<1> QED BY <1>9, <1>10

\* Toss gives back all that is left of the payment.
LEMMA RefundAtTossInv ==
    ASSUME IInv, NEW r \in Requests, RefundAtToss(r)
    PROVE  IInv'
<1>1. PICK q \in Request : q = req[r]
  BY DEF IInv, TypeOK
<1>2. Collected(q.pay, q.order)
  BY <1>1 DEF RefundAtToss, IInv, ReqInv
<1>3. PICK o \in Orders, p \in Payments : o = q.order /\ p = q.pay
  BY <1>2 DEF Collected, Matches
<1>4. PICK c \in Nat : c = toss[p].amount
  BY DEF IInv, TypeOK, TossRow
<1> DEFINE t == [toss[p] EXCEPT !.status = "CANCELED", !.cancelled = c, !.refundKey = TRUE]
           v == [q EXCEPT !.pc = "refund_write", !.cancelled = c]
<1>5. /\ toss' = [toss EXCEPT ![p] = t] /\ toss'[p] = t
      /\ UNCHANGED <<stock, order, cart, faults>> /\ notice' = notice \cup {p}
  BY Zenon, <1>1, <1>3, <1>4 DEF RefundAtToss, TossRefunds, IInv, TypeOK
<1>6. req' = [req EXCEPT ![r] = v]
  BY <1>1, <1>3, <1>4 DEF RefundAtToss, IInv, TypeOK
<1>7. TossInv(p) /\ toss[p] \in TossRow /\ Exists(o) /\ toss[p].order = o
      /\ toss[p].amount = order[o].amount /\ Approved(p)
  BY <1>2, <1>3 DEF Collected, Matches, IInv, TypeOK
<1>8. /\ t \in TossRow /\ t.status = "CANCELED" /\ t.order = o
      /\ t.amount = toss[p].amount /\ t.cancelled = c
      /\ t.answered = toss[p].answered /\ t.refundKey = TRUE
  BY <1>7 DEF TossRow, TossStatus
<1>9. /\ v \in Request /\ v.pc = "refund_write" /\ v.order = o /\ v.pay = p
      /\ v.cancelled = c
  BY <1>3 DEF Request, Pc
<1> HIDE DEF t, v
<1>10. Advances(p, t)
  BY <1>7, <1>8 DEF Advances, Approved
<1>11. TossInv(p)'
  BY <1>4, <1>5, <1>7, <1>8 DEF TossInv, Approved, Exists, TossRow
<1>12. GivenBack(p, o)'
  BY <1>5, <1>7, <1>8 DEF GivenBack, Matches, Exists
<1>13. ReqInv(v)'
  BY <1>4, <1>5, <1>7, <1>9, <1>12 DEF ReqInv, GivenBack, Matches, Exists
<1> QED BY <1>5, <1>6, <1>7, <1>9, <1>10, <1>11, <1>13, TossAnswers

\* removeCartItem touches the cart only.
LEMMA CartRemoveInv ==
    ASSUME IInv, NEW u \in Users, NEW p \in Products, CartRemove(u, p)
    PROVE  IInv'
<1>1. TypeOK' /\ \A x \in notice' : toss'[x].status # "NONE"
  BY DEF IInv, TypeOK, CartRemove
<1>2. Grows /\ UNCHANGED <<stock, order, toss, req>>
  BY GrowsStill DEF CartRemove
<1>3. \A x \in Requests : req[x].pc = "create" => order'[req[x].order].status = "NONE"
  BY <1>2, DrawnIsAbsent
<1>4. (\A x \in Payments : TossInv(x)') /\ (\A o \in Orders : OrderInv(o)')
  BY <1>2, GrowsToss, GrowsOrder
<1>5. StockInv'
  BY <1>2, StockSame DEF Holding
<1> QED BY <1>1, <1>2, <1>3, <1>4, <1>5, EnvStep

-----------------------------------------------------------------------------
(* The invariant *)

\* An empty shop: nothing was ordered, opened, set aside or asked for.
LEMMA InitInv == Init => IInv
<1> SUFFICES ASSUME Init PROVE IInv
  OBVIOUS
<1>1. /\ AbsentOrder \in OrderRow /\ AbsentOrder.status = "NONE"
      /\ AbsentOrder.reserved = FALSE /\ AbsentOrder.items = NoItems
      /\ AbsentOrder.released = FALSE
  BY StoreAssumption DEF AbsentOrder, NoItems, OrderRow, OrderStatus, Expiry
<1>2. /\ Unopened \in TossRow /\ Unopened.status = "NONE" /\ Unopened.answered = "none"
      /\ Unopened.order = None /\ Unopened.cancelled = 0 /\ Unopened.amount = 0
      /\ Unopened.refundKey = FALSE
  BY DEF Unopened, TossRow, TossStatus
<1>3. NoItems \in [Products -> Nat] /\ \A p \in Stocked : NoItems[p] = 0
  BY StoreAssumption DEF NoItems
<1>4. Idle.pc # "create"
  BY DEF Idle
<1>5. TypeOK
  BY <1>1, <1>2, <1>3, IdleIsRequest, StoreAssumption DEF Init, TypeOK
<1>6. \A p \in Payments : TossInv(p)
  BY <1>2 DEF Init, TossInv, Approved
<1>7. \A o \in Orders : OrderInv(o)
  BY <1>1, <1>3 DEF Init, OrderInv, Exists
<1>8. \A r \in Requests : ReqInv(req[r])
  BY IdleIsRequest DEF Init
<1>9. FreshIds
  BY <1>4 DEF Init, FreshIds
<1>10. StockInv
  <2> SUFFICES ASSUME NEW p \in Stocked
               PROVE  /\ IsFiniteSet(HeldUnits(p))
                      /\ stock[p] + Held(p) >= InitialStock[p]
    BY DEF StockInv
  <2>1. HeldUnits(p) = {}
    BY <1>1 DEF Init, HeldUnits, Holding
  <2>2. IsFiniteSet({}) /\ Cardinality({}) = 0
    BY FS_EmptySet
  <2>3. stock[p] = InitialStock[p] /\ InitialStock[p] \in Nat
    BY StoreAssumption DEF Init
  <2> QED BY <2>1, <2>2, <2>3 DEF Held
<1> QED BY <1>5, <1>6, <1>7, <1>8, <1>9, <1>10 DEF Init, IInv

\* Every step of every request, of Toss and of the clock keeps the invariant.
LEMMA NextInv == IInv /\ [Next]_vars => IInv'
<1> SUFFICES ASSUME IInv, [Next]_vars PROVE IInv'
  OBVIOUS
<1>1. CASE UNCHANGED vars
  <2>1. TypeOK' /\ (\A p \in notice' : toss'[p].status # "NONE") /\ Grows
    BY <1>1, GrowsStill DEF vars, IInv, TypeOK
  <2>2. (\A p \in Payments : TossInv(p)') /\ (\A o \in Orders : OrderInv(o)')
    BY <1>1, <2>1, GrowsToss, GrowsOrder DEF vars
  <2>3. StockInv'
    BY <1>1, StockSame DEF vars, Holding
  <2> QED BY <1>1, <2>1, <2>2, <2>3, DrawnIsAbsent, EnvStep DEF vars
<1>2. ASSUME NEW r \in Requests, Cart(r) PROVE IInv'
  BY <1>2, CartReadInv, CartPutInv DEF Cart
<1>3. ASSUME NEW r \in Requests, Shop(r) PROVE IInv'
  BY <1>3, SweepReadInv, SweepReleaseInv, ListProductsInv, CheckoutReadInv,
     CheckoutCreateInv DEF Shop
<1>4. ASSUME NEW r \in Requests, Confirm(r) PROVE IInv'
  BY <1>4, ConfirmStartInv, ConfirmReleaseInv, ConfirmAtTossInv,
     ConfirmReplayedInv, ConfirmRejectedInv, ConfirmCommitInv DEF Confirm
<1>5. ASSUME NEW r \in Requests, Webhook(r) PROVE IInv'
  BY <1>5, WebhookStartInv, WebhookGetPaymentInv, WebhookWriteInv DEF Webhook
<1>6. ASSUME NEW r \in Requests, Refund(r) PROVE IInv'
  BY <1>6, RefundStartInv, RefundGetPaymentInv, RefundAtTossInv,
     RefundReplayedInv, RefundRejectedInv, RefundWriteInv DEF Refund
<1>7. CASE Environment
  BY <1>7, CartRemoveInv, TimePassesInv, OpenPaymentInv, PaymentAbortedInv,
     DepositArrivesInv, CancelledOutsideInv, RequestDiesInv DEF Environment
<1> QED BY <1>1, <1>2, <1>3, <1>4, <1>5, <1>6, <1>7 DEF Next

-----------------------------------------------------------------------------
(* What happens to a PAID order *)

\* No step fails a PAID order that has one payment, or changes its payment.
PaidKept ==
    \A o \in Orders :
        /\ order[o].status = "PAID"
        /\ \A p \in Payments : toss[p].order = o => p = order[o].payId
        => /\ order'[o].status \in {"PAID", "CANCELED"}
           /\ order'[o].payId = order[o].payId

\* Orders that were PAID and have the row they had.
LEMMA SameRowsKept ==
    ASSUME \A o \in Orders : order[o].status = "PAID" => order'[o] = order[o]
    PROVE  PaidKept
BY DEF PaidKept

\* Only a PENDING order is released.
LEMMA ReleaseKept == ASSUME IInv, NEW o \in Orders, Release(o) PROVE PaidKept
BY SameRowsKept DEF Release, IInv, TypeOK

\* The shop never writes a PAID row.
LEMMA ShopKept == ASSUME IInv, NEW r \in Requests, Shop(r) PROVE PaidKept
<1>1. CASE CheckoutCreate(r)
  <2>1. req[r].pc = "create"
    BY <1>1 DEF CheckoutCreate
  <2>2. req[r].order \in Orders /\ order[req[r].order].status = "NONE"
    BY <2>1, DrawnIsAbsent
  <2> QED BY <1>1, <2>2, SameRowsKept DEF CheckoutCreate, IInv, TypeOK
<1>2. CASE ~CheckoutCreate(r)
  BY Zenon, <1>2, ReleaseKept, SameRowsKept
     DEF Shop, SweepRead, SweepRelease, ListProducts, CheckoutRead
<1> QED BY <1>1, <1>2

\* A confirmation claims or releases a PENDING row only.
LEMMA ConfirmKept == ASSUME IInv, NEW r \in Requests, Confirm(r) PROVE PaidKept
<1>1. CASE ConfirmRelease(r)
  <2>1. req[r].order \in Orders
    BY <1>1 DEF ConfirmRelease, IInv, ReqInv
  <2> QED BY <1>1, <2>1, ReleaseKept DEF ConfirmRelease
<1>2. CASE ConfirmCommit(r)
  BY <1>2, SameRowsKept DEF ConfirmCommit, IInv, TypeOK
<1>3. CASE ~ConfirmRelease(r) /\ ~ConfirmCommit(r)
  BY Zenon, <1>3, SameRowsKept
     DEF Confirm, ConfirmStart, ConfirmAtToss, ConfirmReplayed, ConfirmRejected
<1> QED BY <1>1, <1>2, <1>3

\* The webhook of the only payment of a PAID order reads a payment that was
\* collected, so it does not write FAILED, however old the row it read.
LEMMA WebhookKept == ASSUME IInv, NEW r \in Requests, Webhook(r) PROVE PaidKept
<1>1. CASE WebhookWrite(r)
  <2>1. PICK q : q = req[r]
    OBVIOUS
  <2>2. /\ Matches(q.pay, q.order)
        /\ q.status = "FAILED" => toss[q.pay].status = "ABORTED"
        /\ q.status \in {"PAID", "CANCELED", "FAILED"}
    BY Zenon, <1>1, <2>1 DEF WebhookWrite, IInv, ReqInv
  <2>3. PICK o \in Orders, p \in Payments : o = q.order /\ p = q.pay
    BY <2>2 DEF Matches
  <2>4. \A x \in Orders : x # o => order'[x] = order[x]
    BY <1>1, <2>1, <2>3 DEF WebhookWrite, IInv, TypeOK
  <2>5. order'[o].status = q.status /\ order'[o].payId = p
    BY <1>1, <2>1, <2>3 DEF WebhookWrite, IInv, TypeOK, OrderRow
  <2>6. toss[p].order = o
    BY <2>2, <2>3 DEF Matches
  <2>7. ASSUME order[o].status = "PAID", order[o].payId = p PROVE q.status # "FAILED"
    BY SMTT(60), <2>2, <2>3, <2>7 DEF IInv, OrderInv, Collected, Approved
  <2> QED BY <2>2, <2>4, <2>5, <2>6, <2>7 DEF PaidKept
<1>2. CASE ~WebhookWrite(r)
  BY Zenon, <1>2, SameRowsKept DEF Webhook, WebhookStart, WebhookGetPayment
<1> QED BY <1>1, <1>2

\* A refund writes CANCELED and leaves the payment on the row.
LEMMA RefundKept == ASSUME IInv, NEW r \in Requests, Refund(r) PROVE PaidKept
<1>1. CASE RefundWrite(r)
  <2>1. PICK o : o = req[r].order
    OBVIOUS
  <2>2. \A x \in Orders : x # o => order'[x] = order[x]
    BY <1>1, <2>1 DEF RefundWrite, IInv, TypeOK
  <2>3. o \in Orders =>
          order'[o].status = "CANCELED" /\ order'[o].payId = order[o].payId
    BY SMTT(60), <1>1, <2>1 DEF RefundWrite, IInv, TypeOK, OrderRow
  <2> QED BY <2>2, <2>3 DEF PaidKept
<1>2. CASE ~RefundWrite(r)
  BY Zenon, <1>2, SameRowsKept
     DEF Refund, RefundStart, RefundGetPayment, RefundAtToss, RefundReplayed,
         RefundRejected
<1> QED BY <1>1, <1>2

\* Outside the requests only the clock writes a row, a PENDING one.
LEMMA EnvironmentKept == ASSUME IInv, Environment PROVE PaidKept
<1>1. ASSUME NEW o \in Orders, TimePasses(o) PROVE PaidKept
  BY <1>1, SameRowsKept DEF TimePasses, IInv, TypeOK
<1>2. CASE UNCHANGED order
  BY <1>2, SameRowsKept
<1> QED BY <1>1, <1>2
        DEF Environment, CartRemove, OpenPayment, PaymentAborted, DepositArrives,
            CancelledOutside, RequestDies

\* No step at all.
LEMMA NextKept == IInv /\ [Next]_vars => [PaidKept]_vars
<1> SUFFICES ASSUME IInv, Next PROVE PaidKept
  OBVIOUS
<1>1. ASSUME NEW r \in Requests, Cart(r) PROVE PaidKept
  BY <1>1, SameRowsKept DEF Cart, CartRead, CartPut
<1> QED BY <1>1, ShopKept, ConfirmKept, WebhookKept, RefundKept, EnvironmentKept DEF Next

\* The inductive invariant holds, and no step takes a paid order back.
THEOREM Invariant == Spec => []IInv /\ [][PaidKept]_vars
<1>1. Init => IInv
  BY InitInv
<1>2. IInv /\ [Next]_vars => IInv'
  BY NextInv
<1>3. IInv /\ [Next]_vars => [PaidKept]_vars
  BY NextKept
<1> QED BY <1>1, <1>2, <1>3, PTL DEF Spec

-----------------------------------------------------------------------------
(* The properties *)

\* Every row and every request keeps its type; no stock falls below zero.
THEOREM StoreTypes == Spec => []TypeOK
<1>1. IInv => TypeOK
  BY DEF IInv
<1> QED BY <1>1, Invariant, PTL

\* No unit is lost on the way from the shelf into an order and back, whatever
\* requests race for it or die; a FAILED order holds nothing.
THEOREM StoreStock == Spec => []StockNeverLost
<1>1. IInv => StockNeverLost
  BY DEF IInv, StockInv, OrderInv, StockNeverLost
<1> QED BY <1>1, Invariant, PTL

\* A PAID order was paid: Toss collected its price for it under the key on
\* the row.
THEOREM StorePaid == Spec => []PaidIsCollected
<1>1. IInv => PaidIsCollected
  BY DEF IInv, OrderInv, Collected, Matches, PaidIsCollected
<1> QED BY <1>1, Invariant, PTL

\* A CANCELED order was given back: Toss returned what it cost.
THEOREM StoreCanceled == Spec => []CanceledIsReturned
<1>1. IInv => CanceledIsReturned
  BY DEF IInv, OrderInv, GivenBack, Matches, CanceledIsReturned
<1> QED BY <1>1, Invariant, PTL

\* A PAID order with one payment stays PAID under that payment until it is
\* cancelled.
THEOREM StorePaidStays == Spec => PaidStaysPaid
<1>1. [PaidKept]_vars =>
        [\A o \in Orders :
            /\ order[o].status = "PAID"
            /\ \A p \in Payments : toss[p].order = o => p = order[o].payId
            => /\ order'[o].status \in {"PAID", "CANCELED"}
               /\ order'[o].payId = order[o].payId]_vars
  BY DEF PaidKept
<1> QED BY <1>1, Invariant, PTL DEF PaidStaysPaid

=============================================================================
