\* One order, one payment at either of two prices, two requests, one lost.
SPECIFICATION FairSpec
CONSTANTS
    Users = {u1}
    Orders = {o1}
    Payments = {p1}
    Requests = {r1, r2}
    Prices = {1, 2}
    MaxFaults = 1
    None = None
INVARIANTS
    IssuedOnlyIfCollected
PROPERTIES
    CollectedMoneySettles
CHECK_DEADLOCK FALSE
