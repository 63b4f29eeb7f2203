\* A partial and a full refund of one payment, two requests in flight.
SPECIFICATION Spec
CONSTANTS
    Users = {u1}
    Orders = {o1}
    Payments = {p1}
    Requests = {r1, r2}
    Prices = {2}
    MaxFaults = 0
    None = None
PROPERTIES
    FullRefundIsFinal
CHECK_DEADLOCK FALSE
