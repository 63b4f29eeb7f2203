\* One order, two payments for it, two requests in flight, one lost.
SPECIFICATION Spec
SYMMETRY Symmetry
CONSTANTS
    Users = {u1}
    Orders = {o1}
    Payments = {p1, p2}
    Requests = {r1, r2}
    Prices = {2}
    MaxFaults = 1
    None = None
INVARIANTS
    TypeOK
    ReconciliationClean
    RefundsAreBacked
PROPERTIES
    KeepsTheLedger
CHECK_DEADLOCK FALSE
