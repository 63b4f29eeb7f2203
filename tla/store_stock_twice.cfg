\* One webhook delivered twice, two requests.
SPECIFICATION Spec
CONSTANTS
    Users = {u1}
    Orders = {o1}
    Payments = {p1}
    Requests = {r1, r2}
    Products = {book}
    Stocked = {book}
    InitialStock <- MCInitialStock
    Baskets <- MCOneBook
    Amounts = {1}
    MaxItems = 1
    MaxFaults = 0
    book = book
    licence = licence
    None = None
INVARIANTS
    StockReturnedOnce
CHECK_DEADLOCK FALSE
