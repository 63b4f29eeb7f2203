\* One buyer, one order, one payment at either of two amounts, two requests,
\* one of them lost.
SPECIFICATION FairSpec
CONSTANTS
    Users = {u1}
    Orders = {o1}
    Payments = {p1}
    Requests = {r1, r2}
    Products = {book}
    Stocked = {book}
    InitialStock <- MCInitialStock
    Baskets <- MCBooks
    Amounts = {1, 2}
    MaxItems = 1
    MaxFaults = 1
    book = book
    licence = licence
    None = None
INVARIANTS
    TypeOK
    StockNeverLost
    PaidIsCollected
    CanceledIsReturned
PROPERTIES
    PaidStaysPaid
    MoneyIsAnswered
    ReservationComesBack
CHECK_DEADLOCK FALSE
