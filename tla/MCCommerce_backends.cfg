SPECIFICATION CommerceSpec
CONSTANTS
    open = open
    gone = gone
    NoOrder = NoOrder
    old = old
    Orders = {open, gone, old}
    Backends <- MCBackends
    Offered <- MCOffered
    Seed <- MCSeed
    Expired = {old}
    Returning = {old}
    Amounts = {1999}
    Total <- MCTotal
    Lossy = {1999}
    Splits = {500}
    Calls = {c1, c2}
    Attempts = 2
SYMMETRY Symmetry
INVARIANTS
    ToldIsTrue
    CancelledStaysCancelled
    ReturnedIsNotCancelled
CHECK_DEADLOCK FALSE
