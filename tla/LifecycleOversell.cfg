SPECIFICATION Spec
CONSTANTS
    ann = ann  bob = bob
    ann1 = ann1  ann2 = ann2  bob1 = bob1
    Users = {ann, bob}
    Tickets = {ann1, ann2, bob1}
    OwnerOf <- MCOwnerOf
    QuantityOf <- MCQuantityOf
    InitialStock = 2
    Handlers = {h1}
    Checkers = {k1, k2}
    NoTicket = NoTicket
    Limit = 1
    MaxHandlerFaults = 0
    MaxCheckerFaults = 0
INVARIANTS
    NoOversell
CHECK_DEADLOCK FALSE
