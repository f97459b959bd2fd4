SPECIFICATION FairSpec
CONSTANTS
    ann = ann  bob = bob
    ann1 = ann1  ann2 = ann2  bob1 = bob1
    Users = {ann, bob}
    Tickets = {ann1, ann2}
    OwnerOf <- MCOwnerOf
    QuantityOf <- MCQuantityOf
    InitialStock = 3
    Handlers = {h1}
    Checkers = {k1, k2}
    NoTicket = NoTicket
    Limit = 1
    MaxHandlerFaults = 1
    MaxCheckerFaults = 1
INVARIANTS
    TypeOK
    NoUnitInvented
    NoUnitLost
    RedisUnitsReturn
    OneLiveTicketPerUser
    UsedWasPaid
PROPERTIES
    OverdueIsReleased
CHECK_DEADLOCK FALSE
