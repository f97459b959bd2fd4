SPECIFICATION Spec
CONSTANTS
    Types = {t1, t2}
    NoType = NoType
    Stocks = {1, 2}
    Admins = {a1, a2}
    Buyers = {b1, b2}
SYMMETRY Alike
CONSTRAINT Fresh
INVARIANTS
    TypeOK
    SoldTypesAreThere
    StockIsAsConfigured
    OnSaleIsOpen
    RedisMatchesDatabase
CHECK_DEADLOCK FALSE
