SPECIFICATION Spec
CONSTANTS
    ann = ann  bob = bob
    vip = vip  std = std
    annVip = annVip  bobVip = bobVip  annStd = annStd
    Users = {ann, bob}
    TicketTypes = {vip, std}
    Consumers = {c1, c2}
    Requests = {annVip, bobVip, annStd}
    UserOf <- MCUserOf
    TypeOf <- MCTypeOf
    QuantityOf <- MCQuantityOf
    InitialStock <- MCInitialStock
    MaxPerUser <- MCMaxPerUser
    BatchSize = 2
    MaxFaults = 0
    Faults = {}
INVARIANTS
    RedisGetsUnitsBack
CHECK_DEADLOCK FALSE
