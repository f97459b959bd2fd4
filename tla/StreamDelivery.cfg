SPECIFICATION FairSpec
CONSTANTS
    ann = ann  bob = bob
    vip = vip  std = std
    annVip = annVip  bobVip = bobVip  annStd = annStd
    Users = {ann, bob}
    TicketTypes = {vip, std}
    Consumers = {c1, c2}
    Requests = {annVip, bobVip, annStd}
    UserOf <- MCUserOf
    TypeOf <- MCTypeOf
    QuantityOf <- MCQuantityOf
    InitialStock <- MCInitialStock
    MaxPerUser <- MCMaxPerUser
    BatchSize = 2
    MaxFaults = 2
    Faults = {"api_crash", "consumer_crash", "redis_error", "redis_lost",
              "redis_repeat", "db_error", "db_lost"}
INVARIANTS
    SecondTicketAfterFailure
    UnitsSoldOnce
PROPERTIES
    ImplementsSales
    PublishedIsHandled
CHECK_DEADLOCK FALSE
