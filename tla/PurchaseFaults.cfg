SPECIFICATION Spec
CONSTANTS
    ann = ann  bob = bob
    vip = vip  std = std
    p1 = p1  p2 = p2
    annVip = annVip  bobVip = bobVip  annStd = annStd  bobStd = bobStd
    Users = {ann, bob}
    TicketTypes = {vip, std}
    Consumers = {c1, c2}
    Partitions = {p1}
    Requests = {annVip, bobVip, annStd}
    NoRequest = NoRequest
    UserOf <- MCUserOf
    TypeOf <- MCTypeOf
    QuantityOf <- MCQuantityOf
    PartitionOf <- OnePartition
    InitialStock <- MCInitialStock
    MaxPerUser <- MCMaxPerUser
    MaxRetries = 2
    MaxFaults = 2
    Faults = {"api_crash", "publish_error", "publish_timeout", "redis_error",
              "redis_lost_reply", "db_error", "consumer_crash", "rebalance",
              "commit_error", "dlq_error"}
INVARIANTS
    TypeOK
    UnitsSoldOnce
    AtMostOneTicketPerRequest
    CommittedWasHandled
    RedisAccountsForUnits
    OneTicketPerUser
PROPERTIES
    ImplementsSales
CHECK_DEADLOCK FALSE
