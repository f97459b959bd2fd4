SPECIFICATION FairSpec
CONSTANTS
    ann = ann  bob = bob
    vip = vip  std = std
    p1 = p1  p2 = p2
    annVip = annVip  bobVip = bobVip  annStd = annStd  bobStd = bobStd
    Users = {ann, bob}
    TicketTypes = {vip, std}
    Consumers = {c1, c2}
    Partitions = {p1, p2}
    Requests = {annVip, bobVip, bobStd}
    NoRequest = NoRequest
    UserOf <- MCUserOf
    TypeOf <- MCTypeOf
    QuantityOf <- MCQuantityOf
    PartitionOf <- TwoPartitions
    InitialStock <- MCInitialStock
    MaxPerUser <- MCMaxPerUser
    MaxRetries = 2
    MaxFaults = 2
    Faults = {"publish_timeout", "redis_error", "db_error", "db_lost_reply",
              "rebalance"}
INVARIANTS
    CommittedIsSettled
PROPERTIES
    PublishedIsSettled
CHECK_DEADLOCK FALSE
