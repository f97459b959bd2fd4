SPECIFICATION Spec
CONSTANTS
    ann = ann  bob = bob
    vip = vip  std = std
    p1 = p1  p2 = p2
    annVip = annVip  bobVip = bobVip  annStd = annStd  bobStd = bobStd
    Users = {ann, bob}
    TicketTypes = {vip, std}
    Consumers = {c1, c2}
    Partitions = {p1}
    Requests = {annVip, bobVip}
    NoRequest = NoRequest
    UserOf <- MCUserOf
    TypeOf <- MCTypeOf
    QuantityOf <- MCQuantityOf
    PartitionOf <- OnePartition
    InitialStock <- MCInitialStock
    MaxPerUser <- MCMaxPerUser
    MaxRetries = 2
    MaxFaults = 1
    Faults = {"consumer_crash"}
INVARIANTS
    CommittedIsSettled
CHECK_DEADLOCK FALSE
