SPECIFICATION ServicesSpec
CONSTANTS
    Parts = {"market", "room", "access", "numbers", "stats", "show"}
    root = root  ann = ann  bob = bob  cat = cat
    l1 = l1  l2 = l2  x1 = x1  x2 = x2
    walker = walker  editor = editor  reader = reader
    pod = pod  host = host  twin = twin  bare = bare  none = none
    Users = {ann, bob}
    Tickets = {t1}
    FirstOwner <- MCFirstOwner
    Listings = {l1, l2}
    Transfers = {x1, x2}
    Workers = {w1, w2}
    NoUser = none
    RoomUsers = {ann, root}
    RoomCalls = {s1, s2}
    Nobody = none
    MaxListed = 3
    MaxRoomFaults = 1
    Accounts = {root, ann}
    Root = root
    Sessions = {walker, editor, reader}
    RouteChoices <- MCRouteChoices
    PublicLimit = 1
    BuyerLimit = 1
    MaxRoleChanges = 1
    MaxAccessFaults = 1
    Processes = {pod, host, twin, bare}
    MachineIdEnv <- MCMachineIdEnv
    PodOrdinal <- MCPodOrdinal
    IpBytes <- MCIpBytes
    Unset = none
    Randoms = {1, 2}
    SequenceSize = 2
    MaxTime = 2
    MaxNumbers = 3
    MaxRestarts = 1
    StatsCalls = {q1, q2}
    MaxTableChanges = 2
    MaxStatsFaults = 1
    ShowCalls = {o1, o2}
INVARIANTS
    OfferedByAnOwner
    BooksBalance
    RoomInStep
    StaleNeedsRace
    RequestsAreJudged
    NumbersDiffer
    StatsRecover
    PublishedShowStays
PROPERTIES
    ClosedDealsStay
CONSTRAINT RowsInOrder
CHECK_DEADLOCK FALSE
