SPECIFICATION FairSpec
CONSTANTS
    ann = ann
    gw = gw  seckill = seckill
    a1 = a1  a2 = a2
    m1 = m1
    room = room
    Instances = {gw, seckill}
    Routed = {gw}
    Users = {ann}
    Clients = {a1, a2}
    UserOf <- MCUserOf
    HostOf <- MCHostOf
    RoomOf <- MCRoomOf
    NoRoom = NoRoom
    Messages = {m1}
    ToOf <- MCToOf
    Chat = Chat
    ChannelCap = 1
    SendCap = 1
    MaxEvents = 1
INVARIANTS
    ClosedOnce
    ConnectionsAreCounted
PROPERTIES
    PublishedIsDelivered
    GoneIsForgotten
    RegistryForgets
CHECK_DEADLOCK FALSE
