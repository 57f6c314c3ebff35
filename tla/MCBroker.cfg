CONSTANTS
    n1 = n1
    fan = fan
    Node = {n1}
    Topic = {fan}
    Slots = 2
    InflightMax = 1
    QueuedMax = 1
    MaxPublish = 4
    MaxConnects = 3
    SocketStalls = TRUE
SPECIFICATION BrokerSpec
INVARIANTS
    TypeOK
    StoreIsExact
    LeavesAreListed
    QuotaIsExact
    MidsAreDistinct
    SentInOrder
    OnlyCopiesAreHeldBack
    SettledNodesShowRetained
PROPERTIES
    SubscribedNodesCatchUp
CHECK_DEADLOCK FALSE
