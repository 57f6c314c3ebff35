CONSTANTS
    n1 = n1
    fan = fan
    Node = {n1}
    Topic = {fan}
    Slots = 2
    InflightMax = 1
    QueuedMax = 1
    MaxPublish = 1
    MaxConnects = 1
    SocketStalls = TRUE
SPECIFICATION BrokerSpec
PROPERTIES
    RetainedAreResent
CHECK_DEADLOCK FALSE
