SPECIFICATION FaultsSpec
CONSTANTS
    Publisher <- MCHttpd
    Decisions <- MCDecisions
    AwaitConnected = FALSE
    OutboxBound = 2
    MaxRestarts = 2
INVARIANTS
    LastIsCurrent
    OnlyLostChangesDiffer
PROPERTIES
    NodesRecover
