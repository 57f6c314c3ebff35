SPECIFICATION CommCenterSpec
CONSTANTS
    Publisher = {}
    Decisions = {}
    AwaitConnected = TRUE
    OutboxBound = 4
    Publications <- MCPublications
    TimeSteps <- NoSteps
    MaxClock = 0
    Minutes <- Noon
    Requests <- MCTakeoverRequests
INVARIANTS
    TakeoverReachesNodes
