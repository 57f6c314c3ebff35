SPECIFICATION CommCenterSpec
CONSTANTS
    Publisher = {}
    Decisions = {}
    AwaitConnected = TRUE
    OutboxBound = 1
    Publications <- MCPublications
    TimeSteps <- MCLateStep
    MaxClock = 1001
    Minutes <- Noon
    Requests <- MCModeRequests
INVARIANTS
    StatusMatchesNodes
    FreshReply
PROPERTIES
    AutoOpensOnlyWithData
