SPECIFICATION CommCenterSpec
CONSTANTS
    Publisher = {}
    Decisions = {}
    AwaitConnected = TRUE
    OutboxBound = 1
    Publications <- NoPublications
    TimeSteps <- NoSteps
    MaxClock = 0
    Minutes <- NoonAndNight
    Requests <- MCControlRequests
INVARIANTS
    TypeOK
    FanNeedsWindow
PROPERTIES
    ManualSettingsStay
