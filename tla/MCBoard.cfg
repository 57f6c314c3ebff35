SPECIFICATION BoardSpec
CONSTANTS
    Addresses <- MCAddresses
    EventBound = 2
INVARIANTS
    ScreenIsConsistent
    TasksHaveTheirMutex
PROPERTIES
    StationKeepsTrying
    DisplaysCatchUp
