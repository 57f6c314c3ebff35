SPECIFICATION SensorSpec
CONSTANTS
    Publications <- MCPublications
    TimeSteps <- MCTimeSteps
    MaxClock = 5001
INVARIANTS
    SensorTypeOK
    NoLeftoverReadings
    ConnectedBoardHasIp
    CopyStaysInside
PROPERTIES
    NoSpuriousTimeout
    StaleDataIsDropped
