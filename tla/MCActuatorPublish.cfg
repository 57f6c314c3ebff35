SPECIFICATION ActuatorSpec
CONSTANTS
    Publisher <- MCSystemTask
    Decisions <- MCDecisions
    AwaitConnected = TRUE
    OutboxBound = 6
INVARIANTS
    ActuatorTypeOK
    SettledAgreement
PROPERTIES
    ImplementsSettingLink
