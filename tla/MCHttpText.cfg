SPECIFICATION TextSpec
CONSTANTS
    Bodies <- MCBodies
    Messages <- MCMessages
    ChunkSize = 4
INVARIANTS
    ChunkFits
    ReceivedIsEscaped
    ScanAgrees
    PlanReplyFits
    PeriodsCoverTheirMinutes
