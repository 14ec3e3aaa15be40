SPECIFICATION Spec
CONSTANTS
    Labels = {work}
    Marks = {unread}
    None = None
    work = work
    unread = unread
    Exposures <- MCExposures
    MaxDifferences = 1
    MaxRecords = 2
    MaxTears = 1
    MaxForeign = 1
INVARIANTS
    TypeOK
    VerdictIsTrue
    UndoIsRecordable
    LossIsBounded
PROPERTIES
    RecordsTellTheOutcome
CHECK_DEADLOCK FALSE
