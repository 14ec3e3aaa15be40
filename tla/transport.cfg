SPECIFICATION Spec
CONSTANTS
    MaxAttempts = 3
    BaseDelay = 1
INVARIANTS
    TypeOK
    RetriesAreJustified
    GivesUpLate
CHECK_DEADLOCK FALSE
