SPECIFICATION Spec
CONSTANTS
    Attempts = {a1, a2}
    Wide = {}
    LineBreaking = {}
    Writers = {w1}
    InitialPath <- Established
    NoEvent = NoEvent
INVARIANTS
    AlwaysLoads
    TornRecordIsLast
    AcknowledgedSurvives
    InterruptedIsDiscovered
PROPERTIES
    ImplementsLedger
