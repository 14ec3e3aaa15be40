SPECIFICATION Spec
CONSTANTS
    Attempts = {a1}
    Wide = {a1}
    LineBreaking = {}
    Writers = {w1, w2}
    InitialPath <- NoPath
    NoEvent = NoEvent
INVARIANTS
    TypeOK
    FinalizationAfterIntent
    RecordedOncePerWriter
