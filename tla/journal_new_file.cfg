SPECIFICATION Spec
CONSTANTS
    Attempts = {a1, a2}
    Wide = {}
    LineBreaking = {}
    Writers = {w1}
    InitialPath <- NewFile
    NoEvent = NoEvent
INVARIANTS
    AcknowledgedSurvives
