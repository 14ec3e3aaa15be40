SPECIFICATION Spec
CONSTANTS
    Attempts = {a1, a2}
    Wide = {a2}
    LineBreaking = {}
    Writers = {w1}
    InitialPath <- Established
    NoEvent = NoEvent
INVARIANTS
    InterruptedIsDiscovered
