SPECIFICATION Spec
CONSTANTS
    Attempts = {a1, a2}
    Wide = {a1}
    LineBreaking = {a1}
    Writers = {w1}
    InitialPath <- Established
    NoEvent = NoEvent
INVARIANTS
    InterruptedIsDiscovered
