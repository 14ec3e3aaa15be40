SPECIFICATION Spec
CONSTANTS
    p = p
    q = q
    report = report
    Processes = {p, q}
    Absent = Absent
    Unreadable = Unreadable
    None = None
    Destinations = {report}
    InitialTokens <- MCTokens
    InitialKeys <- MCKeys
    MaxPowerLosses = 0
    Configurations <- MCConfigurations
INVARIANTS
    StableAccountName
CHECK_DEADLOCK FALSE
