SPECIFICATION FairSpec
CONSTANTS
    p = p
    q = q
    report = report
    Processes = {p, q}
    Absent = Absent
    Unreadable = Unreadable
    None = None
    Destinations = {report}
    InitialTokens <- MCTokens
    InitialKeys <- MCKeys
    MaxPowerLosses = 1
    Configurations <- MCConfigurations
INVARIANTS
    TypeOK
    ReportsAreWhole
    ExitTellsTheReport
    SessionIsAuthorized
    ForgottenTokensReturnOnlyByRefresh
    NamesDifferOnlyAfterRace
PROPERTIES
    CommandEnds
CHECK_DEADLOCK FALSE
