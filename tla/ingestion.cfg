SPECIFICATION FairSpec
CONSTANTS
    Threads = {t1, t2}
    m1 = m1
    m2 = m2
    listed = listed
    unlisted = unlisted
    Mail <- IrregularMail
    LabelIds = {listed, unlisted}
    Tokens = {k1, k2}
    NoToken = NoToken
    Bounds = {0, 1, 2}
    MaxPage = 2
INVARIANTS
    TypeOK
    ReadOnce
    NothingSkipped
    CompleteIsHonest
    GapsDisclosed
PROPERTIES
    Terminates
CHECK_DEADLOCK FALSE
