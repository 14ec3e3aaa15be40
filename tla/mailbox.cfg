SPECIFICATION FairGmailSpec
CONSTANTS
    t1 = t1
    t2 = t2
    t3 = t3
    t4 = t4
    listed = listed
    later = later
    Threads = {t1, t2, t3, t4}
    Letters <- MCLetters
    LetterIn <- MCLetterIn
    InitialBoxes <- MCBoxes
    Mail <- MCMail
    LabelIds = {listed, later}
    Tokens = {1, 2, 3, 4, 5, 6}
    NoToken = 0
    Bounds = {0, 3}
    MaxPage = 2
    MaxResults = 2
    MaxChanges = 3
INVARIANTS
    GmailTypeOK
    RestingMailboxIsReadExactly
    ArrivalsAreNotMissed
PROPERTIES
    ImplementsIngestion
    RestingMailboxIsRead
CHECK_DEADLOCK FALSE
