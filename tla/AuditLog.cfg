SPECIFICATION FairSpec
CONSTANTS
    s1 = s1
    s2 = s2
    main = main
    proxy = proxy
    other = other
    Sessions = {s1, s2}
    Threads = {main, proxy, other}
    SessionOf <- MCSessionOf
    Records = {r1, r2, r3}
    Legacy = legacy
    NoThread = nothread
    NoSession = nosession
    NoRecord = norecord
INVARIANTS OnlyTornLinesBreak AckedRecordsKept
PROPERTY RecordReturns
CHECK_DEADLOCK TRUE
