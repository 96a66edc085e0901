SPECIFICATION MCFairSpec
CONSTANTS
    a = a
    b = b
    t1 = t1
    t2 = t2
    t3 = t3
    End = {a, b}
    Text = {t1, t2, t3}
    Author <- AuthorMixed
    CopiedText = {t1, t2}
    Fallback = {1}
    Relations = {"peer", "own"}
    MaxTries = 2
    PageMax = 2
    ReplayWindow = 1
    JobMax = 1
    Lists = 3
    MaxRows = 3
    MaxSessions = 2
    MaxFaults = 2
    MaxRestarts = 1
INVARIANT InboxSound
PROPERTY DeliversOnce
PROPERTY InboxEmpties
CHECK_DEADLOCK FALSE
