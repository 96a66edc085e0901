SPECIFICATION MCFairSpec
CONSTANTS
    d1 = d1
    d2 = d2
    t1 = t1
    t2 = t2
    None = None
    Wildcard = Wildcard
    Stranger = Stranger
    Device = {d1}
    Text = {t1, t2}
    QueueMax = 2
    QueueTTL = 2
    Margin = 1
    MaxSends = 2
    SentMemory = 2
    SentMax = 1
    KeyreqInterval = 1
    RekeyInterval = 1
    MaxSessions = 2
    MaxFaults = 1
    MaxRestarts = 1
INVARIANT SendTypes
INVARIANT SendSound
INVARIANT SentOnce
INVARIANT OlmNotReused
PROPERTY QueueEmpties
CHECK_DEADLOCK FALSE
