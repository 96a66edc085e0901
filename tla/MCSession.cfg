SPECIFICATION FairSpec
CONSTANTS
    a = a
    b = b
    None = None
    Topic = {a, b}
    BaseDelay = 4
    MaxDelay = 16
    MaxRetryAfter = 24
    MaxDoublings = 2
    Hints = {6, 40}
    MaxCommands = 2
INVARIANT SessionSound
INVARIANT AgreedRefs
INVARIANT ToldTheTruth
PROPERTY NoConnectAfterClose
PROPERTY SessionEnds
CHECK_DEADLOCK FALSE
