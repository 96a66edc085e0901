CONSTANTS
    Pair = {a, b}
    nobody = nobody
    MaxRows = 4
    HeadRows = 1
    CatchUpPage = 1
    OlderPage = 2
    Cap = 2
    Slack = 0
    MaxFaults = 2
    MaxWire = 1
SPECIFICATION MCSpec
INVARIANTS TranscriptSound QueriesSound RepliesSound LinksSound
CHECK_DEADLOCK FALSE
