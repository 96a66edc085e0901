SPECIFICATION MCFairSpec
CONSTANTS
    s1 = s1
    s2 = s2
    mx = mx
    my = my
    None = None
    Sibling = {s1, s2}
    OtherMaster = {mx, my}
    Shared = {mx, my}
    MaxDevices = 3
    Starts = {"fresh", "beside", "holder", "joined"}
    MaxFaults = 2
    MaxUser = 2
    MaxOther = 2
INVARIANT IdentitySound
INVARIANT RevokesHold
PROPERTY ListsNeverUndone
PROPERTY PendingEnds
