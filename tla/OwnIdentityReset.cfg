SPECIFICATION FairSpec
CONSTANTS
    None = None
    Sibling = {s1, s2}
    OtherMaster = {mx, my}
    Shared = {mx, my}
    MaxDevices = 3
    Starts = {"holder"}
    MaxFaults = 1
    MaxUser = 2
    MaxOther = 2
PROPERTY ResetEnds
