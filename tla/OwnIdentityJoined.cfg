SPECIFICATION Spec
CONSTANTS
    None = None
    Sibling = {s1, s2}
    OtherMaster = {mx, my}
    Shared = {mx, my}
    MaxDevices = 3
    Starts = {"joined"}
    MaxFaults = 0
    MaxUser = 0
    MaxOther = 1
INVARIANT JoinedHoldsNoMaster
