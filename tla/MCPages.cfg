CONSTANTS
    x = x
    y = y
    bad = bad
    none = none
    Net = {1, 2}
    HolderNet = {2}
    ListMax = 2
    SeenMax = 2
    MaxRdv = 2
    MaxFaults = 1
    MaxRestarts = 1
SPECIFICATION MCSpec
INVARIANTS PairingSound RadioSound SecuritySound AdminSound FilesSound
CHECK_DEADLOCK FALSE
