CONSTANTS
    x = x
    y = y
    nobody = nobody
    Network = {"n1", "n2"}
    NetOf <- MCNetOf
    Attachable = {"n2"}
    Forced = TRUE
    MaxQueue = 1
    MaxEvents = 3
SPECIFICATION MCSpec
INVARIANTS SidebarSound LockedChatSound SignInSound UploadsSound
PROPERTY PseudoRowKept
CHECK_DEADLOCK FALSE
