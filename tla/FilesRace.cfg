CONSTANTS
    File = {settings, servers}
    None = None
    Bad = Bad
    MaxEvents = 4
    LogMax = 1
    LogCheckEvery = 2
SPECIFICATION Spec
INVARIANT SettingKept
CHECK_DEADLOCK FALSE
