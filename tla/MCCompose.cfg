CONSTANTS
    p = p
    P = P
    q = q
    other = other
    room = room
    x = x
    y = y
    None = None
    Name = {"x", "y", "me"}
    Template <- SomeTemplates
    Channel = {room}
    Nick = {p, P, q}
    Peer = {p}
    NickFold <- FoldNick
    AsciiFold <- FoldAscii
    MAX_ALIAS_DEPTH = 2
    AliasLists <- SomeLists
    Typed <- SomeLines
    MaxEvents = 3
    MaxId = 2
SPECIFICATION MCSpec
INVARIANTS ComposeSound SettingsSound PanelsSound PacingSound
CHECK_DEADLOCK FALSE
