SPECIFICATION Spec
CONSTANTS
    a = a
    b = b
    f = f
    g = g
    Nobody = Nobody
    Random = Random
    Status = Status
    Users = {a}
    Files = {}
    FileTarget <- NoTargets
    InboxSet = FALSE
    OutboxSet = FALSE
    MaxInbox = 0
    Self = Nobody
    Malformed = {}
    Calls = {"ConnectInBackground", "GetMessages"}
    WatchLists <- NoWatchLists
    ServerTypes = {"VIRTUAL_CONNECT", "MESSAGE"}
    MaxTicket = 2
    MaxPackets = 2
    MaxQueued = 0
INVARIANT
    ArrivedInputIsHandled
CHECK_DEADLOCK FALSE
