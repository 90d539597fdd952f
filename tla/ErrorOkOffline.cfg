SPECIFICATION Spec
CONSTANTS
    a = a
    b = b
    f = f
    g = g
    Nobody = Nobody
    Random = Random
    Status = Status
    Users = {a}
    Files = {}
    FileTarget <- NoTargets
    InboxSet = FALSE
    OutboxSet = FALSE
    MaxInbox = 0
    Self = Nobody
    Malformed = {}
    Calls = {"ConnectInBackground"}
    WatchLists <- NoWatchLists
    ServerTypes = {}
    MaxTicket = 1
    MaxPackets = 1
    MaxQueued = 0
INVARIANT
    FailedLoginLeavesAnError
CHECK_DEADLOCK FALSE
