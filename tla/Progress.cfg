SPECIFICATION FairSpec
CONSTANTS
    a = a
    b = b
    f = f
    g = g
    Nobody = Nobody
    Random = Random
    Status = Status
    Users = {a}
    Files = {}
    FileTarget <- NoTargets
    InboxSet = FALSE
    OutboxSet = FALSE
    MaxInbox = 0
    Self = Nobody
    Malformed = {}
    Calls = {"Connect", "FetchUserData", "DSFetchRandomUserSync", "IsUserOnline", "GetMessages", "SendOrdinaryMessages", "QueueMessage"}
    WatchLists <- NoWatchLists
    ServerTypes = {}
    MaxTicket = 3
    MaxPackets = 1
    MaxQueued = 1
INVARIANT
    InSync
PROPERTIES
    CallsReturn
    QueriesEnd
CHECK_DEADLOCK FALSE
