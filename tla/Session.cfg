SPECIFICATION Spec
CONSTANTS
    a = a
    b = b
    f = f
    g = g
    Nobody = Nobody
    Random = Random
    Status = Status
    Users = {a, b}
    Files = {}
    FileTarget <- NoTargets
    InboxSet = FALSE
    OutboxSet = FALSE
    MaxInbox = 0
    Self = Nobody
    Malformed = {}
    Calls = {"ConnectInBackground", "Disconnect", "FetchUserData", "DSFetchRandomUser", "GetStatus", "IsUserOnline", "DSFeedHistory"}
    WatchLists <- NoWatchLists
    ServerTypes = {"UNKNOWN"}
    MaxTicket = 3
    MaxPackets = 1
    MaxQueued = 0
INVARIANTS
    TypeOK
    InSync
    NoStaleBytes
    PhaseMatchesSocket
    EachQueryItsOwnTransaction
    OnlineAnswerIsAboutTheUser
PROPERTY
    QueriesKeepContract
CHECK_DEADLOCK FALSE
