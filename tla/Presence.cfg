SPECIFICATION WatchSpec
CONSTANTS
    a = a
    b = b
    Nobody = Nobody
    Random = Random
    Status = Status
    Users = {a}
    Files = {}
    FileTarget <- NoTargets
    InboxSet = FALSE
    OutboxSet = FALSE
    MaxInbox = 0
    Self = Nobody
    Malformed = {}
    Calls = {"ConnectInBackground", "Disconnect", "AddToWWR", "RemoveFromWWR", "NextChangedUserWWR", "GetMessages"}
    WatchLists <- WatchA
    ServerTypes = {"USER_OFFLINE", "ONLINE_CHANGE"}
    MaxTicket = 2
    MaxPackets = 2
    MaxQueued = 0
INVARIANTS
    PendingAddsUnheard
    QueuedOnce
    NoLostChange
CHECK_DEADLOCK FALSE
