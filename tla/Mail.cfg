SPECIFICATION Spec
CONSTANTS
    a = a
    b = b
    f = f
    g = g
    Nobody = Nobody
    Random = Random
    Status = Status
    Users = {a, b}
    Files = {f, g}
    FileTarget <- OneGoodOneBad
    InboxSet = TRUE
    OutboxSet = TRUE
    MaxInbox = 1
    Self = a
    Malformed = {b}
    Calls = {"ConnectInBackground", "SendOrdinaryMessages", "QueueMessage", "PostDirectMessage", "AddToWWR", "RemoveFromWWR", "NextChangedUserWWR"}
    WatchLists <- WatchBoth
    ServerTypes = {"MESSAGE", "VIRTUAL_CONNECT", "MALFORMED"}
    MaxTicket = 2
    MaxPackets = 1
    MaxQueued = 1
PROPERTY
    UnsentFilesStay
CHECK_DEADLOCK FALSE
