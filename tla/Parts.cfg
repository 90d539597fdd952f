SPECIFICATION PartsSpec
CONSTANTS
    a = a
    b = b
    h1 = h1
    h2 = h2
    e1 = e1
    e2 = e2
    m1 = m1
    Users = {a, b}
    Files = {}
    Nobody = Nobody
    MaxPackets = 3
    HeaderSize = 2
    HandshakeSize = 3
    CommandSize = 3
    CircuitSize = 3
    MaxFurther = 1
    Extras = {0, 1}
    Tickets = {1, 2}
    Packets <- SmallPackets
    MaxCells = 6
    Hosts = {h1, h2}
    DefaultHost = DefaultHost
    MaxListed = 3
    MaxLists = 2
    Half = 8
    Timeout = 5
    Fixed = 3
    C2E = 2
    Sizes = {2, 3, 4, 6, 7}
    Lengths <- SmallLengths
    Base = 4
    PackSizes <- SmallSizes
    PackInts <- SmallInts
    PackStrings <- SmallStrings
    Foreign <- SmallForeign
    MaxItems = 2
    Texts = {m1}
    Events = {e1, e2}
    MaxWritten = 2
    Digits <- SmallDigits
    Serials = {0, 4}
    Spellings <- SmallSpellings
    Senders <- SmallSenders
INVARIANTS
    ServerListTypeOK
    FramerTypeOK
    Aligned
    WaitsOnlyForMore
    DeadlineExact
    TimeOnlineExact
    NumbersAreFresh
    ParsesWhatFits
    ReadsWhatWasPacked
    AddressAndLengthAgree
    BlobFollowsLayout
    NamedUserIsFound
PROPERTIES
    IsAPipe
    PumpLosesNothing
    FramesPackets
    ServersKept
    EveryServerTried
CHECK_DEADLOCK FALSE
