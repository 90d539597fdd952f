SPECIFICATION FilesSpec
CONSTANTS
    Outgoing = {}
    Incoming = {c1}
    MaxSerial = 2
    MaxTroubles = 1
INVARIANTS
    ConfirmedWasSpooled
CHECK_DEADLOCK FALSE
