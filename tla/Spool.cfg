SPECIFICATION FilesFairSpec
CONSTANTS
    Outgoing = {m1, m2}
    Incoming = {c1}
    MaxSerial = 2
    MaxTroubles = 1
INVARIANTS
    FilesTypeOK
    WholeFilesOnly
    NoExportLost
    SentAgainOnlyIfUnremoved
    AnsweredInOrder
    SpooledAgainOnlyIfCutOff
PROPERTIES
    KeptUntilTaken
    OutboxDrains
    HeldIsConfirmed
CHECK_DEADLOCK FALSE
