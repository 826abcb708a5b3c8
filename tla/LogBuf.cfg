\* Chunks below, at and above the cap, which is 2 or 3; a channel of one fills at once.
CONSTANTS
    Settings <- MCSettings
    NoNumber = NoNumber
    DefaultBytes = 2
    Sizes = {1, 2, 4}
    ChanCap = 1
    Followers = {f1, f2}
    MaxWrites = 3
CHECK_DEADLOCK FALSE
SPECIFICATION Spec
INVARIANTS
    BufferIsExact
    FollowerMissesNothing
    NoSendOnClosed
