\* A chunk larger than the whole buffer.
CONSTANTS
    Settings <- MCSettings
    NoNumber = NoNumber
    DefaultBytes = 2
    Sizes = {1, 2, 4}
    ChanCap = 1
    Followers = {f1}
    MaxWrites = 2
CHECK_DEADLOCK FALSE
SPECIFICATION Spec
PROPERTY DroppedIsInSnapshot
