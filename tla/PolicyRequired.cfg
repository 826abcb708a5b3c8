\* A file that disappears while kpd serves.
CONSTANTS
    Fields = {cpus, ttl}
    TTL = ttl
    NoName = NoName
    Nil = Nil
    Absent = Absent
    Malformed = Malformed
    Denied = Denied
    a = a
    b = b
    gpu = gpu
    h1 = h1
    h2 = h2
    Negative = FALSE
    Names = {a, b}
    Hosts = {h1, h2}
    Amounts <- MCAmounts
    Files <- MCFiles
    Edits <- MCEdits
    MaxEdits = 1
    Required = TRUE
    Default <- MCDefault
    Requests <- MCRequests
CHECK_DEADLOCK FALSE
SPECIFICATION Spec
INVARIANT RequiredNeverDefaults
