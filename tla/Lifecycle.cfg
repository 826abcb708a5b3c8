\* Two sandboxes and two workers: every pair of operations interleaves. One of
\* three containers is warm; one call fails and kpd exits once. The reaper is off:
\* its Delete is the one the workers run.
CONSTANTS
    Ids = {s1, s2}
    NoId = NoId
    Containers = {c1, c2, c3}
    NoCtr = NoCtr
    Workers = {w1, w2}
    Mcp = {}
    Reaper = Reaper
    TTLs = {0}
    PoolTarget = 1
    MaxWarm = 1
    ReaperOn = FALSE
    MaxTime = 0
    MaxFaults = 1
    MaxExits = 1
CHECK_DEADLOCK FALSE
SPECIFICATION Spec
SYMMETRY Symmetry
INVARIANTS
    TypeOK
    OneOwner
    ColdSandboxKeepsContainer
    NoSilentLeak
    DeletedNeverRuns
    LogBuffersAreDropped
