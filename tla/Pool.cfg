\* Target 2: two claims can share one refill token. Six ids: Target, MaxClaims
\* and one for a spawn that Shutdown overtakes. No symmetry: liveness is checked.
CONSTANTS
    Target = 2
    Containers = {c1, c2, c3, c4, c5, c6}
    MaxClaims = 3
    MaxFailures = 1
SPECIFICATION Spec
INVARIANTS
    TypeOK
    AvailWithinTarget
    OneShot
    ClaimedStaysLive
    NoSilentLeak
    NoLostWakeup
PROPERTIES
    RefillsToTarget
    DrainsAfterShutdown
    DispensesOnce
