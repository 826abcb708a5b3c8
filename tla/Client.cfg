\* A client with every command on a sandbox, while two requests of other clients, or of
\* commands it has given up, are under way. The sandbox has an expiry and may be reaped.
CONSTANTS
    Ids = {s1}
    NoId = NoId
    Clients = {k1}
    Others = {x1, x2}
    TTLs = {2}
SPECIFICATION Spec
INVARIANT AnswersAreTrue
PROPERTIES
    WaitEnds
    WatchCatchesUp
