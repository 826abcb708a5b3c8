\* Two sandboxes, and one request of another client or of a command that was given up.
CONSTANTS
    Ids = {s1, s2}
    NoId = NoId
    Clients = {k1}
    Others = {x1}
    TTLs = {2}
SPECIFICATION Spec
INVARIANT AnswersAreTrue
PROPERTIES
    WaitEnds
    WatchCatchesUp
