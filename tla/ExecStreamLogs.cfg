\* One chunk and a connection that breaks.
CONSTANTS
    x = x
    y = y
    NL = NL
    CR = CR
    Json = Json
    Alphabet = {x, NL}
    Chunks <- MCChunks
    MaxChunks = 1
CHECK_DEADLOCK FALSE
SPECIFICATION Spec
INVARIANT NilMeansServerClosed
