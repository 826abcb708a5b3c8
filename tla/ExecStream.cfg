\* Two chunks: one event after another, on one stream or on two.
CONSTANTS
    x = x
    y = y
    NL = NL
    CR = CR
    Json = Json
    Alphabet = {x, NL, CR}
    Chunks <- MCChunks
    MaxChunks = 2
CHECK_DEADLOCK FALSE
SPECIFICATION Spec
INVARIANTS
    OutputIsPrefix
    OkIsComplete
PROPERTY StreamReturns
