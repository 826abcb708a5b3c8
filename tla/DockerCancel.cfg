\* The context of one request is cancelled while Create runs.
CONSTANTS
    Sandboxes = {s1}
    MaxFaults = 0
    MaxCancels = 1
CHECK_DEADLOCK FALSE
SPECIFICATION Spec
INVARIANT RollsBackOnAnyError
