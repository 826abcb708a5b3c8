\* Two failing calls, one of which may be an undo call, and a cancelled context.
\* Every operation of this instance comes to an end.
CONSTANTS
    Sandboxes = {s1, s2}
    MaxFaults = 2
    MaxCancels = 1
CHECK_DEADLOCK FALSE
SPECIFICATION Spec
SYMMETRY Symmetry
INVARIANTS
    FailedCreateLeavesNothing
    SandboxIsComplete
    RemoveLeavesNothing
