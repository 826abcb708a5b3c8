\* One transient failure of rt.Create.
CONSTANTS
    Target = 1
    Containers = {c1, c2, c3, c4, c5}
    MaxClaims = 3
    MaxFailures = 1
SPECIFICATION Spec
PROPERTY RefillerCatchesUp
