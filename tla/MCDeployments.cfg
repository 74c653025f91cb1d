\* Two deployments that share a container; the image and the shared container
\* are there already.
SPECIFICATION Spec
CONSTANTS
    d1 = d1
    d2 = d2
    a = a
    b = b
    i = i
    v = v
    Deployments = {d1, d2}
    Containers = {a, b}
    Resources = {i, v}
    Images = {i}
    Order <- MCOrder
    Needs <- MCNeeds
    None = None
    Known = {i, a}
    AlwaysPull = {i}
    Capacity = 1
    MaxCommands = 2
    MaxMishaps = 1
INVARIANTS
    TypeOK
    StartedRuns
    FreedBeforeStart
    PropertyIsTrue
PROPERTIES
    ImplementsOwnership
    UpdateKeepsShared
