SPECIFICATION Spec
CONSTANTS
    g1 = g1
    g2 = g2
    ParentOf <- MCParentOf
    Guid = {g1, g2}
    NoGuid = NoGuid
    Orphan = {}
    TTL = 2
    MaxDepth = 4
    MaxTime = 4
    Lag = {0, 2}
    Window = 1
    Threshold = 12
    Severity = {"high"}
    NamedImages = {2}
    MaxDetections = 3
INVARIANT TypeOK
INVARIANT IncidentsAreBursts
INVARIANT ReachableThroughWindow
PROPERTY IncidentsOnlyGrow
PROPERTY EventuallyClosed
