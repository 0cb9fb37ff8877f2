SPECIFICATION TreeSpec
CONSTANTS
    Guid = {g1, g2, g3}
    NoGuid = NoGuid
    TTL = 1
    MaxDepth = 4
    MaxTime = 3
INVARIANT SubtreeComplete
