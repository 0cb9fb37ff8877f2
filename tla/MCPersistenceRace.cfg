SPECIFICATION Spec
SYMMETRY Symmetry
CHECK_DEADLOCK FALSE
CONSTANTS
    Worker = {w1, w2}
    Root = {r1}
    ActionableAt = 2
    MaxPerEvent = 2
    MaxDetections = 3
    MaxTriage = 0
    MaxFaults = 0
    MaxResets = 0
    MaxCrashes = 0
INVARIANT DiskAccurateWhenQuiet
