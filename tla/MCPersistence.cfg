SPECIFICATION Spec
SYMMETRY Symmetry
CHECK_DEADLOCK FALSE
CONSTANTS
    Worker = {w1, w2}
    Root = {r1}
    ActionableAt = 2
    MaxPerEvent = 2
    MaxDetections = 3
    MaxTriage = 1
    MaxFaults = 1
    MaxResets = 1
    MaxCrashes = 1
INVARIANT TypeOK
INVARIANT DetectionHasIncident
INVARIANT DiskAccurate
INVARIANT ResetWipes
PROPERTY TriageOnlyByAnalyst
PROPERTY StoreIsLedger
