SPECIFICATION Spec
CONSTANTS
    Incident = {i1}
    Task = {t1, t2}
    Session = {s1}
    Status = {"open", "closed"}
    MaxCount = 2
    MaxFaults = 1
    MaxResets = 1
    MaxPages = 3
    MaxTriages = 1
CHECK_DEADLOCK FALSE
INVARIANT TypeOK
INVARIANT ShownIsStored
INVARIANT PushedViewIsLive
INVARIANT NoGhosts
PROPERTY GrowthShown
