SPECIFICATION Spec
CONSTANTS
    Incident = {i1}
    Task = {t1, t2}
    Session = {s1}
    Status = {"open", "closed"}
    MaxCount = 3
    MaxFaults = 0
    MaxResets = 0
    MaxPages = 2
    MaxTriages = 1
CHECK_DEADLOCK FALSE
INVARIANT ResolvedStaysClosed
