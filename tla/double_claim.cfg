SPECIFICATION Spec
CONSTANTS
    t1 = t1
    t2 = t2
    t3 = t3
    c1 = c1
    c2 = c2
    None = None
    Tasks = {t1}
    Sessions = {c1, c2}
    DependsOn <- MCFanIn
    Promoted = {}
    Serves <- Everything
    Ops <- Claims
    Targets <- Done
    MaxCrashes = 0
PROPERTY ClaimedOnce
