SPECIFICATION FairSpec
CONSTANTS
    t1 = t1
    t2 = t2
    t3 = t3
    c1 = c1
    c2 = c2
    None = None
    Tasks = {t1, t2, t3}
    Sessions = {c1, c2}
    DependsOn <- MCFanIn
    Promoted = {t1, t2}
    Serves <- Shared
    Ops <- NoQueue
    Targets <- Moves
    MaxCrashes = 0
INVARIANT NoWakeupLostAtRest
CHECK_DEADLOCK FALSE
