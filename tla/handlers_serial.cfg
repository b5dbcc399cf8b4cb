SPECIFICATION SerialSpec
CONSTANTS
    t1 = t1
    t2 = t2
    t3 = t3
    c1 = c1
    None = None
    Tasks = {t1, t2, t3}
    Sessions = {c1}
    DependsOn <- MCChain
    Promoted = {}
    Serves <- Everything
    Ops <- AllCalls
    Targets <- Reviewed
    MaxCrashes = 0
PROPERTY ImplementsBoard
