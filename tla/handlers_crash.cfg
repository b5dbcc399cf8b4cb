SPECIFICATION CommittedLoopSpec
CONSTANTS
    t1 = t1
    t2 = t2
    t3 = t3
    c1 = c1
    c2 = c2
    None = None
    Tasks = {t1, t2, t3}
    Sessions = {c1}
    DependsOn <- MCChain
    Promoted = {}
    Serves <- Everything
    Ops <- Agents
    Targets <- Done
    MaxCrashes = 2
INVARIANT QueueHeals
PROPERTY LoopCompletes
