SPECIFICATION Spec
CHECK_DEADLOCK FALSE
CONSTANTS
    t1 = t1
    t2 = t2
    t3 = t3
    t4 = t4
    f1 = f1
    f2 = f2
    Tasks = {t1, t2, t3, t4}
    Features = {f1, f2}
    FeatureOf <- MCFeatureOf
    Backlog = {t1, t2, t3, t4}
    InitDeps <- MCDeps
    DepLists <- NoLists
    Ops <- ServerAutomatic
    GitTracked = TRUE
INVARIANTS NoWakeupLost DepsMetBeforeStart
