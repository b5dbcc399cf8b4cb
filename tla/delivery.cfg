SPECIFICATION CleanupSpec
CHECK_DEADLOCK FALSE
CONSTANTS
    c1 = c1
    c2 = c2
    r1 = r1
    r2 = r2
    Callers = {c1, c2}
    Records = {r1, r2}
    GraphProjects = {"one", "two"}
    Workloads <- ServerWorkloads
    Strategies = {"squash", "merge"}
    HasVerifier = TRUE
    MaxReviewCycles = 2
    GracePeriod = 1
    MaxCommits = 1
    MaxCrashes = 1
INVARIANT NoOrphanDirectory
PROPERTIES AtMostOneActive NoWorkLost CleanupCompletes
