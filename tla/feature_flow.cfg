SPECIFICATION Spec
CHECK_DEADLOCK FALSE
CONSTANTS
    f1 = f1
    f2 = f2
    b1 = b1
    t1 = t1
    t2 = t2
    t3 = t3
    t4 = t4
    design = design
    spec = spec
    spec2 = spec2
    plan = plan
    report = report
    None = None
    Features = {f1, f2}
    Tasks = {t1}
    Docs = {design, spec, plan, report}
    Batch = b1
    FeatureOf <- MCFeatureOf
    DocType <- MCDocType
    DocOwner <- MCDocOwner
    Policy <- AskForReview
    HumanReview = FALSE
    MaxReviewCycles = 2
    Targets <- MCTargets
    OverrideAt <- MCOverrideAt
    DocOps <- MCDocOps
    CycleBound = 2
INVARIANTS PlannedBeforeDeveloping
PROPERTIES ReviewSeesFinishedWork CapHolds BatchClosesAfterFeatures EndedStaysEnded
