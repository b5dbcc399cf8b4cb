CONSTANTS
    Paths <- MC_Paths
    Scenarios <- MC_Scenarios
    Feature = "F"
    Parents = {"B", "P"}
    ParentOf <- MC_ParentOf
    FirstText <- MC_FirstText
    CompleteTexts = {2}
    StatusLines <- MC_StatusLines
    Authors = {}
    MaxPending = 2
    IndexDocs = {"D1", "D2"}
    HintRole <- MC_HintRole
    Texts <- MC_Texts
    WorkOf = "F1"
    HeadingRole <- MC_HeadingRole
    IndexScenes <- MC_IndexScenes
    Skills = {"skill1", "skill2"}
    Binaries <- MC_Binaries
    InstallScenes <- MC_InstallScenes
SPECIFICATION Spec
INVARIANTS
    ApprovalCoversText GapsAgreeWithGates
    SourcesAgree ConceptsAreFound
    DoneMeansCurrent SentinelMeansInstalled
PROPERTIES SupersededIsFinal FilesMoveForward
CHECK_DEADLOCK FALSE
