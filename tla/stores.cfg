CONSTANTS
    KnowledgeScenes <- MC_KScenes
    Scopes = {"one", "two", "project"}
    MaxSurfaced = 1
    MaxHits = 3
    MaxCount = 4
    RecordScenes <- MC_RecordScenes
    Slugs = {"a", "b"}
    ReviewCap = 2
    MaxSeq = 3
    Features <- McFeatures
    MaxRows = 6
    MaxStarted = 1
    StrategicPlans = {"P1", "P2"}
    Batches = {"B1", "B2"}
    FeatureIDs = {"F1", "F2"}
    TaskIDs = {"T1", "T2", "T3", "T4"}
    Loads <- McLoads
    Scale = {0, 1, 3}
    Depth = 2
    MaxAsked = 3
    MaxWrites = 2
    Agents = {"A1", "A2"}
    PacketScenes <- McPacketScenes
    PrefixPairs <- McPrefixPairs
    Budget = 65536
SPECIFICATION Spec
INVARIANTS
    CountersMatchStatus CompactionKeepsKnowledge CopyIsCurrent
    NumberNamesOneFeature PlansFormATree SecondWritesFollow RecordsStayFound
    WorkNeverWaitsInACircle RollupAddsUp SafePairsAreApart
    PacketFits PromptPairsRoleAndSkill
PROPERTIES RetiredIsFinal OwnProposalsPass
CHECK_DEADLOCK FALSE
