INIT PacketsInit
NEXT PacketsNext
CONSTANTS
    Agents = {"A1", "A2"}
    PacketScenes <- Sharing
    PrefixPairs <- McPrefixPairs
    Budget = 65536
INVARIANTS ClaimIsAnswered
CHECK_DEADLOCK FALSE
