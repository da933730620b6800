CONSTANTS
    LONG_STRING_THRESHOLD = 200
    AGGREGATE_STRING_BYTES_CAP = 800
    U16 = 5
    U32_MAX = 1000
    CLEAN_CALLS_TO_DECAY_CONTAMINATED = 5
    CLEAN_CALLS_TO_DECAY_ELEVATED = 3
    SYNTHESIS_MIN_CATEGORIES = 2
    SYNTHESIS_MIN_HITS = 3
    NoServer = NoServer
    MAX_OCCURRENCES_PER_RULE = 2
    AnyServer = "any"
    RuleServers = {"s1", "s2"}
    Units <- MCUnits
    Random <- MCRandom
    Locked <- MCLocked
    UserFiles <- MCUserFiles
    Texts <- MCTexts
SPECIFICATION Spec
CHECK_DEADLOCK FALSE
INVARIANTS TypeOK CriticalIsNeverSuppressed StrongestOccurrenceCounts SuppressionOnlyEases MissesAreMasked
