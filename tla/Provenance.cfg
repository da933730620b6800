CONSTANTS
    LONG_STRING_THRESHOLD = 200
    AGGREGATE_STRING_BYTES_CAP = 800
    U16 = 5
    U32_MAX = 999
    CLEAN_CALLS_TO_DECAY_CONTAMINATED = 5
    CLEAN_CALLS_TO_DECAY_ELEVATED = 3
    SYNTHESIS_MIN_CATEGORIES = 2
    SYNTHESIS_MIN_HITS = 3
    NoServer = NoServer
    known = known
    ungraded = ungraded
    suspect = suspect
    Servers <- MCServers
    Grade <- MCGrade
    Payloads <- MCPayloads
    Summaries <- MCSummaries
SPECIFICATION Spec
INVARIANTS TypeOK RecoveryIsPaidFor PoisonIsCorroborated BlameIsRight
PROPERTIES DecayIsEarned Recovers
