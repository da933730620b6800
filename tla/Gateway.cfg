CONSTANTS
    LONG_STRING_THRESHOLD = 200
    AGGREGATE_STRING_BYTES_CAP = 800
    U16 = 5
    U32_MAX = 1000
    CLEAN_CALLS_TO_DECAY_CONTAMINATED = 2
    CLEAN_CALLS_TO_DECAY_ELEVATED = 1
    SYNTHESIS_MIN_CATEGORIES = 2
    SYNTHESIS_MIN_HITS = 3
    NoServer = NoServer
    SESSION_INIT_BP = 100
    MaxSessionRiskBp = 6000
    U32 = 100000
    known = known
    ungraded = ungraded
    Servers <- MCServers
    Grade <- MCGrade
    Tools <- MCTools
    tool_owner <- mc_tool_owner
    excluded_tools <- mc_excluded_tools
    Entry <- MCEntry
    Lines <- CallLines
    Responses <- MCResponses
    MaxLines = 5
    MaxAhead = 1
SPECIFICATION Spec
INVARIANTS TypeOK PoisonStopsEveryServer EscalationsAreLogged RulesAreAttributedOnce OwnTimeoutsOnly AuditMatchesReplies
PROPERTY OnlyResultsAreEvidence
CHECK_DEADLOCK FALSE
