CONSTANTS
    MAX_SCHEMA_CHECK_DEPTH = 2
    MAX_SCHEMA_PATTERN_SOURCE_LEN = 3
    NoSchema = NoSchema
    Values <- MCValues
    Schemas <- MCSchemas
    Results <- MCResults
    RuleIds <- MCRuleIds
SPECIFICATION Spec
INVARIANTS ConformanceIsMeant NoticeIsAnAppendix
CHECK_DEADLOCK FALSE
