CONSTANTS
    MAX_HASH_RECURSION_DEPTH = 1
    Values <- MCValues
    Definitions <- MCDefinitions
SPECIFICATION Spec
INVARIANT PinTellsChange
