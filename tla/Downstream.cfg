CONSTANTS
    MaxCalls = 4
    MaxOwnLines = 1
    OwnIds = {4}
SPECIFICATION Spec
INVARIANTS TypeOK OwnAnswer RunsAtMostOnce DesyncIsPaidOnce
PROPERTIES EveryCallEnds ImplementsChannel
CHECK_DEADLOCK FALSE
