CONSTANTS
    MaxCalls = 3
    MaxOwnLines = 1
    OwnIds = {4}
SPECIFICATION Spec
INVARIANT AnswersAreReplies
CHECK_DEADLOCK FALSE
