CONSTANTS
    Self = "peer"
    HeadSeqs <- MCHeadSeqs
    MaxCalls = 4
SPECIFICATION Spec
INVARIANT SettledHeadsMatch
CHECK_DEADLOCK FALSE
