\* Trust that was revoked cannot be earned again.
CONSTANTS
    Keys <- MCKeys
    Occasions <- MCOccasions
    NeedApprovals = 2
    NeedDays = 2
    NeedVix = 2
    NeedTimes = 2
    MaxDecisions = 4
SPECIFICATION TrustSpec
INVARIANT TrustCanBeReEarned
CHECK_DEADLOCK FALSE
