CONSTANTS
    Policies = {"everysec"}
    RewriteThreshold = 0
    MaxWrites = 2
    MaxTroubles = 2

SPECIFICATION Spec
INVARIANT NeverRefused
CHECK_DEADLOCK FALSE
