CONSTANTS
    Policies = {"always", "everysec", "no"}
    RewriteThreshold = 3
    MaxWrites = 3
    MaxTroubles = 3

SPECIFICATION FairSpec
INVARIANTS FileIsStream 
PROPERTIES RecoversSynced RecoversAll EventuallySynced
CHECK_DEADLOCK FALSE
