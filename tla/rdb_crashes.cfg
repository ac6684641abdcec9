CONSTANTS
    SaveChanges = 2
    MaxWrites = 2
    MaxTroubles = 2

SPECIFICATION FairSpec
INVARIANTS  DirtyCountsUnsaved
PROPERTIES ScheduledSave SavingEnds
CHECK_DEADLOCK FALSE
