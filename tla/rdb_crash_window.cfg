CONSTANTS
    SaveChanges = 1
    MaxWrites = 1
    MaxTroubles = 1

SPECIFICATION Spec
INVARIANT CrashKeepsSnapshot
