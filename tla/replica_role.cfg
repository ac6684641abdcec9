CONSTANTS
    Server = {s1, s2}
    None = None
    MaxWrites = 2
    MaxRoles = 3
    MaxBreaks = 1

SPECIFICATION FairSpec
INVARIANTS FollowsMaster
PROPERTIES PromotedKeepsWrites EventLoopReturns ReplicaConverges
CHECK_DEADLOCK FALSE
