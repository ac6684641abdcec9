CONSTANTS
    Replica = {r1}
    MaxWrites = 2
    MaxConn = 3
    SnapshotWeight = 1
    MaxOut = 10

SPECIFICATION FairSpec
 
PROPERTIES ImplementsPrefix Converges
