CONSTANTS
    Replica = {r1, r2}
    MaxWrites = 3
    MaxConn = 1
    SnapshotWeight = 1
    MaxOut = 2
SPECIFICATION Spec
SYMMETRY Symmetry
INVARIANTS PrefixConsistent OffsetsAgree
CHECK_DEADLOCK FALSE
