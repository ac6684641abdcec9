CONSTANTS
  Key = {k1}
  Value = {v1}
  Absent = Absent
  NoSnap = NoSnap
  Ttl <- MCTtl
  At <- MCAt
  MaxTime = 3
  MaxLog = 2
SPECIFICATION Spec
INVARIANT NothingLost
