CONSTANTS
  Key = {k1, k2}
  Value = {v1, v2}
  Absent = Absent
  NoSnap = NoSnap
  Ttl <- MCTtl
  At <- MCAt
  MaxTime = 3
  MaxLog = 2

SPECIFICATION Spec
SYMMETRY Symmetry
INVARIANTS NoResurrection SetKeysComplete IndexesSound
PROPERTIES EveryChangeLogged KeepttlKeepsDeadline
