CONSTANTS
  Txns = {t1, t2}
  PolicyIds = {p}
  Raws = {s}
  NoPolicy = none
  Refs = {r1, r2, r3, r4}
  NoRef = noref
  Order <- MCOrder
  Fold <- MCFold
  Wild <- MCWild
  WildTakes <- MCWildTakes
  MemoryChanges <- MCMemoryChanges
  DiskChanges <- MCDiskChanges
SYMMETRY Interchangeable
SPECIFICATION Spec
INVARIANTS ReadsBack PoliciesDurable
PROPERTY SnapshotIsolation
CHECK_DEADLOCK FALSE
