SPECIFICATION Spec
CONSTANTS
  Threads = {t1, t2}
  Owners = {o1, o2}
  NoThread = none
  MaxActive = 2
  MaxTombstones = 1
  MaxIssued = 3
SYMMETRY Symmetry
INVARIANT HardwareExclusive
INVARIANT ExecutionKeepsRecord
INVARIANT RegistryBounded
INVARIANT ConsumedIsTrue
INVARIANT NobodyWaits
PROPERTY SingleUse
PROPERTY DeadOwnersForgotten
