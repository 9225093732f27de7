SPECIFICATION Spec
CONSTANTS
  light = light
  heavy = heavy
  Keys = {k1, k2}
  Values = {light, heavy}
  NotFound = NotFound
  TTLs <- MCTTLs
  DefaultTTL = 2
  Readers = {r1, r2}
  MaxTime = 3
  Weight <- MCWeight
  MaxSize = 2
  CleanupEvery = 2
  MaxReads = 3
  MaxWrites = 3
SYMMETRY CacheSymmetry
INVARIANT CountersNeverInflated
PROPERTY ImplementsContract
PROPERTY LiveItemsSpared
