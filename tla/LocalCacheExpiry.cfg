\* Evict drops an item whose duration has not run out.
SPECIFICATION Spec
CONSTANTS
  k1 = k1
  k2 = k2
  k3 = k3
  big = big
  small = small
  Keys = {k1, k2}
  NoKey = NoKey
  Blobs = {big, small}
  Len <- MCLen
  Rewrites = {}
  Durations = {2}
  MaxItems = 1
  MaxSize = 2
  HitCap = 2
  MaxTime = 2
  MaxLost = 0
  MaxGained = 0
PROPERTIES
  EvictsOnlyExpired
