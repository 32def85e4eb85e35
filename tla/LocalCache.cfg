\* Three keys against room for two, and blobs of one and two bytes against
\* two: every limit can be met, passed by one item, and passed by one blob.
SPECIFICATION FairSpec
CONSTANTS
  k1 = k1
  k2 = k2
  k3 = k3
  big = big
  small = small
  Keys = {k1, k2, k3}
  NoKey = NoKey
  Blobs = {big, small}
  Len <- MCLen
  Rewrites <- MCRewrites
  Durations = {0, 2}
  MaxItems = 1
  MaxSize = 2
  HitCap = 2
  MaxTime = 2
  MaxLost = 3
  MaxGained = 1
INVARIANTS
  TypeOK
  CountBound
  SizeBound
  Conservation
PROPERTIES
  HotLast
  CacheMapSpec
  SetReturns
