SPECIFICATION Spec

CONSTANTS
  k1 = k1
  k2 = k2
  none = none
  Keys <- MCKeys
  NoKey <- none
  Second = 3
  Lifetime <- MCLifetime
  LastTick = 6

INVARIANT ExpiredExcluded
