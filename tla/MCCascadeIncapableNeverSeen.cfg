SPECIFICATION Spec

CONSTANTS
  NoModel = NoModel
  q = q
  qv = qv
  qx = qx
  g1 = g1
  g2 = g2
  g3 = g3
  f = f
  old = old
  big = big
  Models <- MCModels
  Catalog <- MCCatalog
  Pool <- MCPool
  DefaultTier <- MCDefaultTier
  Supports <- MCSupports
  Requests <- MCRequests
  Slo <- MCSlo
  Durations <- MCDurations
  Waits <- MCWaits
  Budget = 9
  DefaultTimeout = 3
  Attempts = 3
  Pauses = 1
  Horizon = 10
  AggregationTiers = {2, 3}
  MinCandidates = 2
  MaxParallel = 2

INVARIANT IncapableNeverSeen
