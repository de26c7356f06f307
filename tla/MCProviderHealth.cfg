SPECIFICATION Spec

CONSTANTS
  c1 = c1
  c2 = c2
  Models <- MCModels
  NoModel = "no model"
  LatencyRank <- MCLatencyRank
  Price <- MCPrice
  FilePosition <- MCFilePosition
  FallbackModel = "bedrock/a"
  NoProfile = NoProfile
  MinSamples = 3
  Providers = {"bedrock", "groq"}
  ProviderOf <- MCProviderOf
  Candidates <- MCCandidates
  Complexity = 5
  Profilings <- MCProfilings
  SignalTables <- MCSignalTables
  Latencies <- MCLatencies
  Histories <- MCHistories
  Callers = {c1, c2}
  MinuteTicks = 2
  CurrentWindow = 1
  BaselineWindow = 2
  BucketTTL = 5
  LatchTTL = 1
  MinCurrent = 1
  Ratio = 2
  PctNum = 1
  PctDen = 2
  LastMinute = 2
  MaxSamples = 2

SYMMETRY Symmetry

INVARIANTS
  TypeOK
  BaselineKept
  NoFalseAlarm
  HealthBreaksTies
