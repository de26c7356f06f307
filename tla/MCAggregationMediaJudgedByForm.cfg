SPECIFICATION Spec

CONSTANTS
  m1 = m1
  m2 = m2
  m3 = m3
  m4 = m4
  NoModel = NoModel
  NoProfile = NoProfile
  NoAnswer = NoAnswer
  Pause = Pause
  Raised = Raised
  Models <- MCModels
  LatencyRank <- MCLatencyRank
  Price <- MCPrice
  FilePosition <- MCFilePosition
  FallbackModel = m2
  MinSamples = 5
  TierNum = 2
  Catalogs <- MCCatalogs
  Overrides <- MCOverrides
  CapableSets <- MCCapableSets
  MaxCost = 9
  ProfileTables <- MCProfileTables
  SignalTables <- MCSignalTables
  Requests <- MCRequests
  Answers <- MCAnswers
  EligibleTiers = {2, 3}
  MaxParallel = 2
  MinModels = 2
  MaxAttempts = 2

INVARIANT MediaJudgedByForm
