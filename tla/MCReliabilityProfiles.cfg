SPECIFICATION Spec

CONSTANTS
  fast = fast
  slow = slow
  o1 = o1
  o2 = o2
  o3 = o3
  c1 = c1
  c2 = c2
  c3 = c3
  Profiles <- MCProfiles
  Outcomes <- MCOutcomes
  ProfileOf <- MCProfileOf
  Earlier = {o3}
  Callers <- MCCallers
  TTL = 2
  LastTick = 4

CHECK_DEADLOCK FALSE

INVARIANTS
  TypeOK
  SamplesSound
  LostOnlyToOverlap
  NeverOlderThanStated

PROPERTIES
  RefreshTimeAdvances
  ForgottenOnlyByError
  CallsReturn
