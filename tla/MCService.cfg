SPECIFICATION Spec

CONSTANTS
  first = first
  again = again
  photo = photo
  maths = maths
  k1 = k1
  k2 = k2
  noKey = noKey
  pending = pending
  failed = failed
  Requests <- MCRequests
  Tasks <- MCTasks
  Uncacheable <- MCUncacheable
  TaskOf <- MCTaskOf
  Media <- MCMedia
  OptOut = {}
  Similarity <- MCSimilarity
  Threshold <- MCThreshold
  Grades <- MCGrades
  Keys = {k1, k2}
  NoKey <- noKey
  Pending <- pending
  Failed <- failed

CHECK_DEADLOCK FALSE

INVARIANTS
  TypeOK
  KeptAnswersSound
  OwnEntriesReadable

PROPERTIES
  ContractSpec
