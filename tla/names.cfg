SPECIFICATION Spec
CONSTANTS
  t1 = t1
  Targets <- OneTarget
  Pids = {1}
  MaxAttempts = 2
  Runs = {r1, r2}
  User = User
  NoFile = NoFile
  NoReplace = TRUE
  JobSet <- NameJobs
  Debris <- FirstTaken
  MaxLosses = 1
INVARIANT TypeOK
INVARIANT OwnsTemp
INVARIANT NoDebris
INVARIANT FailureNeverPublishes
PROPERTY NoClobber
PROPERTY NeverMissing
PROPERTY IsAtomic
SYMMETRY Symmetry
CHECK_DEADLOCK FALSE
