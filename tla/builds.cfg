SPECIFICATION FairSpec
CONSTANTS
  t1 = t1
  Targets <- OneTarget
  Pids = {1}
  MaxAttempts = 2
  Runs = {r1}
  User = User
  NoFile = NoFile
  NoReplace = FALSE
  JobSet <- AllJobs
  Debris <- FirstTaken
  MaxLosses = 1
INVARIANT PublishedIsGood
INVARIANT NoStaleBytes
INVARIANT CopyIsFaithful
PROPERTY EveryRunEnds
CHECK_DEADLOCK FALSE
