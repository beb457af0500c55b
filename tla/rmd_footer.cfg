SPECIFICATION Spec
CONSTANTS
  t1 = t1
  Targets <- OneTarget
  Pids = {1, 2}
  MaxAttempts = 1
  Runs = {r1}
  User = User
  NoFile = NoFile
  NoReplace = TRUE
  JobSet <- OneToRmd
  Debris <- Nothing
  MaxLosses = 0
INVARIANT RmdHasNoFooter
CHECK_DEADLOCK FALSE
