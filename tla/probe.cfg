SPECIFICATION FairSpec
CONSTANTS
  Sizes = {0, 1, 2, 3, 4, 5, 6, 7, 8, 9}
  MaxChanges = 1
INVARIANT TypeOK
INVARIANT Exact
INVARIANT NeverOverstates
INVARIANT NoProbeLeft
PROPERTY Ends
CHECK_DEADLOCK FALSE
