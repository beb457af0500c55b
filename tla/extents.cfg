SPECIFICATION FairSpec
CONSTANTS
  Blocks = 4
  Addresses = {0, 1, 2, 3}
  Batch = 2
  Odd = {"unwritten", "unknown"}
  Quirky = 2
  Strays <- AnyRecord
INVARIANT TypeOK
INVARIANT CoreQuestion
INVARIANT Faithful
INVARIANT FlagsSurvive
INVARIANT Maximal
PROPERTY Ends
CHECK_DEADLOCK FALSE
