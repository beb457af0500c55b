SPECIFICATION Spec
CONSTANTS
  Limit = 1073741823
  Requests <- AllRequests
  Finds <- AllFinds
  MaxCommands = 3
INVARIANT NothingLost
INVARIANT FooterTells
INVARIANT GeometryFits
CHECK_DEADLOCK FALSE
