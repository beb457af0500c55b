SPECIFICATION Spec
CONSTANTS
  MaxFragments = 1
  Files = {f1, f2}
  FactSet <- EveryVerdict
  MaxItems = 2
SYMMETRY Symmetry
INVARIANT TypeOK
INVARIANT ZeroIsClean
INVARIANT FourIsEarned
INVARIANT GatesAgree
INVARIANT WarningsAgree
INVARIANT EnginesAgree
CHECK_DEADLOCK FALSE
