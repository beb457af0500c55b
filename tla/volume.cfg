SPECIFICATION FairSpec
CONSTANTS
  Sectors = 2
  Cells = 2
  Usns = 2
  MaxWrites = 2
  Targets = 2
  Volumes <- AllVolumes
INVARIANT TypeOK
INVARIANT AnswerWasTrue
INVARIANT ExitTells
INVARIANT NeverGuesses
PROPERTY Ends
CHECK_DEADLOCK FALSE
