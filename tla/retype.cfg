SPECIFICATION Spec
CONSTANTS
  Runs = {1, 2, 3}
  MaxLength = 3
  Weathers <- Any
INVARIANT TypeOK
INVARIANT GuestKeepsItsDisk
INVARIANT ImageIsNamed
INVARIANT OneSectorEach
CHECK_DEADLOCK FALSE
