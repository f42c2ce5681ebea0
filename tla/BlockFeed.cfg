SPECIFICATION FairSpec
CONSTANTS
  Word = 16
  DefaultCount = 2
  SafeAge = 1
  FinalAge = 3
  ReorgAge = 1
  MaxCall = 2
  Want = 3
  Counts = {0, 3, 15}
  MaxNow = 6
CHECK_DEADLOCK FALSE
INVARIANT TypeOK InOrder FinalIsForGood
PROPERTY Follows
