SPECIFICATION FairSpec
CONSTANTS
  BatchSize = 2
  MaxLines = 3
  MaxSeq = 3
INVARIANT TypeOK
INVARIANT OnlyDisorderSkips
INVARIANT NoneTwice
INVARIANT PagesAgree
PROPERTY EveryLineHandled
CHECK_DEADLOCK FALSE
