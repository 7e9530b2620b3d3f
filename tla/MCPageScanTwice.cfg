CONSTANTS
  PageCount = 7
  MaxCount = 5
SPECIFICATION ScanSpec
INVARIANT
  NoPageTwice
CHECK_DEADLOCK FALSE
