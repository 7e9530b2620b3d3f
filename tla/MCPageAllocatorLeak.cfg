CONSTANTS
  PageCount = 3
  Callers = {c1, c2}
  Users = {u1}
  KERNEL = KERNEL
  INVALID = INVALID
  MaxCount = 2
  HighFlags = {TRUE, FALSE}
  ConsFlags = {TRUE, FALSE}
  BootTables <- MCBootTables
SPECIFICATION FairSpec
PROPERTY
  KeepsServing
CHECK_DEADLOCK FALSE
