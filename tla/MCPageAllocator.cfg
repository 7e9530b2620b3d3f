CONSTANTS
  PageCount = 5
  Callers = {c1, c2}
  Users = {u1}
  KERNEL = KERNEL
  INVALID = INVALID
  MaxCount = 4
  HighFlags = {TRUE, FALSE}
  ConsFlags = {TRUE, FALSE}
  BootTables <- MCBootTables
SPECIFICATION Spec
SYMMETRY Symmetric
INVARIANTS
  AllocatorInv
PROPERTIES
  KernelPagesGuarded
  OthersUndisturbed
  AcquireExact
  KeepsLedger
CHECK_DEADLOCK FALSE
