CONSTANTS
  CPUs = {c1, c2}
  Locks <- MCLocks
SPECIFICATION FairSpec
INVARIANTS
  SpinlockInv
  MutualExclusion
  HoldersMasked
  InterruptsRestored
PROPERTIES
  LockProgress
