CONSTANTS
  PageCount = 7
  Reserved = {}
  MaxOther = 1
  Slots <- MCSlots
  Addresses <- MCAddresses
  Uses <- MCAlone
  Frames = {f1}
  Maps = {u1}
  First = u1
  None = None
SPECIFICATION Spec
INVARIANTS
  DestroyReleasesAll
CHECK_DEADLOCK FALSE
