CONSTANTS
  PageCount = 5
  Reserved = {}
  MaxOther = 2
  Slots <- MCSlots
  Addresses <- MCAddresses
  Uses <- MCTogether
  Frames = {f1}
  Maps = {u1}
  First = u1
  None = None
SPECIFICATION Spec
INVARIANTS
  NoEntryToFreePage
CHECK_DEADLOCK FALSE
