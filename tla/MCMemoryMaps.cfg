CONSTANTS
  PageCount = 8
  Reserved = {}
  MaxOther = 0
  Slots <- MCSlots
  Addresses <- MCAddresses
  Uses <- MCAlone
  Frames = {f1, f2}
  OneFrame = {f1}
  Kept = {6, 7}
  Maps = {u1, u2}
  First = u1
  None = None
SPECIFICATION Scenarios
INVARIANTS
  TreeInv
  NoEmptyTables
  OverwriteRefusedBare
PROPERTIES
  KeepsSpaces
CHECK_DEADLOCK FALSE
