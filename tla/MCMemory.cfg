CONSTANTS
  Layouts <- MCLayouts
  Sizes = {3, 4, 5, 6, 7, 20}
  Leftovers <- MCLeftovers
  KernelImage <- MCImage
  Framebuffer <- MCFramebuffer
  StartupPage = 8
  PageSize = 48
  HugePage = 4
  PDTEntries = 4
  PageCount = 7
  MaxCount = 5
  c1 = c1
  c2 = c2
  u1 = u1
  KERNEL = KERNEL
  INVALID = INVALID
SPECIFICATION MemorySpec
INVARIANTS
  TypeOK
  ListHolds
  
  TableApart
  Reachable
  LoopsTyped
  LoopsSelect
  GrantSound
  RefusalJustified
PROPERTIES
  LoopsEnd
  KeepsServing
CHECK_DEADLOCK FALSE
