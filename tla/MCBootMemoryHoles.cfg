CONSTANTS
  Layouts <- MCLayouts
  Sizes = {3, 4, 5, 6, 7, 20}
  Leftovers <- Clear
  KernelImage <- MCImage
  Framebuffer <- MCFramebuffer
  StartupPage = 8
  PageSize = 48
  HugePage = 4
  PDTEntries = 4
SPECIFICATION Spec
INVARIANTS
  SectionsTrue
CHECK_DEADLOCK FALSE
