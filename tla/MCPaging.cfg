SPECIFICATION Spec
CONSTANTS
  PAGE_SIZE = 2
  ENTRIES = 2
  DIRS = 12
  KERNEL_DIRS = 3
  KERNEL_END = 1
  PHYS_MEM_END = 9
  Framebuffer <- MCFramebuffer
  UserPages <- MCUserPages
  HEAP_BASE = 10
  HEAP_PAGES = 4
  Increments <- MCIncrements
INVARIANTS TypeOK FramesPrivate PagesTranslate HeapMapped
PROPERTY FullPagesStay
CHECK_DEADLOCK FALSE
