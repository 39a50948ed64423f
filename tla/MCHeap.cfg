CONSTANTS
  TotalSize <- MCTotalSize
  NodeSize <- MCNodeSize
  Sizes <- MCSizes
  Vals = {x}
SPECIFICATION Spec
INVARIANTS TypeOK ListTilesArena Coalesced UsedIsHeld HeadersIntact OutOfMemoryIsReal
PROPERTY ImplementsAllocator
