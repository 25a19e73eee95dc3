SPECIFICATION PmmSpec
CONSTANTS
  PAGE = 2
  BITS = 3
  memmap_entries <- MCMemmap
  higher_half_offset = 32
  UINT64_MAX = 63
  PhysArgs <- MCPhysArgs
  TablesPerMap = 3
INVARIANTS
  PmmTypeOK
  CountMatchesBitmap
  BitmapPagesReserved
PROPERTY ImplementsAllocator
