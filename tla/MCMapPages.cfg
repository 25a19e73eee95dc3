SPECIFICATION Spec
CONSTANTS
  PAGE = 1
  BITS = 128
  memmap_entries <- MCMemmap
  higher_half_offset = 128
  UINT64_MAX = 16383
  ENTRIES = 4
  PhysPages <- MCPhysPages
  boot_mem <- MCBootMem
  boot_cr3 = 4
  Bases <- MCBases
  Lengths <- MCLengths
  MaxRanges = 2
INVARIANTS
  MapsExactly
  BothMapsKept
CHECK_DEADLOCK FALSE
