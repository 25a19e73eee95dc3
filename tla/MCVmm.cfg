SPECIFICATION Spec
CONSTANTS
  PAGE = 1
  BITS = 128
  memmap_entries <- MCMemmap
  higher_half_offset <- MCHigherHalf
  UINT64_MAX = 16383
  ENTRIES = 4
  PhysPages <- MCPhysPages
  boot_mem <- MCBootMem
  boot_cr3 <- MCCr3
  kernel_start <- MCKernelStart
  kernel_size = 2
  ClientVirt <- MCClientVirt
  MaxOwned = 2
INVARIANTS
  TypeOK
  DirectMap
  KernelMapped
  TablesReserved
  MapsWhatWasAsked
PROPERTY NoStaleTranslation
