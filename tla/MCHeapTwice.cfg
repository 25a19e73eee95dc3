SPECIFICATION Spec
CONSTANTS
  PAGE = 8
  HDR = 2
  heap_base_address = 64
  c1 = c1
  c2 = c2
  c3 = c3
  Clients <- MCClients
  Sizes <- MCSizes
  MaxHeapPages = 3
  UINT32_MAX = 63
SYMMETRY MCSymmetry
CHECK_DEADLOCK FALSE
INVARIANT NotHandedOutTwice
