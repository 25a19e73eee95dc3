SPECIFICATION Spec
CONSTANTS
  Machines <- MCMachines
  SLOTS = 2
  FUNCTIONS = 2
  BUSES = 5
  PAGES = 1024
  NULL = NULL
INVARIANTS
  TypeOK
  FoundOncePerWay
  
  NestingBounded
  ControllersEnabled
  DescriptorsAsListed
PROPERTY ProbeEnds
CHECK_DEADLOCK FALSE
