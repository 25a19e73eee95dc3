SPECIFICATION Spec
CONSTANTS
  Machines <- MCMachines
  SLOTS = 2
  FUNCTIONS = 2
  BUSES = 5
  PAGES = 1024
  NULL = NULL
CHECK_DEADLOCK FALSE
INVARIANT HeaderInUse
