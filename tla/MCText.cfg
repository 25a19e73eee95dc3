SPECIFICATION Spec
CONSTANTS
  NULL = NULL
  Framebuffers <- MCFramebuffers
  FW = 2
  FH = 3
  Calls <- MCCalls
  Messages <- MCMessages
  Unprintable = {"~"}
  UINT64 = 1024
  UINT32 = 256
  COLOUR_PRINT = "white"
  COLOUR_PRINT_ERROR = "red"
  MaxY = 9
INVARIANTS
  TypeOK
  InItsColumn
  WordsWhole
  NumberReadsBack

  
