SPECIFICATION Spec
CONSTANTS
  NULL = NULL
  Bootloaders <- MCBootloaders
  FONT_PATH <- MCFontPath
  CHARS = 3
INVARIANTS
  TypeOK
  MappingsAsListed
  OutcomeExplained
PROPERTY
  BootDecided
