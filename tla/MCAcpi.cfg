SPECIFICATION Spec
CONSTANTS
  Firmwares <- MCFirmwares
  StraySignatures = {"FACP"}
  NULL = NULL
INVARIANTS
  TypeOK
  TablesAsListed
  FaultsExplained
PROPERTY BootEnds
CHECK_DEADLOCK FALSE
