SPECIFICATION Spec
CONSTANTS
  PanelProcess = {panel, other}
  Panel = panel
  MaxMints = 4
  MaxBoots = 3
  MaxCalls = 2
  MaxProvisions = 2
  MaxFaults = 1
INVARIANTS
  AckedStays
  StaleOnlyIfMoved
  FilesMatch
  ServesTrusted
  RootsAgree
CHECK_DEADLOCK FALSE
