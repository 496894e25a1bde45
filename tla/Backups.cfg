SPECIFICATION Spec
CONSTANTS
  Process = {panel, tool}
  Panel = panel
  MaxCount = 1
  MaxBackups = 2
  MaxDeletes = 1
  MaxKills = 1
INVARIANTS
  OkIsRestorable
  FilesAreListed
PROPERTIES
  GoodIsKept
CHECK_DEADLOCK FALSE
