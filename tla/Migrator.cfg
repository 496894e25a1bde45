SPECIFICATION MigrateSpec
CONSTANTS
  File = {1, 2, 3, 4}
  Embedded = {1, 2, 3}
  Recreating = {2}
  Tolerant = {4}
  Committing = {2, 4}
  OneWay = {3}
  Runner = {panel, other}
  MaxRuns = 4
INVARIANTS
  JournalMatches
  UpIsComplete
  NoRowsLost
CHECK_DEADLOCK FALSE
