CONSTANTS
  Table <- JustPasswords
  Seed <- MCSeed
  Parent <- MCParent
  Readable = {TRUE}
  Writable = {FALSE}
  MaxFaults = 0
  MaxRuns = 1
SPECIFICATION Spec
CHECK_DEADLOCK FALSE
INVARIANTS
  ReadOnlyMeansReadOnly
