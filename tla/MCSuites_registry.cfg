CONSTANTS
  Table <- discover
  Seed <- MCSeed
  Parent <- MCParent
  Readable = {TRUE, FALSE}
  Writable = {TRUE, FALSE}
  MaxFaults = 1
  MaxRuns = 2
SPECIFICATION Spec
CHECK_DEADLOCK FALSE
INVARIANTS
  TypeOK
  SeedIntact
  ReadOnlyUntouched
  FinallyCleans
  FailsForAReason
  Covered
