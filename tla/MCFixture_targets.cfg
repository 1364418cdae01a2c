CONSTANTS
  Targets <- TargetTypes
SPECIFICATION Spec
INVARIANTS
  TypeOK
  ReuseFindsTheSeed
PROPERTIES
  FreshRunsBeginOnTheSeed
  StartEnds
