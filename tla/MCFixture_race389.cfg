CONSTANTS
  Targets = {"389ds"}
SPECIFICATION Spec
PROPERTIES
  EveryFreshRunBeginsOnTheSeed
