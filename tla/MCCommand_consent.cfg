CONSTANTS
  Ids <- MCIds
  Catalogue <- MCCatalogue
  Options <- OptionRecords
  Selections <- MCSelections
  Unbinding <- MCUnbinding
  Earlier <- MCEarlier
SPECIFICATION Spec
CHECK_DEADLOCK FALSE
INVARIANTS
  NoWriteWithoutConsent
