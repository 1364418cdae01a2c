CONSTANTS
  Requests <- MCAbandon
  Answers <- MCAnswers
  MaxSent = 2
SPECIFICATION Spec
CHECK_DEADLOCK FALSE
INVARIANTS
  AbandonNamesTheSearch
