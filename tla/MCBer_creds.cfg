CONSTANTS
  Requests <- MCSearch
  Answers <- CredsAnswers
  MaxSent = 1
SPECIFICATION Spec
CHECK_DEADLOCK FALSE
INVARIANTS
  ServerSaslCredsAreFound
