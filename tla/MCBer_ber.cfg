CONSTANTS
  Requests <- MCRequests
  Answers <- MCAnswers
  MaxSent = 2
SPECIFICATION Spec
CHECK_DEADLOCK FALSE
INVARIANTS
  TypeOK
  RequestsDecode
  SplitIsExact
  
  CutAnswerIsNoOther
