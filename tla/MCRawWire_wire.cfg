CONSTANTS
  Methods <- AllMethods
  MaxSent = 5
  Fragmented = {"bind_then_send_raw"}
  Notices = TRUE
SPECIFICATION Spec
INVARIANTS
  TypeOK
  ReportedCodeIsTheAnswer
  PassIsNotTheBind
  StreamIsTheAnswer
PROPERTIES
  CallReturns
CHECK_DEADLOCK FALSE
