CONSTANTS
  one = one
  two = two
  three = three
  outside = outside
  feat = feat
  wanted = wanted
  other = other
  NoId = NoId
  Ids = {one, two, three}
  Features = {feat}
  Labels <- MCLabels
  Setups <- GraphSetups
SPECIFICATION Spec
CHECK_DEADLOCK FALSE
INVARIANTS
  TypeOK
  ExactlyOneVerdict
  GroundedVerdicts
  DoomedNeverRun
  DependencyOrder
  BlockedIsDeserved
PROPERTIES
  VerdictsAreFinal
  RunEnds
