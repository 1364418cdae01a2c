CONSTANTS
  one = one
  two = two
  three = three
  outside = outside
  feat = feat
  wanted = wanted
  other = other
  NoId = NoId
  Ids = {one, two, three, outside}
  Features = {feat}
  Labels <- MCLabels
  Setups <- GateSetups
SPECIFICATION Spec
CHECK_DEADLOCK FALSE
PROPERTIES
  ImplementsVerdicts
