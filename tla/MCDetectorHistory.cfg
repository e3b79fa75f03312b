SPECIFICATION MCSpec
CONSTANTS
  Tools = {a, b, c}
  NoTool = NoTool
  Texts = {x, y}
  RepeatThreshold = 2
  FanoutThreshold = 2
  CallBudget = 2
  MaxScans = 6
SYMMETRY Symmetry
INVARIANTS
  TypeOK
  SequenceFlagsExact
  CostFlagsExact
  RaisedOncePerTrace
