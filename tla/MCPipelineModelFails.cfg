SPECIFICATION Spec
CONSTANTS
  Tools = {a}
  NoTool = NoTool
  Texts = {x}
  RepeatThreshold = 2
  FanoutThreshold = 2
  CallBudget = 1
  Spans = {s1, s2}
  Traces = {s1, s2}
  TraceOf <- OwnTrace
  MaxSpans = 2
  MaxTraces = 2
  Contexts <- ToolsAndPrompts
  ContentFindings <- NoFindings
  LlmReplies = {"rejected", "raises"}
  DirectEvents <- NoDirect
  MaxScans = 6
INVARIANTS
  FlaggedIsAlerted
CHECK_DEADLOCK FALSE
