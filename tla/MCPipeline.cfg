SPECIFICATION Spec
CONSTANTS
  Tools = {a}
  NoTool = NoTool
  Texts = {x}
  RepeatThreshold = 2
  FanoutThreshold = 2
  CallBudget = 1
  Spans = {s1, s2, s3, s4}
  Traces = {s1, s2, s3}
  TraceOf <- SharedTrace
  MaxSpans = 2
  MaxTraces = 2
  Contexts <- ToolsAndPrompts
  ContentFindings <- NoFindings
  LlmReplies = {"rejected", "suspect", "raises"}
  DirectEvents <- OneDirect
  MaxScans = 4
SYMMETRY SharedSymmetry
INVARIANTS
  TypeOK
  SpanCacheExact
  SummaryExact
  TraceCacheExact
  OncePerTrace
  BudgetAlarmExact
  FlaggedUnlessFailed
PROPERTIES
  LedgerSpec
CHECK_DEADLOCK FALSE
