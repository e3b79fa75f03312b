SPECIFICATION AgentSpec
CONSTANTS
  Tools = {a, b, c}
  NoTool = NoTool
  Texts = {"{}", "raw", "dumped"}
  RepeatThreshold = 2
  FanoutThreshold = 2
  CallBudget = 2
  Installs = {{"openai"}, {"anthropic"}, {"mcp"}, {"openai", "mcp"}, {"anthropic", "mcp"}}
  NoArguments = "{}"
  Dumped <- Spellings
  Streams = {TRUE, FALSE}
  Replies <- UpToTwo
  Results = {"dumped"}
  MaxCalls = 3
  MaxRuns = 3
SYMMETRY ToolSymmetry
INVARIANTS
  OneAdapterExact
  BothCountTwice
  BudgetAlarmBounds
  HistoryTripsLoopAlarm
CHECK_DEADLOCK FALSE
