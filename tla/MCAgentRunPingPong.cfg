SPECIFICATION AgentSpec
CONSTANTS
  Tools = {a, b, c}
  NoTool = NoTool
  Texts = {"{}", "dumped"}
  RepeatThreshold = 9
  FanoutThreshold = 2
  CallBudget = 9
  Installs = {{"openai", "mcp"}}
  NoArguments = "{}"
  Dumped <- Spellings
  Streams = {FALSE}
  Replies <- OneWithArguments
  Results = {"dumped"}
  MaxCalls = 4
  MaxRuns = 4
SYMMETRY ToolSymmetry
INVARIANTS
  PingPongIsFlagged
CHECK_DEADLOCK FALSE
