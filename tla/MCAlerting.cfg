SPECIFICATION Spec
CONSTANTS
  main = main
  other = other
  Threads = {main, other}
  MainThread = main
  Reports <- SomeReports
  Rules <- DocumentedRules
  SinkKinds <- WebhookFirst
  MaxHanded <- FindingsOf
INVARIANTS
  SinkExact
  OncePerFinding
PROPERTIES
  ReportsReturn
  LogSpec
CHECK_DEADLOCK FALSE
