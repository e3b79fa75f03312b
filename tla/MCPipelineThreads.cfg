SPECIFICATION Spec
CONSTANTS
  Threads = {p, q}
  Spans = {"one", "two", "other", "third"}
  Traces = {"t1", "t2", "t3"}
  TraceOf <- TwoAndOnes
  MaxSpans = 2
  MaxTraces = 2
  CallBudget = 1
  MaxCalls = 3
SYMMETRY ThreadSymmetry
INVARIANTS
  FailsOnlyWhenFull
  CacheBounded
  QuietSpanExact
  QuietTraceExact
  NothingInvented
CHECK_DEADLOCK FALSE
