SPECIFICATION Spec
CONSTANTS
  Tasks = {one, two, child}
  Agents = {one, two}
  Runs = {r1, r2}
  Blocks = {"manual", "sdk"}
  Copies = {TRUE, FALSE}
  Sampling = {TRUE, FALSE}
  Parallel = {TRUE, FALSE}
  MaxSpans = 3
SYMMETRY Symmetry
INVARIANTS
  ScansMeetLiveSpans
  OpenSpansHaveOwners
  AgentsKeepApart
  RootedAgentIsOneTrace
CHECK_DEADLOCK FALSE
