SPECIFICATION Spec
CONSTANTS
  HostProviders = {p1}
  OwnProviders = {q1, q2}
  Foreign = Foreign
  NoProvider = NoProvider
  Proxy = Proxy
  Frameworks = {"openai", "mcp", "ghost"}
  Missing = {"ghost"}
  Requests <- NoRequest
  MaxHandles = 2
INVARIANTS
  AttachedProviderShips
