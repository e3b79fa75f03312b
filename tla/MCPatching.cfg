SPECIFICATION PatchSpec
CONSTANTS
  HostProviders = {p1, p2}
  OwnProviders = {q1, q2, q3}
  Foreign = Foreign
  NoProvider = NoProvider
  Proxy = Proxy
  Frameworks = {"openai", "langchain", "ghost"}
  Hooking = {"langchain"}
  Missing = {"ghost"}
  Requests <- AllRequests
  MaxHandles = 3
SYMMETRY ProviderSymmetry
INVARIANTS
  TypeOK
  OneLiveHandle
  ProvidersShutOnce
  OneOwner
  ScannersHaveHandle
  AdaptersFollowRegistry
  PatchesExact
