SPECIFICATION Spec
CONSTANTS
  Parts = {"ingress", "assets", "registries", "webhooks", "trail", "plugins", "containers", "wire", "mesh", "forwarded"}
  Names = {n1, n2, n3, n4}
  Retriers = {r1}
  Fleets <- MCFleets
  MaxTries = 2
  MaxOrders = 3
  MaxFailures = 1
  AssetBodies <- MCAssetBodies
  NoAsset = NoAsset
  AssetKeys = {"f", "u"}
  Refs = {"f", "u"}
  Appliers = {a1}
  MaxApplies = 2
  MaxVersion = 2
  MaxMishaps = 1
  RegNames <- MCRegNames
  RegSpecs <- MCRegSpecs
  NoReg = NoReg
  MaxRegOps = 3
  MaxUpsets = 1
  HookTargets <- MCHookTargets
  NoUrl = NoUrl
  CacheTTL = 1
  MaxAttempts = 2
  MaxSeconds = 2
  MaxNews = 2
  MaxBreaks = 1
  Deeds = {d1, d2}
  MaxDay = 3
  Retention = 1
  MaxSpoilt = 1
  Requests = {"q1", "q2", "q3"}
  Repos <- MCRepos
  Kinds = {"pg", "redis"}
  Shipped = {"pg"}
  Core = "deployment"
  PluginAsks <- MCPluginAsks
  NoPlugin = NoPlugin
  NoPin = NoPin
  Latest = Latest
  NoBlock = NoBlock
  MaxRelease = 2
  MaxSlips = 1
  Callers = {"c1", "c2"}
  Nets = {"bridge"}
  Managed = TRUE
  CtrOps = {"ensure", "recreate", "remove", "stop", "start", "restart"}
  NoCtr = NoCtr
  MaxCtrOps = 3
  MaxHitches = 2
  Addresses = {"a1", "a2"}
  Keys = {"k1", "k2"}
  Endpoints = {"e1", NoEndpoint}
  NoEndpoint = NoEndpoint
  NoPeer = NoPeer
  NoAddress = NoAddress
  MaxPeerOps = 3
  MaxCuts = 2
  Hosts = {"h", "a"}
  Askers = {"h"}
  Questions = {"q1", "q2"}
  MeshPods = {"a1", "b1"}
  Home <- MCHome
  IndexRefresh = 1
  AnswerTTL = 2
  NegativeTTL = 1
  PeerTimeout = 1
  NoHost = NoHost
  MaxMoves = 2
  MaxLoss = 2
  Clients = {"ann", "bob"}
  Res = {"web", "db", "cfg"}
  Built = {"web"}
  AssetRes = {"cfg"}
  Hooked = {"web"}
  Drafts <- MCDrafts
  First <- MCFirst
  Flags = {{}, {"prune"}, {"prune", "yes", "force"}}
  Absent = Absent
  Cutoff = Cutoff
  MaxCalls = 2
  MaxEdits = 1
  MaxCutoffs = 1
INVARIANTS RoutesTrue AssetsTrue CredentialsFollow ToldOnce TrailTrue PluginsTrue ContainersTrue WireTrue NamesFollow SaidAndDone
CHECK_DEADLOCK FALSE
