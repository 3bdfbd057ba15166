SPECIFICATION Spec
CONSTANTS
  Parts = {"metrics", "drift", "manifests", "lifecycle", "streams", "environments", "procfiles"}
  LastDay = 3
  KeepDays = 1
  StaleAfter = 1
  Budgets <- MCBudgets
  Settings <- MCSettings
  Base <- MCBase
  EnvFiles = {"shared"}
  Replicated = {1}
  MaxEdits = 2
  MaxContents = 2
  Fields <- MCFields
  Plain <- MCPlain
  Labels <- MCLabels
  Shell <- MCShell
  MaxBlocks = 2
  MaxWrites = 3
  Callers = {k1, k2}
  Planes <- MCPlanes
  Unjoined = {x1, x2}
  MaxPasses = 1
  Pushes = {"output"}
  MaxResults = 2
  Payloads <- MCPayloads
  Authored <- MCAuthored
  Shells <- MCShells
  MaxChanges = 2
  MaxApplies = 2
  Procfiles <- MCProcfiles
  Routings <- MCRoutings
  AppFlags = {100}
  ScopeVars = {100}
  ClientHasVar = TRUE
  BasePort = 5000
  MaxProcEdits = 2
  MaxProcApplies = 3
INVARIANTS MetricsTrue DriftTrue WrittenTrue LifecycleTrue StreamTrue EnvsTrue
CHECK_DEADLOCK FALSE
