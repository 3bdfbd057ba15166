SPECIFICATION Spec
CONSTANTS
  Parts = {"probes", "runs", "requests", "deployRuns", "inits", "releases"}
  Declared = {"startup", "liveness", "readiness"}
  Callers = {handler}
  Generations = 2
  MaxWork = 3
  Buffer = 1
  FailureThreshold = 1
  SuccessThreshold = 1
  Slow = FALSE
  Kinds = {"cronjob", "job"}
  Manifests <- Forbidding
  Slots = {1, 2}
  Hour = 2
  Day = 2
  Week = 2
  Months <- MCMonths
  Limit = 40
  Horizon = 5
  Late = 2
  MaxEdits = 2
  GoodCap = 1
  BadCap = 1
  None = None
  Clients = {c1}
  Resources <- MCResources
  AppKinds = {"deployment"}
  Bodies <- MCBodies
  MaxRequests = 3
  Absent = Absent
  Runs = {g1, g2}
  Commits = {1, 2}
  Files <- MCFiles
  Manual = {"docs"}
  Outside = {}
  AppsOf <- MCAppsOf
  PathOf <- MCPathOf
  TreeAt <- MCTreeAt
  SpecAt <- MCSpecAt
  Released = {"api"}
  Failing = {"download", "build", "record", "apply", "release"}
  MaxRuns = 3
  MaxTroubles = 1
  Unset = Unset
  InitManifests <- MCInitManifests
  Steps <- MCSteps
  Tries <- MCTries
  InitsSurge = TRUE
  RingSize = 2
  NoName = NoName
  MaxReplicas = 3
  MaxAsks = 2
  MaxHurts = 2
  Procs <- MCProcs
  Deployments = {"web"}
  Builds = {b1, b2}
  NoBuild = NoBuild
  KeepReleases = 1
  MaxHistory = 2
  MaxPushes = 2
  MaxCalls = 1
  MaxTroubled = 1
INVARIANTS ReleasesTrue ProbesTrue RunsKept RequestsTrue RunsDeliver InitsFirst
PROPERTIES OnTime
CHECK_DEADLOCK FALSE
