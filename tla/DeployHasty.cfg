SPECIFICATION FairSpec
CONSTANTS
  None = None
  Loop = loop
  Retries = {}
  Https = {http}
  Ids = {1, 2, 3, 4}
  Specs = {1, 2}
  Envs = {e1, e2}
  Builds = {b1}
  Manifests <- SameCount
  Moves <- AnyMove
  Ops = {"apply", "delete", "config"}
  Patient = FALSE
  Shared = TRUE
  Surge = TRUE
  Starts <- OrNone
  FirstEnv = e1
  FirstBuild = b1
  MaxOps = 3
  MaxAttempts = 1
INVARIANTS Converged
PROPERTIES NeverBelowWant
CHECK_DEADLOCK FALSE
