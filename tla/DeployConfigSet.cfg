SPECIFICATION Spec
CONSTANTS
  None = None
  Loop = loop
  Retries = {}
  Https = {http}
  Ids = {1, 2, 3, 4}
  Specs = {1, 2}
  Envs = {e1, e2}
  Builds = {b1}
  Manifests <- One
  Moves <- AnyMove
  Ops = {"config"}
  Patient = TRUE
  Shared = FALSE
  Surge = TRUE
  Starts <- One
  FirstEnv = e1
  FirstBuild = b1
  MaxOps = 1
  MaxAttempts = 1
INVARIANTS EnvReached
CHECK_DEADLOCK FALSE
