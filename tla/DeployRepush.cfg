SPECIFICATION Spec
CONSTANTS
  None = None
  Loop = loop
  Retries = {}
  Https = {http}
  Ids = {1, 2, 3, 4}
  Specs = {1, 2}
  Envs = {e1, e2}
  Builds = {b1, b2}
  Manifests <- One
  Moves <- AnyMove
  Ops = {"deploy"}
  Patient = TRUE
  Shared = FALSE
  Surge = TRUE
  Starts <- One
  FirstEnv = e1
  FirstBuild = b1
  MaxOps = 2
  MaxAttempts = 1
INVARIANTS BuildReached
CHECK_DEADLOCK FALSE
