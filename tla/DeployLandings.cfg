SPECIFICATION Spec
CONSTANTS
  None = None
  Loop = loop
  Retries = {}
  Https = {http}
  Ids = {1, 2, 3, 4, 5, 6}
  Specs = {1, 2}
  Envs = {e1, e2}
  Builds = {b1, b2}
  Manifests <- TwoGate
  Moves <- AnyMove
  Ops = {"deploy", "rollback", "release", "restart", "apply", "config", "delete", "stop", "start"}
  Patient = TRUE
  Shared = FALSE
  Surge = FALSE
  Starts <- SmallGate
  FirstEnv = e1
  FirstBuild = b1
  MaxOps = 2
  MaxAttempts = 2
INVARIANTS Landed
PROPERTIES StaysParked
CHECK_DEADLOCK FALSE
