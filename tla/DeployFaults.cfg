SPECIFICATION FairSpec
CONSTANTS
  None = None
  Loop = loop
  Retries = {r1}
  Https = {}
  Ids = {1, 2, 3, 4, 5, 6}
  Specs = {1, 2, 3}
  Envs = {e1}
  Builds = {b1}
  Manifests <- Three
  Moves <- Forward
  Ops = {"apply", "crash", "fail", "transient"}
  Patient = TRUE
  Shared = FALSE
  Surge = TRUE
  Starts <- One
  FirstEnv = e1
  FirstBuild = b1
  MaxOps = 3
  MaxAttempts = 2
INVARIANTS EnoughReached
PROPERTIES Settles
CHECK_DEADLOCK FALSE
