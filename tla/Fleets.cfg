SPECIFICATION FleetSpec
CONSTANTS
  Parts = {"statefulset", "autoscaler"}
  None = None
  Loop = loop
  Https = {http}
  Ordinals = {0, 1}
  Specs = {1, 2}
  Manifests <- Two
  Ops = {"apply", "delete", "prune", "rebootstrap", "restart", "stop", "start", "rollback", "env", "crash"}
  Patient = TRUE
  MaxOps = 4
  Bounds <- MCBounds
  CooldownUp = 2
  CooldownDown = 3
  MaxScaledEdits = 2
  MaxSwings = 2
  MaxFaults = 1
  Gone = Gone
INVARIANTS FleetSafe
PROPERTIES PrimaryLast Settles LoadFollowed
CHECK_DEADLOCK FALSE
