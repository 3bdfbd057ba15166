SPECIFICATION FairSpec
CONSTANTS
  loop = loop
  http = http
  p0 = p0
  p1 = p1
  q0 = q0
  s = s
  t = t
  None = None
  Threads <- MCThreads
  Loop = loop
  Pods <- MCPods
  Sets <- MCSets
  SetOf <- MCSetOf
  Addrs <- MCAddrs
  MaxRecreate = 2
INVARIANTS TypeOK IndexAgree NoLeakOnStableNetwork
PROPERTIES NeverFreesAnothers KeptOnStableNetwork CallsEnd BookSpec
