SPECIFICATION Spec
CONSTANTS
  b1 = b1
  b2 = b2
  b3 = b3
  n1 = n1
  n2 = n2
  s1 = s1
  s2 = s2
  sA = sA
  sB = sB
  v1 = v1
  v2 = v2
  v3 = v3
  p1 = p1
  p2 = p2
  h1 = h1
  h2 = h2
  h3 = h3
  env = env
  other = other
  None = None
  Env = env
  Envs = {env, other}
  Hosts = {h1, h2, h3}
  Ports = {v1, v2, v3, p1, p2}
  Builds = {b1, b2, b3}
  Networks = {n1, n2}
  Segments = {s1, s2, sA, sB}
  Nets <- MCNets
  VipPort <- MCVipPort
  Native <- MCNative
  AgentRows <- MCAgentRows
  Levels <- MCLevels
  F5Port <- MCF5Port
  TableSegments <- MCTableSegments
  Vlan = {sA, sB}
  Opflex = {s2}
  Usable <- MCUsable
  Hierarchical = FALSE
  Day = 3
  MaxTime = 3
INVARIANTS
  InvalidatedIfTooOld
CHECK_DEADLOCK FALSE
