SPECIFICATION LCFairSpec
CONSTANTS
  a1 = a1
  a2 = a2
  l1 = l1
  t1 = t1
  e1 = e1
  NoEnv = NoEnv
  NoGroup = NoGroup
  None = None
  Agents = {a1, a2}
  LoadBalancers = {l1}
  Envs = {e1}
  EnvOf <- MCEnvOf
  ProviderEnv <- MCProviderEnv
  TenantOf <- MCTenantOf
  GroupOf <- MCGroupOf
  Scores = {0}
  Full = 1
  AdminDownIsEligible = TRUE
  Operated = {}
  Servers = {s1}
  s1 = s1
  MaxCalls = 1
  MaxTasks = 1
  MaxReplies = 2
  MayFill = {}
  QueriesMayFail = FALSE
PROPERTIES
  UpdateResolved
