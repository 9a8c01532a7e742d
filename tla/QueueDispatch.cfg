CONSTANTS
  x1 = x1  x2 = x2  x3 = x3
  o1 = o1  o2 = o2  p1 = p1  p2 = p2
  Executions = {x1, x2, x3}
  Orders = {o1, o2}
  OrderOf <- MCOrderOf
  AgentCount <- MCAgentCount
  Providers = {p1, p2}
  ProviderOf <- MCProviderOf
  GlobalLimit = 1
  ProviderLimit = 1
  MaxAttempts = 2
SPECIFICATION MCSpec
INVARIANTS
  CancelReachesEveryAgent
  NoOrphanAgents
  ReportIsComplete
PROPERTIES
  TimelyCancelIsHonoured
  CancelEndsTheRun
  EverythingEnds
