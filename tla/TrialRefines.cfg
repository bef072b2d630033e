SPECIFICATION SerialSpec
CONSTANTS
  t1 = t1
  t2 = t2
  k1 = k1
  k2 = k2
  loop = loop
  leaked = leaked
  api = api
  Trials = {t1, t2}
  Tasks = {k1, k2}
  Loops = {loop}
  Callers = {api}
  BaseGenome = g0
  NoTrial = noTrial
  NoGenome = noGenome
  NoTask = noTask
  Score <- MCScore
  TokenTotal <- MCTokenTotal
  PruneBelow <- MCPruneBelow
  MinTasks = 1
  PromoteMargin = 1
  MaxTasks = 1
  MaxTokenBudget = 2
  MaxDeliveries = 1
  MaxCrashes = 0
  MaxFaults = 0
  DurableTransport = FALSE
INVARIANTS
  BaselineIsChampion
PROPERTIES
  RefinesContract
CHECK_DEADLOCK FALSE
