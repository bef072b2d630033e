SPECIFICATION SerialSpec
CONSTANTS
  t1 = t1
  t2 = t2
  k1 = k1
  k2 = k2
  loop = loop
  leaked = leaked
  api = api
  Trials = {t1, t2}
  Tasks = {k1, k2}
  Loops = {loop}
  Callers = {api}
  BaseGenome = g0
  NoTrial = noTrial
  NoGenome = noGenome
  NoTask = noTask
  Score <- MCScoreTogether
  TokenTotal <- MCTokenTotal
  PruneBelow <- MCPruneBelow
  MinTasks = 2
  PromoteMargin = 1
  MaxTasks = 2
  MaxTokenBudget = 3
  MaxDeliveries = 1
  MaxCrashes = 1
  MaxFaults = 1
  DurableTransport = FALSE
INVARIANTS
  EvidenceIsDistinct
  VerdictHasEvidence
PROPERTIES
  VerdictIsFinal
CHECK_DEADLOCK FALSE
