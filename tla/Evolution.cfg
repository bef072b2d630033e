SPECIFICATION Spec
CONSTANTS
  root = root
  coder = coder
  mid = mid
  integ = integ
  reviewer = reviewer
  none = none
  None = none
  Controller = root
  FirstGenome <- MCGenome
  Policy <- MCPolicy
  Trying <- MCTrying
  Auditing <- MCAuditing
  Given <- MCGiven
  Fresh <- MCFresh
  ReviewLeaf <- MCReviewLeaf
  Done <- MCDone
  Signals <- MCSignals
  Bucket <- MCBucket
  GuardrailCost = 3800
  MaxTrials = 3
  MaxSeen = 2
  MaxCrashes = 1
INVARIANTS
  GenerationsAreWhole
  QueueStaysBounded
  ReplayFollowsLimits
  CreditFollowsTree
PROPERTIES
  FittestIsTried
CHECK_DEADLOCK FALSE
