SPECIFICATION FairSpec
CONSTANTS
  Workers = {w1}
  Clients = {c1, c2}
  NoSession = none
  Steps <- FlagshipSteps
  Deps <- FlagshipDeps
  ApprovalSteps = {2}
  GatedSteps = {3}
  FlakySteps = {4}
  Action <- FlagshipAction
  RecoveryBudget = 2
  ApprovalIds = {a1, a2}
  Operations = {"approve", "reject", "pause", "resume", "cancel"}
  PlanOutcomes = {"valid", "unavailable"}
  MaxRequests = 3
  MaxCrashes = 0
  MaxRedeliveries = 1
INVARIANTS AttemptsBounded SendsOnce
PROPERTIES EarlyCancelEnds
CHECK_DEADLOCK FALSE
