SPECIFICATION Spec
CONSTANTS
  Workers = {w1, w2}
  Clients = {c1}
  NoSession = none
  Steps <- FlagshipSteps
  Deps <- FlagshipDeps
  ApprovalSteps = {2}
  GatedSteps = {3}
  FlakySteps = {1}
  Action <- FlagshipAction
  RecoveryBudget = 3
  ApprovalIds = {a1, a2}
  Operations = {"approve"}
  PlanOutcomes = {"valid"}
  MaxRequests = 2
  MaxCrashes = 0
  MaxRedeliveries = 1
INVARIANTS SendsOnce
CHECK_DEADLOCK FALSE
