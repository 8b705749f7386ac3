SPECIFICATION Spec
CONSTANTS
  Workers = {w1}
  Clients = {c1}
  NoSession = none
  Steps <- FlagshipSteps
  Deps <- FlagshipDeps
  ApprovalSteps = {2}
  GatedSteps = {3}
  FlakySteps = {1}
  Action <- FlagshipAction
  RecoveryBudget = 3
  ApprovalIds = {a1, a2}
  Operations = {"approve", "reject", "pause", "resume", "cancel"}
  PlanOutcomes = {"valid", "unavailable", "invalid"}
  MaxRequests = 4
  MaxCrashes = 1
  MaxRedeliveries = 0
PROPERTIES KeepsContract
CHECK_DEADLOCK FALSE
