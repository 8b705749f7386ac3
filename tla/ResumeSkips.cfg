SPECIFICATION Spec
CONSTANTS
  Workers = {w1}
  Clients = {c1}
  NoSession = none
  Steps <- FlagshipSteps
  Deps <- FlagshipDeps
  ApprovalSteps = {2}
  GatedSteps = {3}
  FlakySteps = {1}
  Action <- FlagshipAction
  RecoveryBudget = 3
  ApprovalIds = {a1, a2}
  Operations = {"approve", "reject", "pause", "resume", "cancel"}
  PlanOutcomes = {"valid"}
  MaxRequests = 2
  MaxCrashes = 0
  MaxRedeliveries = 0
INVARIANTS CompleteIsEarned
CHECK_DEADLOCK FALSE
