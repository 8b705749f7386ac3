SPECIFICATION FairSpec
CONSTANTS
  Workers = {w1}
  Clients = {c1, c2}
  NoSession = none
  Steps <- FlagshipSteps
  Deps <- FlagshipDeps
  ApprovalSteps = {2}
  GatedSteps = {3}
  FlakySteps = {1}
  Action <- FlagshipAction
  RecoveryBudget = 3
  ApprovalIds = {a1, a2}
  Operations = {"approve", "reject", "cancel"}
  PlanOutcomes = {"valid"}
  MaxRequests = 2
  MaxCrashes = 0
  MaxRedeliveries = 0
PROPERTIES DecisionIsFinal CancelTerminates
CHECK_DEADLOCK FALSE
