SPECIFICATION Spec
CONSTANTS
  Workers = {w1, w2}
  Clients = {c1, c2, c3}
  NoSession = none
  Steps <- FlagshipSteps
  Deps <- LooseDeps
  ApprovalSteps = {2}
  GatedSteps = {3}
  FlakySteps = {1}
  Action <- FlagshipAction
  RecoveryBudget = 3
  ApprovalIds = {a1, a2}
  Operations = {"approve", "reject", "resume"}
  PlanOutcomes = {"valid"}
  MaxRequests = 3
  MaxCrashes = 0
  MaxRedeliveries = 1
INVARIANTS SendIsApproved DependentsAwaitGrant AwaitingHasPending
PROPERTIES LatePlanIsNoOp
SYMMETRY SessionSymmetry
CHECK_DEADLOCK FALSE
