CONSTANTS
  primary = primary
  fallback = fallback
  rules = rules
  http = http
  local = local
  draft = draft
  essay = essay
  digest = digest
  absentee = absentee
  colleague = colleague
  unreachable = unreachable
  stranger = stranger
  nobody = nobody
  broken = broken
  none = none
  plain = plain
  wanted = wanted
  torn = torn
  seeded1 = seeded1
  seeded2 = seeded2
  composed = composed
  real = real
  Models <- MCModels
  Local = rules
  Provider <- MCProvider
  Priority <- MCPriority
  MaxAttempts = 3
  MaxModels = 3
  MaxRequests = 3
  Missions <- MCMissions
  Texts <- MCTexts
  Draft = draft
  Opening <- MCOpening
  Employees <- MCEmployees
  HasEmail <- MCHasEmail
  Stranger = stranger
  Nobody = nobody
  Broken = broken
  Figures <- MCFigures
  Total <- MCTotal
  Poor <- MCPoor
  Unreadable = none
  Contents = {plain, wanted}
  HasText = {wanted}
  Torn = torn
  MaxEdits = 2
  MaxSteps = 5
  MaxActions = 5
  FlowTools <- MCFlowTools
  MaxSearches = 2
  Seeded <- MCSeeded
  Composed = {composed}
  Real = real
  Started <- MCStarted
  SeededGate = 2
SPECIFICATION Spec
CHECK_DEADLOCK FALSE
INVARIANTS SavedForReal CleansUp ShownIsBackends
