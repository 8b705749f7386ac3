CONSTANTS
  n1 = n1
  n2 = n2
  n3 = n3
  n4 = n4
  solo = solo
  team = team
  main_engine = main_engine
  ghost = ghost
  torn = torn
  closed = closed
  Executions <- MCExecutions
  Callers <- MCCallers
  ExecutionOf <- MCExecutionOf
  Torn = torn
  Closed = closed
  Team = team
  Nodes <- MCNodes
  Plans <- MCPlans
  Ghost = ghost
  MaxConcurrency = 2
  MaxReplans = 1
  Solo = solo
  Engine = main_engine
  MaxRecovery = 1
  MaxSends = 2
SPECIFICATION Spec
CHECK_DEADLOCK FALSE
INVARIANTS
  OkIsWritten
  StuckOnlyAfterReplan
  VerifiedIsSent
  SentOnceUnlessError
PROPERTY RunsEnd
