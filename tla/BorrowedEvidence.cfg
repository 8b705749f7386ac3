SPECIFICATION Spec
CONSTANTS
  Tasks <- MissionTasks
  Deps <- MissionDeps
  Agents <- MissionAgents
  Caps <- MissionCaps
  Name <- MissionName
  Needs <- MissionNeeds
  Declared <- MissionDeclared
  NeedsTool = {1, 3}
  Requiring = {3}
  Registries <- MissionRegistries
  Critic = critic
  Nobody = nobody
  MaxDelegations = 4
  MaxRevisions = 1
  MaxReassignments = 1
  MaxRepeat = 3
  MaxMessages = 20
  MaxRuns = 2
  MaxFailedSaves = 1
INVARIANT OwnEvidence
CHECK_DEADLOCK FALSE
