SPECIFICATION FairSpec
CONSTANTS
  Missions = {1, 2, 3}
  NoMission = 0
  Goals <- BridgeGoals
  MaxRestarts = 1
  MaxReconnects = 1
  MaxRequests = 2
  MaxCrashes = 1
  MaxRedeliveries = 1
  MaxFaults = 1
  MaxTrouble = 2
INVARIANTS EndMeansSettled NoSendBeforeApproval CompleteIsEarned SendsOnceUnlessCrashed

PROPERTIES JobEnds PageSettles
CHECK_DEADLOCK FALSE
