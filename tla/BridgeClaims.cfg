SPECIFICATION FairSpec
CONSTANTS
  Missions = {1}
  NoMission = 0
  Goals <- BridgeGoals
  MaxRestarts = 0
  MaxReconnects = 0
  MaxRequests = 0
  MaxCrashes = 0
  MaxRedeliveries = 0
  MaxFaults = 0
  MaxTrouble = 0
INVARIANT CompletedEventIsEarned
PROPERTY PageAlwaysSettles
CHECK_DEADLOCK FALSE
