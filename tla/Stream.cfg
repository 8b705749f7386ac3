SPECIFICATION FairSpec
CONSTANTS
  Writers = {w1, w2}
  Viewers = {v1}
  NoWriter = none
  Kinds <- StreamKinds
  Created = "task.created"
  Heard <- StreamHeard
  ShownAs <- StreamShownAs
  Transactions <- StreamTransactions
  Limit = 2
  MaxTransactions = 4
  MaxDrops = 1
INVARIANTS GapFree TimelineIsFaithful
PROPERTY StreamEnds
CHECK_DEADLOCK FALSE
