SPECIFICATION FairSpec
CONSTANTS
  Tabs = {a}
  Threads = {v1, v2}
  NoTab = NoTab
  NoKey = NoKey
  MaxCursor = 0
  MaxStatus = 0
  MaxClicks = 2
  MaxLosses = 1
  MaxWire = 1
PROPERTY HistoryFollowsSelection
CHECK_DEADLOCK FALSE
