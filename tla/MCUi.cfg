SPECIFICATION Spec
CONSTANTS
  Threads = {v1, v2}
  Texts = {m1, m2}
  NoTab = NoTab
  NoKey = NoKey
  Nobody = nobody
  MaxRequests = 2
  MaxBreaks = 1
  MaxStops = 1
  a = a
  b = b
  Alone <- MCAlone
  Together <- MCTogether
INVARIANTS PatchesFit SentOnce WorkFollowsThreads
PROPERTIES TabIsServed
CHECK_DEADLOCK FALSE
