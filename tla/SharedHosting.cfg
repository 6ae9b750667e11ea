SPECIFICATION FairSpec
CONSTANTS
  Rhinos = {r1}
  Launchers = {l1}
  Hosts = {h1, h2}
  NoOne = NoOne
  Gone = Gone
  MaxRevision = 2
  MaxFailures = 1
  MaxStarts = 2
  MaxClients = 3
  MaxQueue = 1
  MaxFaults = 1
  Tools = {t1}
  Background = {b1}
  Docs = {d1}
  NoDoc = NoDoc
  MaxMoves = 1
  MaxSyncs = 1
  MaxLosses = 1
  MaxCalls = 1
INVARIANTS OneCurrentHost OneFencedLifecycle ReleasedWorkIsOver ReadinessSound
PROPERTIES LiveRhinoReattaches Settles
CHECK_DEADLOCK FALSE
