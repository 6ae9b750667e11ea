SPECIFICATION Spec
CONSTANTS
  Processes = {1, 2}
  Batches = {b1}
  MaxItems = 1
  EditIds = {}
  Texts = {t1}
  Quota = 9
  Reserve = 2
  MaxRevisions = 1
  MaxVersion = 3
  MaxLives = 1
  MaxCrashes = 1
  MaxFaults = 0
  MaxLeft = 0
INVARIANT DispatchedStaysUncertain
CHECK_DEADLOCK FALSE
