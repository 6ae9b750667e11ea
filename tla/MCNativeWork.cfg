SPECIFICATION Spec
CONSTANTS
  Tasks = {t1, t2}
  Roots = {t1}
  Nobody = nobody
  MaxFile = 2
  MaxSaves = 1
  MaxDocumentFaults = 1
  Exports = {e1, e2}
  Imports = {i1, i2}
  MaxContent = 2
  MaxTransferFaults = 2
  Requests = {r1, r2, r3}
  LockProcesses = {1, 2, 3}
  MaxAttempts = 2
  MaxLockCrashes = 2
  MaxLockFaults = 1
  Sharing <- MCSharing
  Filling <- MCFilling
INVARIANTS ReceiptTellsEffect ImportsWhatWasExported NoReplacement
           OneWriter RunTellsEffect QuotaKept TextIsRight
PROPERTIES OneWriterPerFile HandoffEnds
CHECK_DEADLOCK FALSE
