CONSTANTS
  Items <- AllItems
  MaxAttempts = 3
  PageSize = 1
  MaxQueue = 3
  MaxFaults = 2
  MaxChanges = 2
SPECIFICATION Spec
INVARIANT TypeOK
INVARIANT SuccessIsImport
INVARIANT PendingDownloadFound
PROPERTY RetryIsUseful
PROPERTY KeepsLedger
CHECK_DEADLOCK FALSE
