CONSTANTS
  Items <- FolderItem
  MaxAttempts = 2
  PageSize = 1
  MaxQueue = 2
  MaxFaults = 1
  MaxChanges = 0
SPECIFICATION Spec
INVARIANT NothingLost
CHECK_DEADLOCK FALSE
