CONSTANTS
  f1 = f1
  f2 = f2
  o1 = o1
  o2 = o2
  NoFile = NoFile
  Files = {f1, f2}
  Outputs = {o1, o2}
  OutputOf <- OwnOutputs
  Junk = {f1, f2}
  Preserve = {f2}
  Unnamed = {}
  MaxFaults = 2
  ProbeIOErrors = FALSE
  SkipCrop = {}
  NotifyAttempts = 2
  CleanupAttempts = 2
  Watchers = {w1}
  Partitions = FALSE
SPECIFICATION FairSpec
PROPERTY EveryFileRetired
