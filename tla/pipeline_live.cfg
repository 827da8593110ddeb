CONSTANTS
  f1 = f1
  f2 = f2
  o1 = o1
  o2 = o2
  NoFile = NoFile
  Files = {f1}
  Outputs = {o1}
  OutputOf <- OneOutput
  Junk = {}
  Preserve = {}
  Unnamed = {}
  MaxFaults = 3
  ProbeIOErrors = FALSE
  SkipCrop = {}
  NotifyAttempts = 2
  CleanupAttempts = 2
  Watchers = {w1, w2}
  Partitions = TRUE
SPECIFICATION FairSpec
INVARIANT NoLoss
PROPERTY RunsEnd
PROPERTY EveryFileRetired
