CONSTANTS
  f1 = f1
  f2 = f2
  o1 = o1
  o2 = o2
  NoFile = NoFile
  Files = {f1}
  Outputs = {o1}
  OutputOf <- OneOutput
  Junk = {}
  Preserve = {}
  Unnamed = {}
  MaxFaults = 1
  ProbeIOErrors = TRUE
  SkipCrop = {}
  NotifyAttempts = 2
  CleanupAttempts = 2
  Watchers = {w1}
  Partitions = FALSE
SPECIFICATION Spec
INVARIANT NoLoss
