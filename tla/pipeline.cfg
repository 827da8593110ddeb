CONSTANTS
  f1 = f1
  f2 = f2
  o1 = o1
  o2 = o2
  NoFile = NoFile
  Files = {f1, f2}
  Outputs = {o1, o2}
  OutputOf <- OwnOutputs
  Junk = {}
  Preserve = {f2}
  Unnamed = {f2}
  MaxFaults = 1
  ProbeIOErrors = FALSE
  SkipCrop = {f1, f2}
  NotifyAttempts = 2
  CleanupAttempts = 2
  Watchers = {w1}
  Partitions = FALSE
SPECIFICATION Spec
INVARIANT TypeOK
INVARIANT FilesHaveDir
INVARIANT OutputWhole
INVARIANT NoStrandedOutput
PROPERTY KeepsLedger
