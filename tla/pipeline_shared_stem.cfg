CONSTANTS
  f1 = f1
  f2 = f2
  o1 = o1
  o2 = o2
  NoFile = NoFile
  Files = {f1, f2}
  Outputs = {o1}
  OutputOf <- SharedOutput
  Junk = {}
  Preserve = {}
  Unnamed = {}
  MaxFaults = 0
  ProbeIOErrors = FALSE
  SkipCrop = {}
  NotifyAttempts = 2
  CleanupAttempts = 2
  Watchers = {w1}
  Partitions = FALSE
SPECIFICATION Spec
INVARIANT ReusesOwnOutput
