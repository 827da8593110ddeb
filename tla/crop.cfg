SPECIFICATION Spec
CONSTANTS
  KeyframeSwitchCount = 6
  AlwaysIncludeCount = 3
  SampleInterval = 4
  StabilityThreshold = 3
  Skip = 2
  Frames <- MCFrames
  Inner = 2
  Minima <- MCMinima
  Delay = 2
  MaxPackets = 13
INVARIANT CropJustified
INVARIANT ShortVideoMeasured
PROPERTY ConvergenceEarned
