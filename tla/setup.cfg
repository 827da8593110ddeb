SPECIFICATION Spec
CONSTANTS
  Jobs <- MCJobs
  Tagless <- MCTagless
INVARIANT PictureKept
INVARIANT HeaderAccepted
INVARIANT StereoPlayable
INVARIANT OneDefault
 
