SPECIFICATION Spec
CONSTANTS
  NoPts = NoPts
  None = None
  aac = aac
  pgs = pgs
  h265 = h265
  ac3 = ac3
  art = art
  ass = ass
  Copies = {aac, pgs}
  AdtsCopies = {aac}
  Subtitles = {ass}
  Videos = {h265}
  Dropped = {art}
  Downmix = ac3
  DownmixSource = aac
  TimeBase <- MCTimeBase
  OutTimeBase <- MCOutTimeBase
  StartTime = 6
  PacketPts <- MCPts
  PacketDts <- MCDts
  EncoderDts <- MCEncoderDts
  SourceSamples = 2
  FrameSize = 3
  MaxPackets = 3
  BufferCap = 1
INVARIANT TypeOK
INVARIANT SuccessIsWhole
INVARIANT DownmixIsWhole
INVARIANT CopiesInSync
PROPERTY DtsIncreasing
