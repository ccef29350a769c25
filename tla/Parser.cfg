\* Headers of 2, 3 and 4 bytes; the payload of 5 fills the buffer exactly, that of
\* 14 goes round it twice.
SPECIFICATION Spec
CONSTANTS
  BufLen = 11
  LenBase = 4
  TopicLen = 1
  MaxQos = 1
  Payloads = {0, 5, 14}
  MaxFrames = 2
INVARIANTS
  CopiesFit
  HandlersSeeFrames
  OnlyRefusalCloses
PROPERTY SegmentFinishes
