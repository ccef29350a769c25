SPECIFICATION FairSpec
CONSTANTS
  RxSize = 3
  Frames = 3
INVARIANTS
  BankSelected PointersAgree
PROPERTIES
  FramesInOrder FramesTaken CommandObeyed
