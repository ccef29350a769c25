SPECIFICATION Spec
CONSTANTS
  RxSize = 3
  Frames = 3
INVARIANTS
  SentWhole
