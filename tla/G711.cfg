\* Every sample of 16 bits and every byte.
CONSTANTS
  Frames <- MCFrames
  Payloads <- MCPayloads
SPECIFICATION Spec
INVARIANTS
  TypeOK
  ErrorIsRelative
PROPERTY
  TandemIsLossless
CHECK_DEADLOCK FALSE
