\* Three packets of four lengths; in length and clock PCMU and PCMA are as G.722.
CONSTANTS
  Timeout = 1
  SeqModulus = 1
  TimeModulus = 1000
  Increments = {160, 320, 960}
  Buffer = 1
  MaxFrames = 3
  Kinds = {"l16", "opus", "g722"}
  Payloads = {0, 159, 160, 640}
  OpusLengths = {120, 320}
  ExpectedInterval = 1
SPECIFICATION Spec
INVARIANTS
  TypeOK
  EverythingIsEchoed
  StampsFollowAudio
  LatenessAddsUp
PROPERTY
  InputEndsSession
CHECK_DEADLOCK FALSE
