\* Wrapping counters, a deadline of two ticks, three frames.
CONSTANTS
  Timeout = 2
  SeqModulus = 2
  TimeModulus = 3
  Increments = {2}
  Buffer = 1
  MaxFrames = 3
SPECIFICATION Spec
INVARIANTS
  TypeOK
  StreamHasNoGap
  LastWordsAreSent
PROPERTIES
  DeadlineNeedsSilence
  ImplementsCallMedia
  SilenceEndsReceiving
  CancelEndsBothTasks
CHECK_DEADLOCK FALSE
