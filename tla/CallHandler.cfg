\* Two calls compete for one pair: safety, liveness and refinement.
CONSTANTS
  c1 = c1
  c2 = c2
  p1 = p1
  Calls = {c1, c2}
  Pairs = {p1}
  NoPair = NoPair
SPECIFICATION Spec
INVARIANTS
  TypeOK
  SocketsOwned
  ExclusivePairs
  CallingFindsDialog
  AnsweredIsSupervised
  TerminationsCountedOnce
  CallsAccounted
PROPERTIES
  AnsweredPortKept
  TerminatedIsReleased
  EveryCallDecided
  ImplementsCallSpec
CHECK_DEADLOCK FALSE
