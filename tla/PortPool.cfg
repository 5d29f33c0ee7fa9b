\* Two calls compete for three pairs, two ports of which other programs use.
CONSTANTS
  a1 = a1
  a2 = a2
  Allocators = {a1, a2}
  Modulus = 16
  MinPort = 4
  MaxPort = 9
  OtherPorts = {4, 7}
  NoPort = NoPort
SPECIFICATION Spec
INVARIANTS
  TypeOK
  BothOrNeither
  FreePairIsFound
PROPERTIES
  SomeDrawSucceeds
  ImplementsQueue
CHECK_DEADLOCK FALSE
