\* The highest range of the port numbers: 3-bit ports, pairs (4,5) and (6,7).
CONSTANTS
  a1 = a1
  a2 = a2
  Allocators = {a1}
  Modulus = 8
  MinPort = 4
  MaxPort = 7
  OtherPorts = {}
  NoPort = NoPort
SPECIFICATION Spec
INVARIANT
  CursorWithinConfig
CHECK_DEADLOCK FALSE
