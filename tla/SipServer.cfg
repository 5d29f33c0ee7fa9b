\* One call while the server drains, is cancelled or returns.
CONSTANTS
  c1 = c1
  p1 = p1
  o1 = o1
  o2 = o2
  Calls = {c1}
  Pairs = {p1}
  NoPair = NoPair
  Others = {o1, o2}
SPECIFICATION Spec
INVARIANTS
  TypeOK
  GaugeCountsCalls
  DrainCutsOnlyLateCalls
PROPERTIES
  DrainCompletes
  DrainSilencesOptions
CHECK_DEADLOCK FALSE
