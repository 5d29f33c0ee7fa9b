\* One call: are only the ends of accepted calls counted as terminated?
CONSTANTS
  c1 = c1
  c2 = c2
  p1 = p1
  Calls = {c1}
  Pairs = {p1}
  NoPair = NoPair
SPECIFICATION Spec
INVARIANT
  TerminatedWereAccepted
CHECK_DEADLOCK FALSE
