\* One call: does run() block until the server is shut down?
CONSTANTS
  c1 = c1
  p1 = p1
  o1 = o1
  o2 = o2
  Calls = {c1}
  Pairs = {p1}
  NoPair = NoPair
  Others = {o1, o2}
SPECIFICATION Spec
INVARIANT
  RunsUntilShutdown
CHECK_DEADLOCK FALSE
