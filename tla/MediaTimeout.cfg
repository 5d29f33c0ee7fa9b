\* One call: does the media timeout stop it?
CONSTANTS
  c1 = c1
  c2 = c2
  p1 = p1
  Calls = {c1}
  Pairs = {p1}
  NoPair = NoPair
SPECIFICATION Spec
PROPERTY
  MediaTimeoutStopsCall
CHECK_DEADLOCK FALSE
