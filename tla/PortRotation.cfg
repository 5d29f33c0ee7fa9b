\* Every range of 4-bit ports that does not overflow.
CONSTANT
  Modulus = 16
SPECIFICATION Spec
INVARIANT
  NoPairTwice
PROPERTY
  EveryPairUsed
CHECK_DEADLOCK FALSE
