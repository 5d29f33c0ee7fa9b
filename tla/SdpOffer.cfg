\* Every offer of up to three of four payload types and two rtpmaps.
CONSTANTS
  PayloadTypes <- MCPayloadTypes
  MaxTypes = 3
  Rtpmaps <- MCRtpmaps
SPECIFICATION Spec
INVARIANTS
  RefusedOnlyForCause
  BestCommonFormat
CHECK_DEADLOCK FALSE
