SPECIFICATION Spec
CONSTANTS
  None = None
  Images <- SeparateCode
INVARIANT AreaHoldsCode
CHECK_DEADLOCK FALSE
