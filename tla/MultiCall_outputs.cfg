\* The outputs of eight creations that all succeed.
CONSTANTS
  Programs <- MCCreates
  Width = 8
  Depth = 1
SPECIFICATION Spec
INVARIANT OutputsAccepted
CHECK_DEADLOCK FALSE
