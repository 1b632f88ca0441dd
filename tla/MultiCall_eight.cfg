\* The answer of eight calls that all succeed.
CONSTANTS
  Programs <- MCEight
  Width = 8
  Depth = 1
SPECIFICATION Spec
INVARIANT MustNeverFails
CHECK_DEADLOCK FALSE
