\* The decoder refuses inputs of the encoder.
CONSTANTS
  Base = 2
  WordLen = 2
  AddrLen = 1
  MaxData = 2
SPECIFICATION Spec
INVARIANT OwnInputsAccepted
CHECK_DEADLOCK FALSE
