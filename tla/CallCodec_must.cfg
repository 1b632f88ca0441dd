\* The decoder refuses marked calls the wrong way round.
CONSTANTS
  Base = 2
  WordLen = 2
  AddrLen = 1
  MaxData = 2
SPECIFICATION Spec
INVARIANT MustMarkRespected
CHECK_DEADLOCK FALSE
