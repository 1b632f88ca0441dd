\* Every call with two-byte words, one-byte addresses and up to two bytes of data.
CONSTANTS
  Base = 2
  WordLen = 2
  AddrLen = 1
  MaxData = 2
SPECIFICATION Spec
INVARIANTS ContractAgrees NeverMisread
CHECK_DEADLOCK FALSE
