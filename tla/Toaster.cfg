\* A fee of a quarter, small words, paths of up to three hops.
CONSTANTS
  BIP = 4
  FEE = 3
  MaxWord = 32767
  Paths <- MCPaths
  Reserves = {6, 20}
  Amounts = {2, 7}
SPECIFICATION Spec
INVARIANTS TypeOK MostThePairGives RequiredReached NetLimitKept OnlyInnerHops
CHECK_DEADLOCK FALSE
