\* A PancakeMonitor and another monitor that add in any interleaving.
CONSTANTS
  Monitors = {pancake, other}
  Pancakes = {pancake}
  BaseToken = "base"
  RawTxs <- MCRawTxs
  Answers <- MCAnswers
  BaseFees <- MCBaseFees
  MaxBlockTxs = 2
  Shapes <- MCShapes
  FirstNonce = 5
SPECIFICATION Spec
INVARIANTS TypeOK CallsConserved NoncesFollowFees SurroundsLevel AllOrNothing FailuresIsolated LeadersAtomic FirstLeads
PROPERTY BlockFaithful
CHECK_DEADLOCK FALSE
