\* One run under the fairness of the task, of time and of request timeouts.
CONSTANTS
  Owner = owner
  NoWallet = none
  Wallets = {owner}
  MaxBlock = 2
  MaxTxs = 2
  MaxNonce = 2
  MaxRuns = 1
SPECIFICATION FairSpec
PROPERTIES ShutdownCompletes ProcessingEnds SendsSettle
CHECK_DEADLOCK FALSE
