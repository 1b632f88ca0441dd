\* The program is killed or stopped, and started a second time, with every
\* configuration of the wallet.
CONSTANTS
  Owner = owner
  NoWallet = none
  Wallets = {owner, none, stranger}
  MaxBlock = 3
  MaxTxs = 2
  MaxNonce = 6
  MaxRuns = 2
SPECIFICATION Spec
INVARIANTS IInv NonceUnique BatchAfterMined NoStaleWork DrainedAtExit CleanRestart
PROPERTY LedgerSpec
CHECK_DEADLOCK FALSE
