\* Two searches over two accounts.
CONSTANTS
  Accts = {a1, a2}
  Callers = {c1, c2}
  Clients <- MCClients
  Ids = {a1, a2}
  MaxEntries = 3
  WrapPrices = {0, 2, 3}
  Plans <- MCPlans
  FirstNonces = {0}
  Nobody = Nobody
  None = None
  NoEntry = NoEntry
SPECIFICATION Spec
SYMMETRY MCSymmetry
INVARIANTS LocksHeld NoncesUnique PricesFall FrontsNumbered AllocatedSent SingleFlight
CHECK_DEADLOCK FALSE
