SPECIFICATION AdapterSpec
CONSTANTS
  u1 = u1
  u2 = u2
  User = {u1, u2}
  Pool = pool
  Zero = zero
  MaxTx = 4
  MaxInBlock = 2
  N = 4
  End = 2
  LastBlock = 3
  PageSize = 2
  DefaultFirst = 3
  MaxRetries = 3
SYMMETRY Users
INVARIANTS
  
  EventsAreKept
  FeedIsComplete
\* The index has no more transactions, or the program has ended.
CHECK_DEADLOCK FALSE
