SPECIFICATION Spec
CONSTANTS
  t1 = t1
  t2 = t2
  t3 = t3
  customers = customers
  orders = orders
  Threads <- MCThreads
  Tables <- MCTables
  Statements <- PerTable
  TTL = 1
  MaxClock = 3
  MaxVersion = 1
  None = None
INVARIANTS
  CachedIsSnapshot
