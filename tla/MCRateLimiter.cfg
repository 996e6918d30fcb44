SPECIFICATION Spec
CONSTANTS
  t1 = t1
  t2 = t2
  alice = alice
  bob = bob
  Threads <- MCThreads
  Principals <- MCPrincipals
  PerMinute = 2
  TickSeconds = 15
  MaxClock = 4
SYMMETRY Symmetry
INVARIANTS
  TypeOK
  WindowBound
PROPERTIES
  RefusedOnlyWhenSpent
  QuietCallerAdmitted
