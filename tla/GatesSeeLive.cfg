SPECIFICATION Spec
CONSTANTS
  c = c
  o = o
  u = u
  x = x
  y = y
  a = a
  b = b
  bare = bare
  none = none
  Unqualified = bare
  InitialSchema <- MCInitialSchema
  Migrations <- MCMigrations
  Policies <- MCPolicies
  Statements <- MCStatements
PROPERTIES
  GatesSeeLive
CHECK_DEADLOCK FALSE
