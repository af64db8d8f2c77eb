CONSTANTS
  ann = ann
  bob = bob
  eve = eve
  MaxConn = 3
  Cells = 3
  Names <- MCNames
  NameOf <- MCTwice
SPECIFICATION Spec
INVARIANTS ListIntact SearchExact
PROPERTY ImplementsTable
CHECK_DEADLOCK FALSE
