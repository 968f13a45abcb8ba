SPECIFICATION FairSpec
CONSTANTS
  Chain = {c1, c2}
  Addr = {a1, a2, a3}
  Ptr = {x1, x2}
  Route <- AllRoutes
  MaxCalls = 2
  Empty = Empty
  Freed = Freed
  Null = Null
CHECK_DEADLOCK FALSE
INVARIANTS
  TypeOK
  OneOwner
  VectorsComplete
PROPERTIES
  ImplementsStoreOwner
  CallsSettle
  ExitFreesAll
