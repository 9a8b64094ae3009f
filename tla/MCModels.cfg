SPECIFICATION Spec
CONSTANTS
  a = a
  Vals = {a}
  Null = Null
  MaxId = 3
  InitialTables <- SmallTables
  InsertSetters <- SomeInserts
  UpdateSetters <- SomeUpdates
  MaxObjects = 5
  MaxCalls = 3
VIEW Seen
INVARIANTS TypeOK
PROPERTIES OnlyNamedRows AckedLinksStored SliceRenewed LoadedAsStored
CHECK_DEADLOCK FALSE
