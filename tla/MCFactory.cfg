SPECIFICATION Spec
CONSTANTS
  a = a
  Vals = {a}
  Null = Null
  MaxId = 15
  BaseMods <- SomeBaseMods
  Given = {1, a, Null}
  Numbers = {0, 1, 2}
  InitialTables <- SomeTables
  MaxMods = 1
  Faults = TRUE
INVARIANTS TypeOK LinkedAsPlaced PlacedUnlessNewPicture
PROPERTIES CreateEnds
CHECK_DEADLOCK FALSE
