SPECIFICATION Spec
CONSTANTS
  Users = {u1, u2}
  NoUser = NoUser
  Slots = {s1, s2}
  Fields = {name, price}
  Name = name
  Text = {name}
  Vals = {zero, v}
  Zero = zero
  Times = {1}
  Patterns <- VPattern
  Windows <- NoWindows
  Limits <- SomeLimits
  Offsets <- SomeOffsets
  MaxId = 2
  Ops <- AllOps
SYMMETRY Symmetric
INVARIANTS TypeOK FoundRowStands
PROPERTIES ForeignWriteNeedsReissue AckedUpdateLanded PageAgreesWithCount
