SPECIFICATION Spec
CONSTANTS
  Users = {u1, u2}
  NoUser = NoUser
  Slots = {s1, s2}
  Fields = {name, price}
  Name = name
  Text = {name}
  Vals = {zero, v}
  Zero = zero
  Times = {1}
  Patterns <- NoPatterns
  Windows <- NoWindows
  Limits = {}
  Offsets = {}
  MaxId = 2
  Ops <- WriteOps
SYMMETRY Symmetric
PROPERTIES DeletesOwnItem
