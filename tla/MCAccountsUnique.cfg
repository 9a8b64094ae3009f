SPECIFICATION Spec
CONSTANTS
  Names = {n1, n2}
  a = a
  b = b
  long = long
  Passwords = {a, b, long}
  Unhashable = {long}
  Digest <- MCDigest
  Slots = {s1, s2}
  MaxId = 2
SYMMETRY Symmetric
INVARIANT NamesUnique
