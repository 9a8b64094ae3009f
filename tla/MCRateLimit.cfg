SPECIFICATION Spec
CONSTANTS
  Agents = {a1}
  Slots = {s1, s2}
  Burst = 2
  Second = 2
  Idle = 5
  SweepEvery = 2
  MaxStall = 1
  MaxNow = 9
SYMMETRY Symmetric
INVARIANTS TypeOK VisitorsForgotten
PROPERTIES KeepsPromise RefusesOnlyPastPromise
