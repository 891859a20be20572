SPECIFICATION Spec
CONSTANTS
  Homes = {0, 3, 7}
  Twins = {1, 2}
  Key <- MCKey
  Hash <- MCHash
  Index = {0, 1, 2, 3}
  InitLen = 1
  Blank = Blank
INVARIANTS
  ProbeChains
  FreeSlotLeft
PROPERTY
  Refines
