SPECIFICATION Spec
CONSTANTS
  p1 = p1  p2 = p2
  i1 = i1  i2 = i2
  Attempts = {p1, p2}
  IPs = {i1, i2}
  Names = {n1}
  Window = 1
  IPLimit = 2
  IPBlock = 1
  NameLimit = 2
  NameBlock = 3
  Keep = 2
  NoOne = NoOne
  MaxFaults = 1
  MaxTime = 3
  MaxRows = 2
VIEW View
SYMMETRY Symmetry
INVARIANTS LimitsHold BlockStandsUnlessRaced
