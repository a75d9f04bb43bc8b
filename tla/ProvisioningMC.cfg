SPECIFICATION Spec
CONSTANTS
  s1 = s1
  s2 = s2
  A = A
  B = B
  n1 = n1
  n2 = n2
  n3 = n3
  n4 = n4
  dA = dA
  d1 = d1
  d2 = d2
  d3 = d3
  d4 = d4
  Imports = {i1, i2, i3}
  Students = {s1, s2}
  Registered = {s1}
  Codes = {A, B, n1, n2, n3, n4}
  Databases = {dA, d1, d2, d3, d4}
  Keys = {k1, k2, k3, k4, k5, k6}
  Rosters <- MCRosters
  TeamSize = 1
  AutoCode <- MCAutoCode
  DbOf <- MCDbOf
  NoCode = NoCode
  NoKey = NoKey
  MaxFaults = 1
CHECK_DEADLOCK FALSE
SYMMETRY Symmetry
INVARIANTS TablesFit FinishedIsComplete UnseededIsExplained WorkingKeyIsKnown
