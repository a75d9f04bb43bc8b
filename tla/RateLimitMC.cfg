SPECIFICATION Spec
CONSTANTS
  Requests = {r1, r2, r3}
  a = a
  b = b
  t1 = t1
  o1 = o1
  Memberships <- MCMemberships
  PerStudent <- MCPerStudent
  PerTeam <- MCPerTeam
  MaximumTeamSize <- MCMaximumTeamSize
  DefaultRateLimit = 1
  Unset = Unset
  Nobody = Nobody
  MaxWindow = 2
  MaxLag = 1
  MaxFaults = 1
CHECK_DEADLOCK FALSE
SYMMETRY Symmetry
INVARIANTS Ceiling RefusedOnlyWhenFull NoImmortalCounter
