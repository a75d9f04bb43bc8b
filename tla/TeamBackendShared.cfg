SPECIFICATION Spec
CONSTANTS
  r1 = r1
  r2 = r2
  Requests = {r1, r2}
  Teams = {t1, t2}
  Words = {"x", "y", "v1", "left", "/", ".", ".."}
  PathsOf <- MCPathsOf
  BasePath <- MCBasePath
  TicksPerSecond = 2
  Ttl = 2
  Timeout = 1
  Skew = 1
  MaxPool = 1
  MaxTime = 2
  MaxResets = 1
  NoMessage = NoMessage
CHECK_DEADLOCK FALSE
SYMMETRY Symmetry
INVARIANT NeverAffectOtherTeams
