SPECIFICATION Spec
CONSTANTS
  Callers = {c1, c2}
  t1 = t1
  t2 = t2
  o1 = o1
  o2 = o2
  RowId = {r1, r2}
  Teams <- OneTeam
  Offerings <- OneOffering
  TeamOffering <- OneTeamOffering
  ResetLimit <- OneResetLimit
  Hooked <- OneOffering
  Requests <- OneRequests
  MaxDay = 1
  MaxFaults = 1
  Unknown = Unknown
  NoRow = NoRow
  Provisioned = Provisioned
  Dropped = Dropped
PROPERTY ResetSettles
