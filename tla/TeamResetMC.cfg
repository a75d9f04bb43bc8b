SPECIFICATION Spec
CONSTANTS
  Callers = {c1, c2}
  t1 = t1
  t2 = t2
  o1 = o1
  o2 = o2
  RowId = {r1, r2, r3}
  Teams <- MCTeams
  Offerings <- MCOfferings
  TeamOffering <- MCTeamOffering
  ResetLimit <- MCResetLimit
  Hooked <- MCHooked
  Requests <- MCRequests
  MaxDay = 0
  MaxFaults = 1
  Unknown = Unknown
  NoRow = NoRow
  Provisioned = Provisioned
  Dropped = Dropped
SYMMETRY Symmetry
INVARIANTS TypeOK OneRebuildPerTeam DailyLimitSlack LossIsRecorded OrphansAreFaults
PROPERTY ImplementsLedger
