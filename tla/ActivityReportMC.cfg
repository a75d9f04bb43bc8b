SPECIFICATION ReportSpec
CONSTANTS
  Ids = {"s1", "s2", "e1"}
  Exports <- MCExports
  Absent = Absent
  None = None
  MaxClock = 2
  Days = {0, 1, 2}
  Guard = 2
CHECK_DEADLOCK FALSE
INVARIANTS PageFits ReportIsTheForms ReportAdds
