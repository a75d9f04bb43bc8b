--------------------------- MODULE ActivityReportMC ---------------------------
(***************************************************************************)
(* An instance of ActivityReport.  Hours 17 and 18 of UTC are the last and  *)
(* the first hour of a day in Dhaka; the guard runs out after two days.     *)
(***************************************************************************)
EXTENDS ActivityReport

Row(student, wall, zone) == [student |-> student, team |-> "e1", at |-> [wall |-> wall, zone |-> zone]]

MCExports == {<<Row("s1", 17, 0)>>,
              <<Row("s1", 18, 0), Row("s2", 24, 6), Row("s1", 17, 0), Row("s1", 70, 6)>>}
==============================================================================
