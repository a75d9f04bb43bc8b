--------------------------- MODULE AdminDashboardMC ---------------------------
(***************************************************************************)
(* An instance of AdminDashboard: two teams, a student, two requests.       *)
(***************************************************************************)
EXTENDS AdminDashboard

CONSTANTS t1, t2, r1

MCTeams == <<t1, t2>>
MCMethodOf == [r \in Requests |-> IF r = r1 THEN "GET" ELSE "POST"]
==============================================================================
