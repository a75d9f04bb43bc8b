SPECIFICATION Spec
CONSTANTS
  t1 = t1
  t2 = t2
  r1 = r1
  Students = {s1}
  Outcomes = {"500"}
  MaxChanges = 2
  Failures = {"500"}
  Requests = {r1, r2}
  Teams <- MCTeams
  MethodOf <- MCMethodOf
CHECK_DEADLOCK FALSE
INVARIANTS PagesAdd StudentsHaveTeams
PROPERTY PageShown
