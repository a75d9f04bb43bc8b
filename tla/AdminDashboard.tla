---------------------------- MODULE AdminDashboard ----------------------------
(***************************************************************************)
(* AdminDashboardService (gateway/src/admin/): a page is put together from  *)
(* many queries, some one after the other and some at once (Promise.all),   *)
(* over two databases that requests, log writes and roster imports change   *)
(* meanwhile.  Each query is answered from the tables as they are then.     *)
(***************************************************************************)
EXTENDS Integers, FiniteSetsExt, SequencesExt

CONSTANTS Students, Requests,
          Teams,      \* the teams of the offering, in the order of their codes
          MethodOf,   \* the method of each request
          Outcomes,   \* the status codes of request_logs
          Failures,   \* those from 400 up
          MaxChanges  \* bound: changes while a page is put together

\* "all" and "none" stand for every team and for no row.
ASSUME DashboardAssumption ==
  /\ Teams \in Seq(Range(Teams)) /\ IsInjective(Teams) /\ {"all", "none"} \cap Range(Teams) = {}
  /\ IsFiniteSet(Students) /\ IsFiniteSet(Requests) /\ IsFiniteSet(Outcomes)
  /\ DOMAIN MethodOf = Requests
  /\ Failures \subseteq Outcomes /\ MaxChanges \in Nat

VARIABLES teams,     \* teams of the offering that have a row
          members,   \* team_members
          log,       \* request_logs
          page,      \* the page the instructor asked for
          ahead,     \* per task of the page: the groups of queries to come
          got,       \* per task: the answers so far
          since,     \* history: what came after the page was asked, new rows and
                     \* teams, and other changes
          backend    \* whether the backend answers its health check

tableVars == <<teams, members, log, backend>>
pageVars == <<page, ahead, got>>
vars == <<tableVars, pageVars, since>>

TeamSet == Range(Teams)
NoRow == [team |-> "none", student |-> "none", status |-> "none", due |-> "none"]
Row(t, s, status, due) == [team |-> t, student |-> s, status |-> status, due |-> due]
Tasks == {"overview", "detail", "teams", "students"}
NoAnswers == [q \in {} |-> 0]
Nothing == [new |-> 0, other |-> 0]

Init == /\ teams = {} /\ members = [t \in TeamSet |-> {}]
        /\ log = [r \in Requests |-> NoRow]
        /\ backend \in {"up", "hanging"}
        /\ page = "none"
        /\ ahead = [k \in Tasks |-> <<>>] /\ got = [k \in Tasks |-> NoAnswers]
        /\ since = Nothing
------------------------------------------------------------------------------
(* Meanwhile *)

Asked(task) == ahead[task] # <<>> \/ DOMAIN got[task] # {}
Done(task) == Asked(task) /\ ahead[task] = <<>>
PageDone == CASE page = "overview" -> Done("overview")
              [] page = "csv"      -> Done("students")
              [] page = "detail"   -> Done("teams") /\ Done("students")
              [] page = "none"     -> FALSE

Logged == {r \in Requests : log[r] # NoRow}
Count(new, other) == IF page = "none" THEN UNCHANGED since
                     ELSE /\ since.new + since.other < MaxChanges
                          /\ since' = [new |-> since.new + new, other |-> since.other + other]

\* ProvisioningService, one statement at a time.
CreateTeam(t) == /\ t \notin teams
                 /\ teams' = teams \cup {t} /\ Count(1, 0)
                 /\ UNCHANGED <<members, log, backend, pageVars>>

\* Members are added and never removed; moved in a mutation.
MembersWith_Moved(t, s) == [u \in TeamSet |-> IF u = t THEN members[u] \cup {s} ELSE members[u] \ {s}]
MembersWith(t, s) == [members EXCEPT ![t] = @ \cup {s}]

AddMember(t, s) == /\ t \in teams /\ s \notin members[t]
                   /\ members' = MembersWith(t, s)
                   /\ Count(0, 1)
                   /\ UNCHANGED <<teams, log, backend, pageVars>>

\* The first of a request's two writes is the arrival, without a status, or its
\* outcome; only members of a team have requests.
FirstWrite(r, t, s) == /\ log[r] = NoRow /\ s \in members[t]
                       /\ \/ log' = [log EXCEPT ![r] = Row(t, s, "null", "outcome")]
                          \/ \E o \in Outcomes : log' = [log EXCEPT ![r] = Row(t, s, o, "arrival")]
                       /\ Count(1, 0)
                       /\ UNCHANGED <<teams, members, backend, pageVars>>

\* The second one overwrites the status.
SecondWrite(r) == /\ log[r].due \in {"arrival", "outcome"}
                  /\ \E status \in IF log[r].due = "arrival" THEN {"null"} ELSE Outcomes :
                       log' = [log EXCEPT ![r] = Row(log[r].team, log[r].student, status, "none")]
                  /\ Count(0, 1)
                  /\ UNCHANGED <<teams, members, backend, pageVars>>
------------------------------------------------------------------------------
(* The queries *)

Q(what) == [what |-> what, team |-> "all"]
QT(what, t) == [what |-> what, team |-> t]

RowsOf(t) == {r \in Logged : t \in {"all", log[r].team}}
Failed(rows) == {r \in rows : log[r].status \in Failures}
StudentsIn(rows) == {log[r].student : r \in rows}

\* count(*); count(status_code) in a mutation.
CountAll_WithStatus(rows) == Cardinality({r \in rows : log[r].status # "null"})
CountAll(rows) == Cardinality(rows)

\* GROUP BY status_code: the rows without one are shown as "unknown"; they are
\* left out in a mutation.
ByStatus_NullDropped(rows) ==
  [status \in Outcomes |-> Cardinality({r \in rows : log[r].status = status})]
ByStatus(rows) ==
  [status \in Outcomes \cup {"null"} |-> Cardinality({r \in rows : log[r].status = status})]
ByMethod(rows) == [m \in Range(MethodOf) |-> Cardinality({r \in rows : MethodOf[r] = m})]
\* GROUP BY student_id; of the requests with a status in a mutation.
ByStudent_Answered(rows) ==
  [s \in StudentsIn(rows) |->
     [requests |-> Cardinality({r \in rows : log[r].student = s /\ log[r].status # "null"}),
      failures |-> Cardinality({r \in Failed(rows) : log[r].student = s})]]
ByStudent(rows) ==
  [s \in StudentsIn(rows) |->
     [requests |-> Cardinality({r \in rows : log[r].student = s}),
      failures |-> Cardinality({r \in Failed(rows) : log[r].student = s})]]

\* teamActivity for one team, after listByOffering.
TeamGroups(t) == <<{QT("members", t)}, {QT("total", t), QT("byMethod", t), QT("byStatus", t)}>>
\* studentActivity goes through the teams one by one.
MemberGroups(t) == <<{QT("members", t)}>>

\* The listed teams one after the other.
ListedThen(task, listed) ==
  LET Groups(t) == IF task = "teams" THEN TeamGroups(t) ELSE MemberGroups(t)
  IN FlattenSeq([i \in DOMAIN Teams |-> IF Teams[i] \in listed THEN Groups(Teams[i]) ELSE <<>>])

\* The log before the teams; the teams first in a mutation.
StudentGroups_TeamsFirst == <<{Q("list")}, {Q("byStudent")}>>
StudentGroups == <<{Q("byStudent")}, {Q("list")}>>

OverviewGroups == <<{Q("teams"), Q("students"), Q("total"), Q("failed"), Q("active")}>>

\* recent: the requests of the last day.
Answer(q, recent) ==
  LET rows == RowsOf(q.team) IN
  CASE q.what = "list"      -> teams
    [] q.what = "members"   -> members[q.team]
    [] q.what = "teams"     -> Cardinality(teams)
    [] q.what = "students"  -> Cardinality(UNION {members[t] : t \in teams})
    [] q.what = "total"     -> CountAll(rows)
    [] q.what = "failed"    -> Cardinality(Failed(rows))
    [] q.what = "active"    -> Cardinality({log[r].team : r \in rows \cap recent})
    [] q.what = "byStatus"  -> ByStatus(rows)
    [] q.what = "byMethod"  -> ByMethod(rows)
    [] q.what = "byStudent" -> ByStudent(rows)
    [] q.what = "health"    -> backend = "up"

\* checkBackend gives up after five seconds; never in a mutation.
Answerable_NoTimeout(q) == q.what = "health" => backend = "up"
Answerable(q) == TRUE
------------------------------------------------------------------------------
(* The pages *)

Ask(p, task, groups) == /\ page = "none"
                        /\ page' = p /\ since' = Nothing
                        /\ ahead' = [ahead EXCEPT ![task] = groups]
                        /\ UNCHANGED <<tableVars, got>>

Home == Ask("overview", "overview", OverviewGroups)
OfferingDetail == Ask("detail", "detail", <<{Q("health")}>>)
ExportCsv == Ask("csv", "students", StudentGroups)

\* teamActivity and studentActivity run side by side.
Activities == /\ page = "detail" /\ ahead["detail"] = <<>>
              /\ ~Asked("students") /\ ~Asked("teams")
              /\ ahead' = [ahead EXCEPT !["teams"] = <<{Q("list")}>>, !["students"] = StudentGroups]
              /\ UNCHANGED <<tableVars, page, got, since>>

\* One of the queries of the task's present group is answered; the next group
\* begins when all are.
Query(task) ==
  /\ ahead[task] # <<>>
  /\ \E q \in Head(ahead[task]), recent \in SUBSET Logged :
       LET left == Head(ahead[task]) \ {q}
           rest == IF left = {} THEN Tail(ahead[task]) ELSE <<left>> \o Tail(ahead[task]) IN
       /\ Answerable(q)
       /\ got' = [got EXCEPT ![task] = [p \in DOMAIN got[task] \cup {q} |->
                                         IF p = q THEN Answer(q, recent) ELSE got[task][p]]]
       /\ ahead' = [ahead EXCEPT ![task] =
            IF q.what = "list" THEN ListedThen(task, teams) \o rest ELSE rest]
  /\ UNCHANGED <<tableVars, page, since>>

\* Bound: changes after the page is shown are left out, nothing reads them.
Change == /\ ~PageDone
          /\ \/ \E t \in TeamSet : CreateTeam(t)
             \/ \E t \in TeamSet, s \in Students : AddMember(t, s)
             \/ \E r \in Requests : SecondWrite(r) \/ \E t \in TeamSet, s \in Students : FirstWrite(r, t, s)

Page == Home \/ OfferingDetail \/ ExportCsv \/ Activities

Next == Change \/ Page \/ \E task \in Tasks : Query(task)

\* The databases answer: a page has finitely many queries.
Spec == Init /\ [][Next]_vars /\ WF_vars(Activities \/ \E task \in Tasks : Query(task))
------------------------------------------------------------------------------
(* Properties *)

TypeOK ==
  /\ teams \subseteq TeamSet /\ members \in [TeamSet -> SUBSET Students]
  /\ \A r \in Logged : /\ log[r].team \in teams /\ log[r].student \in members[log[r].team]
                       /\ log[r].status \in Outcomes \cup {"null"}
  /\ page \in {"none", "overview", "detail", "csv"}
  /\ since \in [new : 0..MaxChanges, other : 0..MaxChanges]
  /\ DOMAIN ahead = Tasks /\ DOMAIN got = Tasks

Shown(task, q) == got[task][q]
Near(a, b) == a - b <= since.new /\ b - a <= since.new

\* The numbers of the overview are of different moments, but no further apart
\* than the rows and teams that came after the page was asked: failures exceed
\* the requests, or active teams the teams, by no more than these.
OverviewAdds ==
  Done("overview") =>
    /\ Shown("overview", Q("failed")) <= Shown("overview", Q("total")) + since.new
    /\ Shown("overview", Q("active")) <= Shown("overview", Q("teams")) + since.new
    /\ Shown("overview", Q("active")) <= Shown("overview", Q("total")) + since.new

\* The same of a team's requests, counted three times: in all, by method, and by
\* status with the requests that have none.
TeamNumbersAdd ==
  Done("teams") => \A t \in Shown("teams", Q("list")) :
    /\ Near(Shown("teams", QT("total", t)), SumFunction(Shown("teams", QT("byMethod", t))))
    /\ Near(Shown("teams", QT("total", t)), SumFunction(Shown("teams", QT("byStatus", t))))

\* The two halves of the detail page, queried side by side, count the same
\* requests but for those that came after the page was asked.
HalvesAgree ==
  Done("teams") /\ Done("students") =>
    LET listed == Shown("teams", Q("list"))
        students == Shown("students", Q("byStudent"))
    IN Near(SumFunction([t \in listed |-> Shown("teams", QT("total", t))]),
            SumFunction([s \in DOMAIN students |-> students[s].requests]))

\* The numbers of a page add up, but for what came while it was read.
PagesAdd == TypeOK /\ OverviewAdds /\ TeamNumbersAdd /\ HalvesAgree

\* teamByStudent: the last team that lists the student.
Listing(s) == {i \in DOMAIN Teams : /\ Teams[i] \in Shown("students", Q("list"))
                                   /\ s \in Shown("students", QT("members", Teams[i]))}
ShownTeam(s) == Teams[Max(Listing(s))]

\* No student with requests is shown without a team, though the teams are read
\* after his requests; and the team is one he made a request for, unless he has
\* been moved to it.
StudentsHaveTeams ==
  Done("students") => \A s \in DOMAIN Shown("students", Q("byStudent")) :
    /\ Listing(s) # {}
    /\ \/ \E r \in Logged : log[r].student = s /\ log[r].team = ShownTeam(s)
       \/ Cardinality({t \in TeamSet : s \in members[t]}) > 1

\* A page is shown in the end, even if the backend hangs.
PageShown == page # "none" ~> PageDone
==============================================================================
