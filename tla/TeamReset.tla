------------------------------ MODULE TeamReset ------------------------------
(***************************************************************************)
(* ResetService.resetTeamDatabase (gateway/src/reset/reset.service.ts) run  *)
(* by several requests at once, over the reset_requests table, the teams'   *)
(* databases and the sessions the teaching backend holds on them.  Every    *)
(* await of the handler is a step: between two of them any other request,   *)
(* the backend, midnight or a gateway crash may act.                        *)
(***************************************************************************)
EXTENDS Integers, FiniteSets

CONSTANTS Callers,      \* requests the gateway serves at the same time
          Teams, Offerings,
          RowId,        \* identities of reset_requests rows
          TeamOffering, \* the offering a team belongs to
          ResetLimit,   \* assignment_offerings.reset_limit_per_day
          Hooked,       \* offerings whose configuration names a seeding command
          Requests,     \* the (offering, team) pairs requests arrive with
          MaxDay,       \* bound: the last day
          MaxFaults,    \* bound: control-database outages and gateway crashes
          Unknown, NoRow, Provisioned, Dropped

ASSUME SettingAssumption ==
  /\ TeamOffering \in [Teams -> Offerings]
  /\ ResetLimit \in [Offerings -> Nat]
  /\ IsFiniteSet(Callers) /\ Callers # {}
  /\ MaxDay \in Nat /\ MaxFaults \in Nat
  /\ Unknown \notin Teams \cup Offerings
  /\ NoRow \notin RowId
  /\ Provisioned \notin RowId /\ Dropped \notin RowId \cup {Provisioned}

\* A student's request carries the offering and team its credential resolved
\* to; the dashboard's form posts an offering together with one of its teams.
ASSUME RequestsAssumption ==
  /\ Requests \subseteq [offering : Offerings \cup {Unknown}, team : Teams \cup {Unknown}]
  /\ \A q \in Requests : q.offering \in Offerings /\ q.team \in Teams
                            => q.offering = TeamOffering[q.team]

VARIABLES rows,      \* the reset_requests table
          db,        \* each team's database: the row that cloned it, what it holds
          sessions,  \* teams whose database a backend pool is connected to
          pc, req, row,  \* per caller: the next await, its params, its resetRequestId
          day,       \* date_trunc('day', now())
          faults     \* faults spent so far

dbVars == <<db, sessions>>
callerVars == <<pc, req, row>>
envVars == <<day, faults>>
vars == <<rows, dbVars, callerVars, envVars>>

NoRequest == [offering |-> Unknown, team |-> Unknown]
BlankRow == [team |-> Unknown, day |-> 0, status |-> "none"]

Statuses == {"none", "running", "succeeded", "failed"}
Rebuilding == {"drop", "recreate", "clone", "seed", "succeed"}
Labels == {"idle", "offering", "count", "running?", "team", "insert", "fail"} \cup Rebuilding

Init == /\ rows = [r \in RowId |-> BlankRow]
        /\ db = [t \in Teams |-> [by |-> Provisioned, data |-> "seeded"]]
        /\ sessions = Teams
        /\ pc = [c \in Callers |-> "idle"]
        /\ req = [c \in Callers |-> NoRequest]
        /\ row = [c \in Callers |-> NoRow]
        /\ day = 0 /\ faults = 0
------------------------------------------------------------------------------
(* The queries *)

\* countResetsToday: succeeded and running rows requested since midnight.
ResetsSince(t, d) == {r \in RowId : /\ rows[r].team = t
                                    /\ rows[r].day >= d
                                    /\ rows[r].status \in {"succeeded", "running"}}

RunningRows(t) == {r \in RowId : rows[r].team = t /\ rows[r].status = "running"}

\* One reset too many before the limit bites.
AtLimit_OffByOne(c) == Cardinality(ResetsSince(req[c].team, day)) > ResetLimit[req[c].offering]
AtLimit(c) == Cardinality(ResetsSince(req[c].team, day)) >= ResetLimit[req[c].offering]

\* The partial unique index reset_requests_one_running_per_team, and the table
\* without it.
IndexAdmits_NoIndex(t) == TRUE
IndexAdmits(t) == RunningRows(t) = {}

Goto(c, label) == pc' = [pc EXCEPT ![c] = label]

\* The handler returned or threw: its request is answered and forgotten.
Answer(c) == /\ Goto(c, "idle")
             /\ req' = [req EXCEPT ![c] = NoRequest]
             /\ row' = [row EXCEPT ![c] = NoRow]

\* A query that is answered, or not: its effect may be lost, its answer too.
Outage == faults < MaxFaults /\ faults' = faults + 1
------------------------------------------------------------------------------
(* Before the row: four reads and an insert *)

Receive(c) == /\ pc[c] = "idle"
              /\ \E q \in Requests : req' = [req EXCEPT ![c] = q]
              /\ Goto(c, "offering")
              /\ UNCHANGED <<rows, dbVars, row, envVars>>

FindOffering(c) == /\ pc[c] = "offering"
                   /\ \/ req[c].offering \in Offerings /\ Goto(c, "count")
                         /\ UNCHANGED <<req, row>>
                      \/ req[c].offering = Unknown /\ Answer(c)  \* 404
                   /\ UNCHANGED <<rows, dbVars, envVars>>

CountResetsToday(c) == /\ pc[c] = "count"
                       /\ \/ ~AtLimit(c) /\ Goto(c, "running?") /\ UNCHANGED <<req, row>>
                          \/ AtLimit(c) /\ Answer(c)  \* 429
                       /\ UNCHANGED <<rows, dbVars, envVars>>

FindRunning(c) == /\ pc[c] = "running?"
                  /\ \/ RunningRows(req[c].team) = {} /\ Goto(c, "team")
                        /\ UNCHANGED <<req, row>>
                     \/ RunningRows(req[c].team) # {} /\ Answer(c)  \* 409
                  /\ UNCHANGED <<rows, dbVars, envVars>>

\* teams.findById and getBackendVersion; the backend's foreign key is not null.
FindTeam(c) == /\ pc[c] = "team"
               /\ \/ req[c].team \in Teams /\ Goto(c, "insert") /\ UNCHANGED <<req, row>>
                  \/ req[c].team = Unknown /\ Answer(c)  \* 404
               /\ UNCHANGED <<rows, dbVars, envVars>>

\* The column's default status instead of the one given.
NewRow_DefaultStatus(r, t) ==
  rows' = [rows EXCEPT ![r] = [team |-> t, day |-> day, status |-> "pending"]]
NewRow(r, t) == rows' = [rows EXCEPT ![r] = [team |-> t, day |-> day, status |-> "running"]]

InsertRunning(c) ==
  /\ pc[c] = "insert"
  /\ IndexAdmits(req[c].team)
  /\ \E r \in RowId : /\ rows[r].status = "none"
                      /\ NewRow(r, req[c].team)
                      /\ row' = [row EXCEPT ![c] = r]
  /\ Goto(c, "drop")
  /\ UNCHANGED <<dbVars, req, envVars>>

\* 23505 from the index: answered 409.  A full table (the bound RowId) is a
\* failed INSERT like any other: answered 500.
InsertRefused(c) ==
  /\ pc[c] = "insert"
  /\ ~IndexAdmits(req[c].team) \/ \A r \in RowId : rows[r].status # "none"
  /\ Answer(c)
  /\ UNCHANGED <<rows, dbVars, envVars>>

\* The control database fails a query of the first half: the handler throws.
\* The INSERT may have committed before its connection was lost.
QueryLost(c) ==
  /\ pc[c] \in {"offering", "count", "running?", "team", "insert"}
  /\ Outage
  /\ \/ UNCHANGED rows
     \/ /\ pc[c] = "insert" /\ IndexAdmits(req[c].team)
        /\ \E r \in RowId : rows[r].status = "none" /\ NewRow(r, req[c].team)
  /\ Answer(c)
  /\ UNCHANGED <<dbVars, day>>
------------------------------------------------------------------------------
(* Under the row: the rebuild *)

Gone == [by |-> Dropped, data |-> "none"]
Exists(t) == db[t].by # Dropped

\* dropDatabase, first query: pg_terminate_backend on every session.
TerminateSessions(c) == /\ pc[c] = "drop"
                        /\ sessions' = sessions \ {req[c].team}
                        /\ Goto(c, "recreate")
                        /\ UNCHANGED <<rows, db, req, row, envVars>>

\* dropDatabase, second query: refused while a session has come back.
DropDatabase(c) == /\ pc[c] = "recreate"
                   /\ \/ /\ req[c].team \notin sessions
                         /\ db' = [db EXCEPT ![req[c].team] = Gone]
                         /\ Goto(c, "clone")
                      \/ /\ req[c].team \in sessions
                         /\ Goto(c, "fail")
                         /\ UNCHANGED db
                   /\ UNCHANGED <<rows, sessions, req, row, envVars>>

\* A reset that forgets to seed what it cloned.
CreateDatabaseFromTemplate_Unseeded(c) ==
  /\ pc[c] = "clone"
  /\ ~Exists(req[c].team)
  /\ db' = [db EXCEPT ![req[c].team] = [by |-> row[c], data |-> "template"]]
  /\ Goto(c, "succeed")
  /\ UNCHANGED <<rows, sessions, req, row, envVars>>

CreateDatabaseFromTemplate(c) ==
  /\ pc[c] = "clone"
  /\ \/ /\ ~Exists(req[c].team)
        /\ db' = [db EXCEPT ![req[c].team] = [by |-> row[c], data |-> "template"]]
        /\ Goto(c, "seed")
     \/ Exists(req[c].team) /\ Goto(c, "fail") /\ UNCHANGED db
  /\ UNCHANGED <<rows, sessions, req, row, envVars>>

\* SeedHookService.run: nothing to do for an offering without a command.
RunSeedHook(c) ==
  /\ pc[c] = "seed"
  /\ \/ req[c].offering \notin Hooked /\ UNCHANGED db
     \/ /\ req[c].offering \in Hooked /\ Exists(req[c].team)
        /\ db' = [db EXCEPT ![req[c].team].data = "seeded"]
  /\ Goto(c, "succeed")
  /\ UNCHANGED <<rows, sessions, req, row, envVars>>

\* Where a failed step leads: to the catch block; a retry loop instead.
AfterThrow_Retry == "drop"
AfterThrow == "fail"

\* A rebuild step throws, whatever it had done to the database: the server
\* refuses the clone, the hook exits non-zero, the admin connection is lost.
StepThrows(c) ==
  /\ pc[c] \in {"drop", "recreate", "clone", "seed"}
  /\ \/ UNCHANGED dbVars
     \/ /\ pc[c] = "drop" /\ sessions' = sessions \ {req[c].team} /\ UNCHANGED db
     \/ /\ pc[c] = "recreate" /\ req[c].team \notin sessions
        /\ db' = [db EXCEPT ![req[c].team] = Gone] /\ UNCHANGED sessions
     \/ /\ pc[c] = "clone" /\ ~Exists(req[c].team)
        /\ db' = [db EXCEPT ![req[c].team] = [by |-> row[c], data |-> "template"]]
        /\ UNCHANGED sessions
  /\ Goto(c, AfterThrow)
  /\ UNCHANGED <<rows, req, row, envVars>>

\* An UPDATE keyed by the team instead of the row.
SetStatus_ByTeam(c, status) ==
  rows' = [r \in RowId |-> IF rows[r].team = req[c].team
                           THEN [rows[r] EXCEPT !.status = status] ELSE rows[r]]
SetStatus(c, status) == rows' = [rows EXCEPT ![row[c]].status = status]

MarkSucceeded(c) == /\ pc[c] = "succeed"
                    /\ SetStatus(c, "succeeded")
                    /\ Answer(c)
                    /\ UNCHANGED <<dbVars, envVars>>

\* The UPDATE is inside the try: when it throws, committed or not, the catch
\* block runs.
MarkSucceededLost(c) == /\ pc[c] = "succeed"
                        /\ Outage
                        /\ UNCHANGED rows \/ SetStatus(c, "succeeded")
                        /\ Goto(c, "fail")
                        /\ UNCHANGED <<dbVars, req, row, day>>

\* A catch block that only logs.
MarkFailed_LogOnly(c) == /\ pc[c] = "fail"
                         /\ Answer(c)
                         /\ UNCHANGED <<rows, dbVars, envVars>>

MarkFailed(c) == /\ pc[c] = "fail"
                 /\ SetStatus(c, "failed")
                 /\ Answer(c)
                 /\ UNCHANGED <<dbVars, envVars>>

\* The catch block's own UPDATE throws: nobody will set this status again.
MarkFailedLost(c) == /\ pc[c] = "fail"
                     /\ Outage
                     /\ UNCHANGED rows \/ SetStatus(c, "failed")
                     /\ Answer(c)
                     /\ UNCHANGED <<dbVars, day>>
------------------------------------------------------------------------------
(* The environment *)

\* The gateway process dies; the control database keeps its rows.
Crash == /\ Outage
         /\ \E c \in Callers : pc[c] # "idle"
         /\ pc' = [c \in Callers |-> "idle"]
         /\ req' = [c \in Callers |-> NoRequest]
         /\ row' = [c \in Callers |-> NoRow]
         /\ UNCHANGED <<rows, dbVars, day>>

Midnight == /\ day < MaxDay
            /\ day' = day + 1
            /\ UNCHANGED <<rows, dbVars, callerVars, faults>>

\* A request of the team reaches the backend, whose pool (re)connects.
BackendConnects(t) == /\ t \notin sessions /\ Exists(t)
                      /\ sessions' = sessions \cup {t}
                      /\ UNCHANGED <<rows, db, callerVars, envVars>>

\* The backend's registry closes an idle pool.
BackendDisconnects(t) == /\ t \in sessions
                         /\ sessions' = sessions \ {t}
                         /\ UNCHANGED <<rows, db, callerVars, envVars>>

\* Every step by which a request already received makes progress.
Serve(c) == \/ FindOffering(c) \/ CountResetsToday(c) \/ FindRunning(c) \/ FindTeam(c)
            \/ InsertRunning(c) \/ InsertRefused(c) \/ QueryLost(c)
            \/ TerminateSessions(c) \/ DropDatabase(c) \/ CreateDatabaseFromTemplate(c)
            \/ RunSeedHook(c) \/ StepThrows(c)
            \/ MarkSucceeded(c) \/ MarkSucceededLost(c) \/ MarkFailed(c) \/ MarkFailedLost(c)

Next == \/ \E c \in Callers : Receive(c) \/ Serve(c)
        \/ \E t \in Teams : BackendConnects(t) \/ BackendDisconnects(t)
        \/ Crash
        \/ Midnight

\* The seeding command is running; execFile gives it no time limit.
InHook(c) == pc[c] = "seed" /\ req[c].offering \in Hooked

\* Node's event loop and the two Postgres servers answer every query in the
\* end; the hook need not end, and nothing else is fair.
Spec == Init /\ [][Next]_vars /\ \A c \in Callers : WF_vars(~InHook(c) /\ Serve(c))
------------------------------------------------------------------------------
(* Properties *)

Databases == [by : RowId \cup {Provisioned, Dropped}, data : {"none", "template", "seeded"}]

TypeOK ==
  /\ rows \in [RowId -> [team : Teams \cup {Unknown}, day : 0..MaxDay, status : Statuses]]
  /\ db \in [Teams -> Databases]
  /\ sessions \subseteq Teams
  /\ pc \in [Callers -> Labels]
  /\ req \in [Callers -> Requests \cup {NoRequest}]
  /\ row \in [Callers -> RowId \cup {NoRow}]
  /\ day \in 0..MaxDay /\ faults \in 0..MaxFaults

\* At most one request at a time is between its INSERT and its UPDATE of the
\* status for the same team: two rebuilds never interleave their DROP, CREATE
\* and seed on one database, whatever crashed or was lost before.
OneRebuildPerTeam ==
  \A c, e \in Callers :
    pc[c] \in Rebuilding /\ pc[e] \in Rebuilding /\ req[c].team = req[e].team => c = e

\* The limit is checked three reads before the row is inserted, so a team may
\* exceed it, but on any day by no more than the number of requests served at
\* once less one.
ResetsOn(t, d) == {r \in RowId : /\ rows[r].team = t
                                 /\ rows[r].day = d
                                 /\ rows[r].status \in {"succeeded", "running"}}
DailyLimitSlack ==
  \A t \in Teams, d \in 0..MaxDay :
    Cardinality(ResetsOn(t, d)) <= ResetLimit[TeamOffering[t]] + Cardinality(Callers) - 1

\* The database a team may use: cloned, and seeded where its offering asks.
Whole(t) == Exists(t) /\ (TeamOffering[t] \in Hooked => db[t].data = "seeded")

\* A team whose database is missing or was never seeded has a row that says
\* so: a reset still running (or orphaned by a fault), or a failed one.
LossIsRecorded ==
  \A t \in Teams : ~Whole(t) => \E r \in RowId : /\ rows[r].team = t
                                                 /\ rows[r].status \in {"running", "failed"}

Held(r) == \E c \in Callers : row[c] = r

\* A running row is always in the hands of a request, unless a fault took it
\* away: only a crash or a lost UPDATE blocks a team with 409 for good.
OrphansAreFaults ==
  (\E r \in RowId : rows[r].status = "running" /\ ~Held(r)) => faults > 0

\* If hooks end, every reset that a request is working on ends with a recorded
\* outcome, or is orphaned by a fault.
HooksEnd == \A c \in Callers : WF_vars(InHook(c) /\ Serve(c))
ResetSettles ==
  HooksEnd => \A r \in RowId :
                rows[r].status = "running" ~> (rows[r].status # "running" \/ ~Held(r))

\* The service implements the ledger: rows are entries, a database is the work
\* of the row that cloned it once it is whole.
AsLedger == [r \in RowId |-> [team |-> rows[r].team, state |-> rows[r].status]]
AsContent == [t \in Teams |-> IF Whole(t) THEN db[t].by ELSE Dropped]
Ledger == INSTANCE RestoreLedger WITH
  Entries <- RowId, NoTeam <- Unknown, Broken <- Dropped,
  ledger <- AsLedger, content <- AsContent
ImplementsLedger == Ledger!Spec
==============================================================================
