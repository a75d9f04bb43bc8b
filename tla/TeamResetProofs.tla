--------------------------- MODULE TeamResetProofs ---------------------------
(***************************************************************************)
(* Proofs about TeamReset, for any sets of callers, teams, offerings and     *)
(* rows: its type; rebuilds of a team never overlap (OwnInv); a running row  *)
(* without a request is the trace of a fault, and losses are recorded        *)
(* (WorkInv); the daily limit is exceeded by less than the requests served   *)
(* at once (SlackInv); and the table and the databases keep RestoreLedger.   *)
(***************************************************************************)
EXTENDS TeamReset, FiniteSetTheorems, TLAPS

\* A caller past its INSERT owns a row of its team: still running, unless the
\* UPDATE to succeeded was committed and its answer lost.
Owning == Rebuilding \cup {"fail"}
OwnsRow(c) ==
  /\ row[c] \in RowId /\ req[c].team \in Teams
  /\ rows[row[c]].team = req[c].team
  /\ rows[row[c]].status = "running" \/ (pc[c] = "fail" /\ rows[row[c]].status = "succeeded")

OwnersHoldRows == \A c \in Callers : IF pc[c] \in Owning THEN OwnsRow(c) ELSE row[c] = NoRow
InsertersKnowTeam == \A c \in Callers : pc[c] = "insert" => req[c].team \in Teams
OwnersDiffer == \A c, e \in Callers :
                  pc[c] \in Owning /\ pc[e] \in Owning /\ row[c] = row[e] => c = e
OneRunningRow == \A r, s \in RowId :
                   /\ rows[r].status = "running" /\ rows[s].status = "running"
                   /\ rows[r].team = rows[s].team
                   => r = s

OwnInv == /\ OwnersHoldRows
          /\ InsertersKnowTeam
          /\ OwnersDiffer
          /\ OneRunningRow

\* Every step keeps the variables in their types.
LEMMA TypeStep == TypeOK /\ OwnersHoldRows /\ [Next]_vars => TypeOK'
<1> SUFFICES ASSUME TypeOK, OwnersHoldRows, [Next]_vars PROVE TypeOK'
  OBVIOUS
<1> USE SettingAssumption, RequestsAssumption DEF TypeOK, Statuses, Labels, Rebuilding, NoRequest, Goto, Answer, Outage, vars, dbVars,
        callerVars, envVars
<1>1. ASSUME NEW c \in Callers, Receive(c) PROVE TypeOK'
  BY <1>1 DEF Receive
<1>2. ASSUME NEW c \in Callers, FindOffering(c) PROVE TypeOK'
  BY <1>2 DEF FindOffering
<1>3. ASSUME NEW c \in Callers, CountResetsToday(c) PROVE TypeOK'
  BY <1>3 DEF CountResetsToday
<1>4. ASSUME NEW c \in Callers, FindRunning(c) PROVE TypeOK'
  BY <1>4 DEF FindRunning
<1>5. ASSUME NEW c \in Callers, FindTeam(c) PROVE TypeOK'
  BY <1>5 DEF FindTeam
<1>6. ASSUME NEW c \in Callers, InsertRunning(c) PROVE TypeOK'
  BY <1>6 DEF InsertRunning, NewRow
<1>7. ASSUME NEW c \in Callers, InsertRefused(c) PROVE TypeOK'
  BY <1>7 DEF InsertRefused
<1>8. ASSUME NEW c \in Callers, QueryLost(c) PROVE TypeOK'
  BY <1>8 DEF QueryLost, NewRow
<1>9. ASSUME NEW c \in Callers, TerminateSessions(c) PROVE TypeOK'
  BY <1>9 DEF TerminateSessions
<1>10. ASSUME NEW c \in Callers, DropDatabase(c) PROVE TypeOK'
  <2>1. db' \in [Teams -> Databases]
    BY <1>10 DEF DropDatabase, Gone, Databases
  <2> QED
    BY <1>10, <2>1 DEF DropDatabase
<1>11. ASSUME NEW c \in Callers, CreateDatabaseFromTemplate(c) PROVE TypeOK'
  <2>1. row[c] \in RowId
    BY <1>11 DEF CreateDatabaseFromTemplate, OwnersHoldRows, OwnsRow, Owning
  <2>2. db' \in [Teams -> Databases]
    BY <1>11, <2>1 DEF CreateDatabaseFromTemplate, Databases
  <2> QED
    BY <1>11, <2>2 DEF CreateDatabaseFromTemplate
<1>12. ASSUME NEW c \in Callers, RunSeedHook(c) PROVE TypeOK'
  <2>1. db' \in [Teams -> Databases]
    BY <1>12 DEF RunSeedHook, Databases
  <2> QED
    BY <1>12, <2>1 DEF RunSeedHook
<1>13. ASSUME NEW c \in Callers, StepThrows(c) PROVE TypeOK'
  <2>1. db' \in [Teams -> Databases]
    BY <1>13 DEF StepThrows, Gone, OwnersHoldRows, OwnsRow, Owning, Rebuilding, Databases
  <2> QED
    BY <1>13, <2>1 DEF StepThrows, AfterThrow
<1>14. ASSUME NEW c \in Callers, MarkSucceeded(c) PROVE TypeOK'
  BY <1>14 DEF MarkSucceeded, SetStatus
<1>15. ASSUME NEW c \in Callers, MarkSucceededLost(c) PROVE TypeOK'
  BY <1>15 DEF MarkSucceededLost, SetStatus
<1>16. ASSUME NEW c \in Callers, MarkFailed(c) PROVE TypeOK'
  BY <1>16 DEF MarkFailed, SetStatus
<1>17. ASSUME NEW c \in Callers, MarkFailedLost(c) PROVE TypeOK'
  BY <1>17 DEF MarkFailedLost, SetStatus
<1>18. CASE Crash
  BY <1>18 DEF Crash
<1>19. CASE Midnight
  BY <1>19 DEF Midnight
<1>20. ASSUME NEW t \in Teams, BackendConnects(t) \/ BackendDisconnects(t) PROVE TypeOK'
  BY <1>20 DEF BackendConnects, BackendDisconnects
<1>21. CASE UNCHANGED vars
  BY <1>21
<1> QED
  BY <1>1, <1>2, <1>3, <1>4, <1>5, <1>6, <1>7, <1>8, <1>9, <1>10, <1>11, <1>12, <1>13, <1>14,
     <1>15, <1>16, <1>17, <1>18, <1>19, <1>20, <1>21 DEF Next, Serve

\* Ownership survives every step: a row is taken only while the index finds no
\* other running row of the team, and given up with the request that took it.
LEMMA OwnStep == TypeOK /\ OwnInv /\ [Next]_vars => OwnInv'
<1> SUFFICES ASSUME TypeOK, OwnInv, [Next]_vars PROVE OwnInv'
  OBVIOUS
<1> USE SettingAssumption, RequestsAssumption DEF TypeOK, OwnInv, OwnersHoldRows, OwnsRow,
        InsertersKnowTeam, OwnersDiffer, OneRunningRow, Owning, Rebuilding, Labels, Statuses,
        NoRequest, Goto, Answer, vars, dbVars, callerVars, envVars
<1>1. ASSUME NEW c \in Callers, Receive(c) PROVE OwnInv'
  BY <1>1 DEF Receive
<1>2. ASSUME NEW c \in Callers, FindOffering(c) PROVE OwnInv'
  BY <1>2 DEF FindOffering
<1>3. ASSUME NEW c \in Callers, CountResetsToday(c) PROVE OwnInv'
  BY <1>3 DEF CountResetsToday
<1>4. ASSUME NEW c \in Callers, FindRunning(c) PROVE OwnInv'
  BY <1>4 DEF FindRunning
<1>5. ASSUME NEW c \in Callers, FindTeam(c) PROVE OwnInv'
  BY <1>5 DEF FindTeam
<1>6. ASSUME NEW c \in Callers, InsertRunning(c) PROVE OwnInv'
  BY <1>6 DEF InsertRunning, NewRow, IndexAdmits, RunningRows
<1>7. ASSUME NEW c \in Callers, InsertRefused(c) PROVE OwnInv'
  BY <1>7 DEF InsertRefused
<1>8. ASSUME NEW c \in Callers, QueryLost(c) PROVE OwnInv'
  <2>1. CASE UNCHANGED rows
    BY <1>8, <2>1 DEF QueryLost
  <2>2. ASSUME pc[c] = "insert", IndexAdmits(req[c].team), NEW r \in RowId,
               rows[r].status = "none", NewRow(r, req[c].team)
        PROVE  OwnInv'
    <3>1. \A e \in Callers : row[e] # r
      BY <2>2
    <3>2. req[c].team \in Teams
      BY <2>2
    <3>3. /\ rows'[r] = [team |-> req[c].team, day |-> day, status |-> "running"]
          /\ \A s \in RowId : s # r => rows'[s] = rows[s]
      BY <2>2 DEF NewRow
    <3>4. OneRunningRow'
      BY <2>2, <3>3 DEF IndexAdmits, RunningRows
    <3> QED
      BY <1>8, <3>1, <3>2, <3>3, <3>4 DEF QueryLost
  <2> QED
    BY <1>8, <2>1, <2>2 DEF QueryLost
<1>9. ASSUME NEW c \in Callers, TerminateSessions(c) PROVE OwnInv'
  BY <1>9 DEF TerminateSessions
<1>10. ASSUME NEW c \in Callers, DropDatabase(c) PROVE OwnInv'
  BY <1>10 DEF DropDatabase
<1>11. ASSUME NEW c \in Callers, CreateDatabaseFromTemplate(c) PROVE OwnInv'
  BY <1>11 DEF CreateDatabaseFromTemplate
<1>12. ASSUME NEW c \in Callers, RunSeedHook(c) PROVE OwnInv'
  BY <1>12 DEF RunSeedHook
<1>13. ASSUME NEW c \in Callers, StepThrows(c) PROVE OwnInv'
  BY <1>13 DEF StepThrows, AfterThrow
<1>14. ASSUME NEW c \in Callers, MarkSucceeded(c) PROVE OwnInv'
  BY <1>14 DEF MarkSucceeded, SetStatus
<1>15. ASSUME NEW c \in Callers, MarkSucceededLost(c) PROVE OwnInv'
  BY <1>15 DEF MarkSucceededLost, SetStatus, Outage
<1>16. ASSUME NEW c \in Callers, MarkFailed(c) PROVE OwnInv'
  BY <1>16 DEF MarkFailed, SetStatus
<1>17. ASSUME NEW c \in Callers, MarkFailedLost(c) PROVE OwnInv'
  BY <1>17 DEF MarkFailedLost, SetStatus, Outage
<1>18. CASE Crash
  BY <1>18 DEF Crash
<1>19. CASE Midnight
  BY <1>19 DEF Midnight
<1>20. ASSUME NEW t \in Teams, BackendConnects(t) \/ BackendDisconnects(t) PROVE OwnInv'
  BY <1>20 DEF BackendConnects, BackendDisconnects
<1>21. CASE UNCHANGED vars
  BY <1>21
<1> QED
  BY <1>1, <1>2, <1>3, <1>4, <1>5, <1>6, <1>7, <1>8, <1>9, <1>10, <1>11, <1>12, <1>13, <1>14,
     <1>15, <1>16, <1>17, <1>18, <1>19, <1>20, <1>21 DEF Next, Serve

\* Init has the types and no request.
LEMMA InitInv == Init => TypeOK /\ OwnInv
  BY SettingAssumption
  DEF Init, TypeOK, Databases, Statuses, Labels, NoRequest, BlankRow, OwnInv, OwnersHoldRows,
      InsertersKnowTeam, OwnersDiffer, OneRunningRow, Owning, Rebuilding

\* Both invariants hold throughout.
LEMMA Invariance == Spec => [](TypeOK /\ OwnInv)
<1>1. TypeOK /\ OwnInv /\ [Next]_vars => TypeOK' /\ OwnInv'
  BY TypeStep, OwnStep DEF OwnInv
<1> QED
  BY InitInv, <1>1, PTL DEF Spec

\* The variables stay in their types: in particular the rebuild never clones a
\* database in the name of a row that was not inserted.
THEOREM TypeCorrect == Spec => []TypeOK
  BY Invariance, PTL

\* Two requests never rebuild one team's database at the same time, however
\* many are served at once and whatever is lost or crashes: each owns a running
\* row of the team, and the partial unique index leaves room for one.
THEOREM RebuildsExclude == Spec => []OneRebuildPerTeam
<1>1. TypeOK /\ OwnInv => OneRebuildPerTeam
  BY DEF OwnInv, OwnersHoldRows, OwnsRow, OwnersDiffer, OneRunningRow, OneRebuildPerTeam,
         Owning, Rebuilding
<1> QED
  BY Invariance, <1>1, PTL
------------------------------------------------------------------------------
(* What a rebuild has done so far *)

\* A request past its first query has an offering that exists.
KnownOffering == \A c \in Callers : pc[c] \notin {"idle", "offering"} => req[c].offering \in Offerings

\* Between the clone and the last UPDATE a team's database is the work of the
\* request's own row, and complete before the UPDATE.
WorkIsOwn == \A c \in Callers :
               /\ pc[c] \in {"seed", "succeed"} => db[req[c].team].by = row[c]
               /\ pc[c] = "succeed" => Whole(req[c].team)

WorkInv == KnownOffering /\ WorkIsOwn

\* What a step may do to the tables and databases, and at which point of whose
\* request.
Enters(c, r) == /\ pc[c] = "insert" /\ IndexAdmits(req[c].team) /\ rows[r].status = "none"
                /\ NewRow(r, req[c].team) /\ UNCHANGED db
Removes(c) == /\ pc[c] = "recreate" /\ UNCHANGED rows
              /\ db' = [db EXCEPT ![req[c].team] = Gone]
Clones(c) == /\ pc[c] = "clone" /\ UNCHANGED rows
             /\ db' = [db EXCEPT ![req[c].team] = [by |-> row[c], data |-> "template"]]
SeedsIt(c) == /\ pc[c] = "seed" /\ req[c].offering \in Hooked /\ UNCHANGED rows
              /\ db' = [db EXCEPT ![req[c].team].data = "seeded"]
Closes(c, label, status) == pc[c] = label /\ SetStatus(c, status) /\ UNCHANGED db

\* There is no step but these that changes a row or a database.
LEMMA Effects ==
  ASSUME [Next]_vars
  PROVE  \/ UNCHANGED <<rows, db>>
         \/ \E c \in Callers, r \in RowId : Enters(c, r)
         \/ \E c \in Callers : \/ Removes(c) \/ Clones(c) \/ SeedsIt(c)
                               \/ Closes(c, "succeed", "succeeded") \/ Closes(c, "fail", "failed")
<1> USE DEF Enters, Removes, Clones, SeedsIt, Closes, vars, dbVars, callerVars
<1>1. ASSUME NEW c \in Callers, Receive(c) PROVE UNCHANGED <<rows, db>>
  BY <1>1 DEF Receive
<1>2. ASSUME NEW c \in Callers, Serve(c) PROVE
         \/ UNCHANGED <<rows, db>>
         \/ \E r \in RowId : Enters(c, r)
         \/ Removes(c) \/ Clones(c) \/ SeedsIt(c)
         \/ Closes(c, "succeed", "succeeded") \/ Closes(c, "fail", "failed")
  <2>1. CASE FindOffering(c) \/ CountResetsToday(c) \/ FindRunning(c) \/ FindTeam(c) \/ InsertRefused(c)
    BY <2>1 DEF FindOffering, CountResetsToday, FindRunning, FindTeam, InsertRefused
  <2>2. CASE InsertRunning(c) \/ QueryLost(c)
    BY <2>2 DEF InsertRunning, QueryLost
  <2>3. CASE TerminateSessions(c) \/ DropDatabase(c) \/ CreateDatabaseFromTemplate(c)
    BY <2>3 DEF TerminateSessions, DropDatabase, CreateDatabaseFromTemplate
  <2>4. CASE RunSeedHook(c) \/ StepThrows(c)
    BY <2>4 DEF RunSeedHook, StepThrows
  <2>5. CASE MarkSucceeded(c) \/ MarkSucceededLost(c) \/ MarkFailed(c) \/ MarkFailedLost(c)
    BY <2>5 DEF MarkSucceeded, MarkSucceededLost, MarkFailed, MarkFailedLost
  <2> QED
    BY <1>2, <2>1, <2>2, <2>3, <2>4, <2>5 DEF Serve
<1>3. ASSUME NEW t \in Teams, BackendConnects(t) \/ BackendDisconnects(t) PROVE UNCHANGED <<rows, db>>
  BY <1>3 DEF BackendConnects, BackendDisconnects
<1>4. CASE Crash \/ Midnight \/ UNCHANGED vars
  BY <1>4 DEF Crash, Midnight
<1> QED
  BY <1>1, <1>2, <1>3, <1>4 DEF Next

\* Whoever changes a row or a database owns a row of the team.
LEMMA OwnersWork ==
  ASSUME TypeOK, OwnInv, NEW c \in Callers, pc[c] \in Owning
  PROVE  /\ row[c] \in RowId /\ req[c].team \in Teams
         /\ rows[row[c]].team = req[c].team
         /\ pc[c] # "fail" => rows[row[c]].status = "running"
         /\ rows[row[c]].status \in {"running", "succeeded"}
         /\ \A e \in Callers : /\ pc[e] \in Rebuilding /\ pc[c] \in Rebuilding
                               /\ req[e].team = req[c].team
                               => e = c
  BY DEF OwnInv, OwnersHoldRows, OwnsRow, OwnersDiffer, OneRunningRow, Owning, Rebuilding

\* A running rebuild knows its team's offering.
LEMMA OwnOffering ==
  ASSUME TypeOK, OwnInv, WorkInv, NEW c \in Callers, pc[c] \in Owning
  PROVE  req[c].offering = TeamOffering[req[c].team]
<1>1. req[c] \in Requests /\ req[c].offering \in Offerings /\ req[c].team \in Teams
  BY OwnersWork, SettingAssumption DEF TypeOK, WorkInv, KnownOffering, Owning, Rebuilding, NoRequest
<1> QED
  BY <1>1, RequestsAssumption

\* The work in a database is undone by nobody while its rebuild goes on.
LEMMA WorkStep == TypeOK /\ OwnInv /\ WorkInv /\ [Next]_vars => WorkInv'
<1> SUFFICES ASSUME TypeOK, OwnInv, WorkInv, [Next]_vars PROVE WorkInv'
  OBVIOUS
<1> USE DEF WorkInv, KnownOffering, WorkIsOwn, Whole, Exists
<1>1. ASSUME NEW e \in Callers, pc[e] \in {"seed", "succeed"}
      PROVE  /\ pc[e] \in Owning /\ pc[e] \in Rebuilding
             /\ row[e] \in RowId /\ row[e] # Dropped
             /\ req[e].team \in Teams /\ req[e].offering = TeamOffering[req[e].team]
  BY <1>1, OwnersWork, OwnOffering, SettingAssumption DEF Owning, Rebuilding
<1>2. ASSUME NEW c \in Callers,
             Receive(c) \/ FindOffering(c) \/ CountResetsToday(c) \/ FindRunning(c)
             \/ FindTeam(c) \/ InsertRunning(c) \/ InsertRefused(c) \/ QueryLost(c)
      PROVE  WorkInv'
  <2>1. KnownOffering'
    BY <1>2, SettingAssumption
    DEF TypeOK, Goto, Answer, NoRequest, Receive, FindOffering, CountResetsToday, FindRunning,
        FindTeam, InsertRunning, InsertRefused, QueryLost
  <2>2. /\ db' = db
        /\ \A e \in Callers : pc'[e] \in {"seed", "succeed"}
              => pc[e] = pc'[e] /\ req'[e] = req[e] /\ row'[e] = row[e]
    BY <1>2
    DEF TypeOK, Goto, Answer, dbVars, Receive, FindOffering, CountResetsToday, FindRunning,
        FindTeam, InsertRunning, InsertRefused, QueryLost
  <2> QED
    BY <2>1, <2>2
<1>3. ASSUME NEW c \in Callers,
             \/ TerminateSessions(c) \/ MarkSucceeded(c) \/ MarkSucceededLost(c)
             \/ MarkFailed(c) \/ MarkFailedLost(c)
      PROVE  WorkInv'
  <2>1. KnownOffering'
    BY <1>3
    DEF TypeOK, Goto, Answer, TerminateSessions, MarkSucceeded, MarkSucceededLost,
        MarkFailed, MarkFailedLost
  <2>2. /\ db' = db
        /\ \A e \in Callers : pc'[e] \in {"seed", "succeed"}
              => pc[e] = pc'[e] /\ req'[e] = req[e] /\ row'[e] = row[e]
    BY <1>3
    DEF TypeOK, Goto, Answer, dbVars, TerminateSessions, MarkSucceeded, MarkSucceededLost,
        MarkFailed, MarkFailedLost
  <2> QED
    BY <2>1, <2>2
<1>4. ASSUME NEW c \in Callers,
             DropDatabase(c) \/ CreateDatabaseFromTemplate(c) \/ RunSeedHook(c) \/ StepThrows(c)
      PROVE  WorkInv'
  <2>1. /\ pc[c] \in Owning /\ pc[c] \in Rebuilding /\ req' = req /\ row' = row
        /\ \A e \in Callers : e # c => pc'[e] = pc[e]
        /\ \A t \in Teams : t # req[c].team => db'[t] = db[t]
    BY <1>4 DEF TypeOK, DropDatabase, CreateDatabaseFromTemplate, RunSeedHook, StepThrows,
                Goto, Owning, Rebuilding, dbVars
  <2>2. KnownOffering'
    BY <2>1, <1>4 DEF TypeOK, DropDatabase, CreateDatabaseFromTemplate, RunSeedHook, StepThrows
  <2>3. ASSUME NEW e \in Callers, e # c, pc[e] \in {"seed", "succeed"}
        PROVE  db'[req[e].team] = db[req[e].team]
    BY <2>1, <2>3, <1>1, OwnersWork
  <2>4. /\ req[c].team \in Teams /\ row[c] \in RowId /\ row[c] # Dropped
        /\ req[c].offering = TeamOffering[req[c].team]
    BY <2>1, OwnersWork, OwnOffering, SettingAssumption
  <2>5. /\ pc'[c] \in {"seed", "succeed"} => db'[req[c].team].by = row[c]
        /\ pc'[c] = "succeed" => /\ db'[req[c].team].by # Dropped
                                 /\ TeamOffering[req[c].team] \in Hooked
                                    => db'[req[c].team].data = "seeded"
    <3>1. CASE DropDatabase(c)
      BY <3>1 DEF DropDatabase, Goto, TypeOK
    <3>2. CASE CreateDatabaseFromTemplate(c)
      BY <3>2, <2>4 DEF CreateDatabaseFromTemplate, Goto, TypeOK
    <3>3. CASE RunSeedHook(c)
      <4>1. db[req[c].team].by = row[c] /\ pc[c] = "seed"
        BY <3>3 DEF RunSeedHook
      <4>2. db[req[c].team] \in Databases
        BY <2>4 DEF TypeOK
      <4> QED
        BY <3>3, <4>1, <4>2, <2>4 DEF RunSeedHook, Goto, TypeOK, Databases
    <3>4. CASE StepThrows(c)
      BY <3>4 DEF StepThrows, Goto, AfterThrow, TypeOK
    <3> QED
      BY <1>4, <3>1, <3>2, <3>3, <3>4
  <2> QED
    BY <2>1, <2>2, <2>3, <2>5
<1>5. CASE Crash
  BY <1>5 DEF Crash, dbVars
<1>6. ASSUME NEW t \in Teams, BackendConnects(t) \/ BackendDisconnects(t) PROVE WorkInv'
  BY <1>6 DEF BackendConnects, BackendDisconnects, callerVars
<1>7. CASE Midnight \/ UNCHANGED vars
  BY <1>7 DEF Midnight, vars, dbVars, callerVars
<1> QED
  BY <1>2, <1>3, <1>4, <1>5, <1>6, <1>7 DEF Next, Serve

\* A database is lost only under a running row, and the row outlives the loss.
LEMMA LossStep ==
  TypeOK /\ OwnInv /\ WorkInv /\ LossIsRecorded /\ [Next]_vars => LossIsRecorded'
<1> SUFFICES ASSUME TypeOK, OwnInv, WorkInv, LossIsRecorded, [Next]_vars PROVE LossIsRecorded'
  OBVIOUS
<1> USE DEF LossIsRecorded
<1>1. CASE UNCHANGED <<rows, db>>
  BY <1>1 DEF Whole, Exists
<1>2. ASSUME NEW c \in Callers, NEW r \in RowId, Enters(c, r) PROVE LossIsRecorded'
  <2>1. db' = db /\ \A s \in RowId : rows[s].status # "none" => rows'[s] = rows[s]
    BY <1>2 DEF Enters, NewRow, TypeOK
  <2> QED
    BY <2>1 DEF Whole, Exists
<1>3. ASSUME NEW c \in Callers, Removes(c) \/ Clones(c) \/ SeedsIt(c) PROVE LossIsRecorded'
  <2>1. pc[c] \in Owning /\ pc[c] # "fail" /\ rows' = rows
    BY <1>3 DEF Removes, Clones, SeedsIt, Owning, Rebuilding
  <2>2. row[c] \in RowId /\ rows[row[c]].team = req[c].team /\ rows[row[c]].status = "running"
    BY <2>1, OwnersWork
  <2>3. \A t \in Teams : t # req[c].team => db'[t] = db[t]
    BY <1>3 DEF Removes, Clones, SeedsIt, TypeOK
  <2> QED
    BY <2>1, <2>2, <2>3 DEF Whole, Exists
<1>4. ASSUME NEW c \in Callers, Closes(c, "succeed", "succeeded") PROVE LossIsRecorded'
  <2>1. /\ row[c] \in RowId /\ rows[row[c]].team = req[c].team /\ Whole(req[c].team)
    BY <1>4, OwnersWork DEF Closes, Owning, Rebuilding, WorkInv, WorkIsOwn
  <2>2. db' = db /\ \A s \in RowId : s # row[c] => rows'[s] = rows[s]
    BY <1>4 DEF Closes, SetStatus, TypeOK
  <2> QED
    BY <2>1, <2>2 DEF Whole, Exists
<1>5. ASSUME NEW c \in Callers, Closes(c, "fail", "failed") PROVE LossIsRecorded'
  <2>1. db' = db /\ \A s \in RowId : \/ rows'[s] = rows[s]
                                     \/ rows'[s].team = rows[s].team /\ rows'[s].status = "failed"
    BY <1>5 DEF Closes, SetStatus, TypeOK
  <2> QED
    BY <2>1 DEF Whole, Exists
<1> QED
  BY <1>1, <1>2, <1>3, <1>4, <1>5, Effects

\* A request gives up a running row only with a fault.
LEMMA OrphanStep == TypeOK /\ OwnInv /\ OrphansAreFaults /\ [Next]_vars => OrphansAreFaults'
<1> SUFFICES ASSUME TypeOK, OwnInv, OrphansAreFaults, [Next]_vars PROVE OrphansAreFaults'
  OBVIOUS
<1>1. faults' = faults \/ faults' = faults + 1
  <2> USE DEF TypeOK, Outage, envVars
  <2>1. ASSUME NEW c \in Callers, Receive(c) \/ Serve(c) PROVE faults' = faults \/ faults' = faults + 1
    BY <2>1
    DEF Serve, Receive, FindOffering, CountResetsToday, FindRunning, FindTeam, InsertRunning,
        InsertRefused, QueryLost, TerminateSessions, DropDatabase, CreateDatabaseFromTemplate,
        RunSeedHook, StepThrows, MarkSucceeded, MarkSucceededLost, MarkFailed, MarkFailedLost
  <2>2. CASE Crash \/ Midnight \/ UNCHANGED vars
    BY <2>2 DEF Crash, Midnight, vars
  <2>3. ASSUME NEW t \in Teams, BackendConnects(t) \/ BackendDisconnects(t) PROVE faults' = faults
    BY <2>3 DEF BackendConnects, BackendDisconnects
  <2> QED
    BY <2>1, <2>2, <2>3 DEF Next
<1> SUFFICES ASSUME faults' = faults,
                    NEW r \in RowId, rows'[r].status = "running", ~Held(r)'
             PROVE  rows[r].status = "running" /\ ~Held(r)
  <2>1. faults \in Nat /\ MaxFaults \in Nat
    BY SettingAssumption DEF TypeOK
  <2>2. CASE faults' = faults + 1
    BY <2>1, <2>2 DEF OrphansAreFaults
  <2>3. CASE faults' = faults
    BY <2>3 DEF OrphansAreFaults, Held
  <2> QED
    BY <1>1, <2>2, <2>3
<1> USE DEF Held
<1>2. ASSUME NEW c \in Callers, Receive(c) \/ Serve(c)
      PROVE  rows[r].status = "running" /\ ~Held(r)
  <2> USE DEF TypeOK, Goto, Answer, Outage, OwnInv, OwnersHoldRows, Owning, Rebuilding
  <2>1. CASE Receive(c) \/ FindOffering(c) \/ CountResetsToday(c) \/ FindRunning(c) \/ FindTeam(c)
             \/ InsertRefused(c)
    BY <2>1, SettingAssumption
    DEF Receive, FindOffering, CountResetsToday, FindRunning, FindTeam, InsertRefused
  <2>2. CASE InsertRunning(c)
    BY <2>2, SettingAssumption DEF InsertRunning, NewRow
  <2>3. CASE TerminateSessions(c) \/ DropDatabase(c) \/ CreateDatabaseFromTemplate(c)
             \/ RunSeedHook(c) \/ StepThrows(c)
    BY <2>3
    DEF TerminateSessions, DropDatabase, CreateDatabaseFromTemplate, RunSeedHook, StepThrows
  <2>4. CASE MarkSucceeded(c) \/ MarkFailed(c)
    <3>1. row[c] \in RowId /\ pc[c] \in Owning
      BY <2>4, OwnersWork DEF MarkSucceeded, MarkFailed
    <3>2. r # row[c]
      BY <2>4, <3>1 DEF MarkSucceeded, MarkFailed, SetStatus
    <3> QED
      BY <2>4, <3>1, <3>2 DEF MarkSucceeded, MarkFailed, SetStatus
  <2>5. CASE QueryLost(c) \/ MarkSucceededLost(c) \/ MarkFailedLost(c)
    BY <2>5 DEF QueryLost, MarkSucceededLost, MarkFailedLost
  <2> QED
    BY <1>2, <2>1, <2>2, <2>3, <2>4, <2>5 DEF Serve
<1>3. CASE Crash
  BY <1>3 DEF Crash, Outage, TypeOK
<1>4. CASE Midnight \/ UNCHANGED vars
  BY <1>4 DEF Midnight, vars, callerVars
<1>5. ASSUME NEW t \in Teams, BackendConnects(t) \/ BackendDisconnects(t)
      PROVE  rows[r].status = "running" /\ ~Held(r)
  BY <1>5 DEF BackendConnects, BackendDisconnects, callerVars
<1> QED
  BY <1>2, <1>3, <1>4, <1>5 DEF Next

\* How the ledger sees a row and a database.
LEMMA LedgerView ==
  ASSUME TypeOK
  PROVE  /\ DOMAIN AsLedger = RowId /\ DOMAIN AsContent = Teams
         /\ \A r \in RowId : AsLedger[r] = [team |-> rows[r].team, state |-> rows[r].status]
         /\ \A t \in Teams : Ledger!OpenEntries(t) = RunningRows(t)
  BY DEF AsLedger, AsContent, Ledger!OpenEntries, RunningRows

\* Every step of the service is a step of the ledger, or none.
LEMMA LedgerStep ==
  TypeOK /\ TypeOK' /\ OwnInv /\ WorkInv /\ [Next]_vars => [Ledger!Next]_(Ledger!vars)
<1> SUFFICES ASSUME TypeOK, TypeOK', OwnInv, WorkInv, [Next]_vars
             PROVE  [Ledger!Next]_(Ledger!vars)
  OBVIOUS
<1> USE DEF Ledger!vars
<1>1. CASE UNCHANGED <<rows, db>>
  BY <1>1 DEF AsLedger, AsContent, Whole, Exists
<1>2. ASSUME NEW c \in Callers, NEW r \in RowId, Enters(c, r) PROVE Ledger!Next
  <2>1. req[c].team \in Teams /\ AsContent' = AsContent
    BY <1>2 DEF Enters, OwnInv, InsertersKnowTeam, AsContent, Whole, Exists
  <2>2. AsLedger[r].state = "none" /\ Ledger!OpenEntries(req[c].team) = {}
    BY <1>2, <2>1, LedgerView DEF Enters, IndexAdmits
  <2>3. AsLedger' = [AsLedger EXCEPT ![r] = [team |-> req[c].team, state |-> "running"]]
    BY <1>2 DEF Enters, NewRow, AsLedger, TypeOK
  <2> QED
    BY <2>1, <2>2, <2>3 DEF Ledger!Next, Ledger!Open
<1>3. ASSUME NEW c \in Callers, Removes(c) \/ Clones(c) \/ SeedsIt(c) PROVE Ledger!Next
  <2>1. pc[c] \in Owning /\ pc[c] # "fail" /\ rows' = rows
    BY <1>3 DEF Removes, Clones, SeedsIt, Owning, Rebuilding
  <2>2. /\ row[c] \in RowId /\ req[c].team \in Teams
        /\ row[c] \in RunningRows(req[c].team)
    BY <2>1, OwnersWork DEF RunningRows
  <2>3. /\ \A t \in Teams : t # req[c].team => db'[t] = db[t]
        /\ db'[req[c].team].by \in {Dropped, row[c]}
    BY <1>3, <2>2 DEF Removes, Clones, SeedsIt, TypeOK, Gone, WorkInv, WorkIsOwn, Databases
  <2>4. \E new \in {Dropped, row[c]} : AsContent' = [AsContent EXCEPT ![req[c].team] = new]
    <3>1. AsContent'[req[c].team] \in {Dropped, row[c]}
      BY <2>2, <2>3 DEF AsContent
    <3>2. \A t \in Teams : t # req[c].team => AsContent'[t] = AsContent[t]
      BY <2>3 DEF AsContent, Whole, Exists
    <3>3. AsContent' = [AsContent EXCEPT ![req[c].team] = AsContent'[req[c].team]]
      BY <3>2 DEF AsContent
    <3> QED
      BY <3>1, <3>3
  <2>5. AsLedger' = AsLedger
    BY <2>1 DEF AsLedger
  <2> QED
    BY <2>2, <2>4, <2>5, LedgerView DEF Ledger!Next, Ledger!Rebuild
<1>4. ASSUME NEW c \in Callers, Closes(c, "succeed", "succeeded") PROVE Ledger!Next
  <2>1. /\ pc[c] \in Owning /\ pc[c] # "fail" /\ Whole(req[c].team) /\ db[req[c].team].by = row[c]
    BY <1>4 DEF Closes, Owning, Rebuilding, WorkInv, WorkIsOwn
  <2>2. /\ row[c] \in RowId /\ req[c].team \in Teams
        /\ row[c] \in RunningRows(req[c].team)
    BY <2>1, OwnersWork DEF RunningRows
  <2>3. AsContent[req[c].team] = row[c] /\ AsContent' = AsContent
    BY <1>4, <2>1, <2>2 DEF Closes, AsContent, Whole, Exists
  <2>4. AsLedger' = [AsLedger EXCEPT ![row[c]].state = "succeeded"]
    BY <1>4, <2>2 DEF Closes, SetStatus, AsLedger, TypeOK
  <2> QED
    BY <2>2, <2>3, <2>4, LedgerView DEF Ledger!Next, Ledger!Succeed
<1>5. ASSUME NEW c \in Callers, Closes(c, "fail", "failed") PROVE Ledger!Next
  <2>1. /\ row[c] \in RowId /\ req[c].team \in Teams /\ rows[row[c]].team = req[c].team
        /\ rows[row[c]].status \in {"running", "succeeded"}
    BY <1>5, OwnersWork DEF Closes, Owning
  <2>2. AsContent' = AsContent
    BY <1>5 DEF Closes, AsContent, Whole, Exists
  <2>3. AsLedger' = [AsLedger EXCEPT ![row[c]].state = "failed"]
    BY <1>5, <2>1 DEF Closes, SetStatus, AsLedger, TypeOK
  <2>4. AsLedger[row[c]] = [team |-> req[c].team, state |-> rows[row[c]].status]
    BY <2>1 DEF AsLedger
  <2>5. Ledger!Fail(row[c], req[c].team)
    BY <2>1, <2>2, <2>3, <2>4 DEF Ledger!Fail
  <2> QED
    BY <2>1, <2>5 DEF Ledger!Next
<1> QED
  BY <1>1, <1>2, <1>3, <1>4, <1>5, Effects

\* A new service has an empty ledger and the databases it was provisioned with.
LEMMA LedgerInit == Init => Ledger!Init
<1> SUFFICES ASSUME Init PROVE Ledger!Init
  OBVIOUS
<1>1. \A t \in Teams : Whole(t) /\ db[t].by = Provisioned
  BY SettingAssumption DEF Init, Whole, Exists
<1>2. AsContent = [t \in Teams |-> Provisioned]
  BY <1>1 DEF AsContent
<1>3. AsLedger = [r \in RowId |-> Ledger!Blank]
  BY DEF Init, AsLedger, BlankRow, Ledger!Blank
<1> QED
  BY <1>2, <1>3 DEF Ledger!Init

\* Init has nothing running and nothing lost.
LEMMA WorkInit == Init => WorkInv /\ LossIsRecorded /\ OrphansAreFaults
  BY SettingAssumption
  DEF Init, WorkInv, KnownOffering, WorkIsOwn, LossIsRecorded, Whole, Exists, OrphansAreFaults, BlankRow

\* All invariants of this module hold throughout.
LEMMA WorkInvariance == Spec => [](TypeOK /\ OwnInv /\ WorkInv /\ LossIsRecorded /\ OrphansAreFaults)
<1>1. TypeOK /\ OwnInv /\ WorkInv /\ LossIsRecorded /\ OrphansAreFaults /\ [Next]_vars
        => TypeOK' /\ OwnInv' /\ WorkInv' /\ LossIsRecorded' /\ OrphansAreFaults'
  BY TypeStep, OwnStep, WorkStep, LossStep, OrphanStep DEF OwnInv
<1> QED
  BY InitInv, WorkInit, <1>1, PTL DEF Spec

\* A team without a usable database has a row that is running or failed, for any
\* number of requests at once and whatever steps fail or are lost: whoever drops
\* the database holds a running row, which only a whole database makes a success.
THEOREM LossesAreRecorded == Spec => []LossIsRecorded
  BY WorkInvariance, PTL

\* A running row that no request holds is the trace of a crash or a lost query.
THEOREM OrphansNeedFaults == Spec => []OrphansAreFaults
  BY WorkInvariance, PTL

\* The service implements the restore ledger: one open entry per team, rebuilds
\* under it only, and success only over the entry's own complete work.
THEOREM LedgerIsImplemented == Spec => ImplementsLedger
<1>1. TypeOK /\ OwnInv /\ WorkInv /\ [Next]_vars /\ TypeOK' => [Ledger!Next]_(Ledger!vars)
  BY LedgerStep
<1> QED
  BY LedgerInit, WorkInvariance, <1>1, PTL DEF Spec, ImplementsLedger, Ledger!Spec
------------------------------------------------------------------------------
(* The daily limit.  The argument adds to the rows a team has opened today the *)
(* requests that have passed the limit check and not yet inserted: a request  *)
(* joins the sum only while the rows are below the limit, and then turns into *)
(* one row at most.                                                          *)

Limit(t) == ResetLimit[TeamOffering[t]]
Ceiling(t) == Limit(t) + Cardinality(Callers) - 1

\* The requests for t between the limit check and the INSERT.
Passed(t) == {c \in Callers : pc[c] \in {"running?", "team", "insert"} /\ req[c].team = t}
UsedRows == {r \in RowId : rows[r].status # "none"}

NoFutureRow == \A r \in RowId : rows[r].day <= day
PassedHaveLimit == \A t \in Teams : Passed(t) # {} => Limit(t) >= 1
PastUnderCeiling == \A t \in Teams : \A d \in 0..MaxDay : Cardinality(ResetsOn(t, d)) <= Ceiling(t)
TodayUnderCeiling ==
  \A t \in Teams : Cardinality(ResetsOn(t, day)) + Cardinality(Passed(t)) <= Ceiling(t)

SlackInv == /\ IsFiniteSet(UsedRows)
            /\ KnownOffering
            /\ NoFutureRow
            /\ PassedHaveLimit
            /\ PastUnderCeiling
            /\ TodayUnderCeiling

\* The sets that are counted are finite, and bounded by the callers.
LEMMA FiniteCounts ==
  ASSUME IsFiniteSet(UsedRows)
  PROVE  /\ \A t, d : /\ IsFiniteSet(ResetsOn(t, d))
                      /\ Cardinality(ResetsOn(t, d)) \in Nat
         /\ \A t : /\ IsFiniteSet(Passed(t))
                   /\ Cardinality(Passed(t)) \in Nat
                   /\ Cardinality(Passed(t)) <= Cardinality(Callers)
<1>1. \A t, d : ResetsOn(t, d) \subseteq UsedRows
  BY DEF ResetsOn, UsedRows
<1>2. \A t : Passed(t) \subseteq Callers
  BY DEF Passed
<1>3. \A t, d : IsFiniteSet(ResetsOn(t, d))
  BY <1>1, FS_Subset
<1>4. \A t : IsFiniteSet(Passed(t)) /\ Cardinality(Passed(t)) <= Cardinality(Callers)
  BY <1>2, FS_Subset, SettingAssumption
<1> QED
  BY <1>3, <1>4, FS_CardinalityType

\* The limit, the bound with its excess and the callers are numbers.
LEMMA CeilingType == \A t \in Teams : /\ Limit(t) \in Nat
                                      /\ Ceiling(t) \in Nat
                                      /\ Cardinality(Callers) \in Nat \ {0}
<1>1. Cardinality(Callers) \in Nat /\ Cardinality(Callers) # 0
  BY SettingAssumption, FS_CardinalityType, FS_EmptySet
<1> QED
  BY <1>1, SettingAssumption DEF Limit, Ceiling

\* A step that counts no new row and lets no new request past the check cannot
\* raise either sum.
LEMMA CountsFall ==
  ASSUME TypeOK, SlackInv, day' = day, KnownOffering', NoFutureRow', UsedRows' \subseteq UsedRows,
         \A t \in Teams : \A d \in 0..MaxDay : ResetsOn(t, d)' \subseteq ResetsOn(t, d),
         \A t \in Teams : Passed(t)' \subseteq Passed(t)
  PROVE  SlackInv'
<1>1. IsFiniteSet(UsedRows)'
  BY FS_Subset DEF SlackInv
<1>2. ASSUME NEW t \in Teams, NEW d \in 0..MaxDay
      PROVE  /\ Cardinality(ResetsOn(t, d)') \in Nat
             /\ Cardinality(ResetsOn(t, d)') <= Cardinality(ResetsOn(t, d))
             /\ Cardinality(ResetsOn(t, d)) \in Nat
  <2>1. ResetsOn(t, d)' \subseteq ResetsOn(t, d)
    OBVIOUS
  <2> QED
    BY <2>1, FiniteCounts, FS_Subset, FS_CardinalityType DEF SlackInv
<1>3. ASSUME NEW t \in Teams
      PROVE  /\ Cardinality(Passed(t)') \in Nat
             /\ Cardinality(Passed(t)') <= Cardinality(Passed(t))
             /\ Cardinality(Passed(t)) \in Nat
  BY FiniteCounts, FS_Subset, FS_CardinalityType DEF SlackInv
<1>4. PassedHaveLimit'
  BY DEF SlackInv, PassedHaveLimit, Limit
<1>5. PastUnderCeiling'
  BY <1>2, CeilingType DEF SlackInv, PastUnderCeiling, Ceiling, Limit
<1>6. TodayUnderCeiling'
  BY <1>2, <1>3, CeilingType DEF SlackInv, TodayUnderCeiling, Ceiling, Limit, TypeOK
<1> QED
  BY <1>1, <1>4, <1>5, <1>6 DEF SlackInv

\* A request that passes the check finds fewer rows than the limit, so there is
\* room for it and for every other request in flight.
LEMMA CountStep ==
  ASSUME TypeOK, SlackInv, NEW c \in Callers, CountResetsToday(c)
  PROVE  SlackInv'
<1> USE DEF Goto, Answer, dbVars, envVars, TypeOK
<1>1. /\ pc[c] = "count" /\ day' = day /\ rows' = rows /\ UsedRows' = UsedRows
      /\ NoFutureRow' /\ KnownOffering'
  BY SettingAssumption
  DEF CountResetsToday, SlackInv, NoFutureRow, KnownOffering, UsedRows, NoRequest
<1>2. \A t, d : ResetsOn(t, d)' = ResetsOn(t, d)
  BY <1>1 DEF ResetsOn
<1>3. CASE AtLimit(c)
  <2>1. \A t \in Teams : Passed(t)' \subseteq Passed(t)
    BY <1>3, SettingAssumption DEF CountResetsToday, Passed, NoRequest
  <2> QED
    BY <1>1, <1>2, <2>1, CountsFall
<1>4. CASE ~AtLimit(c)
  <2>1. pc' = [pc EXCEPT ![c] = "running?"] /\ req' = req
    BY <1>4 DEF CountResetsToday
  <2>2. \A t \in Teams : t # req[c].team => Passed(t)' = Passed(t)
    BY <1>1, <2>1 DEF Passed
  <2>3. ASSUME NEW t \in Teams, t = req[c].team
        PROVE  Limit(t) >= 1 /\ Cardinality(ResetsOn(t, day)) <= Limit(t) - 1
    <3>1. req[c].offering = TeamOffering[t]
      <4>1. req[c].offering \in Offerings
        BY <1>1 DEF SlackInv, KnownOffering
      <4>2. req[c] \in Requests
        BY <2>3, SettingAssumption DEF NoRequest
      <4> QED
        BY <2>3, <4>1, <4>2, RequestsAssumption
    <3>2. ResetsSince(t, day) = ResetsOn(t, day)
      <4>1. ASSUME NEW r \in RowId PROVE rows[r].day >= day <=> rows[r].day = day
        <5>1. rows[r].day \in Int /\ rows[r].day <= day /\ day \in Int
          BY SettingAssumption DEF SlackInv, NoFutureRow
        <5> HIDE DEF TypeOK
        <5> QED
          BY <5>1
      <4> QED
        BY <4>1 DEF ResetsSince, ResetsOn
    <3>3. ~(Cardinality(ResetsOn(t, day)) >= Limit(t))
      BY <1>4, <2>3, <3>1, <3>2 DEF AtLimit, Limit
    <3>4. Cardinality(ResetsOn(t, day)) \in Nat /\ Limit(t) \in Nat
      BY FiniteCounts, CeilingType DEF SlackInv
    <3> QED
      BY <3>3, <3>4
  <2>4. PassedHaveLimit'
    BY <2>2, <2>3 DEF SlackInv, PassedHaveLimit, Limit
  <2>5. TodayUnderCeiling'
    <3> SUFFICES ASSUME NEW t \in Teams
                 PROVE  Cardinality(ResetsOn(t, day)') + Cardinality(Passed(t)') <= Ceiling(t)
      BY <1>1 DEF TodayUnderCeiling, Ceiling, Limit
    <3>1. CASE t # req[c].team
      <4>1. ResetsOn(t, day)' = ResetsOn(t, day) /\ Passed(t)' = Passed(t)
        BY <1>1, <2>2, <3>1 DEF ResetsOn
      <4> QED
        BY <4>1 DEF SlackInv, TodayUnderCeiling
    <3>2. CASE t = req[c].team
      <4>1. Passed(t)' \subseteq Callers
        BY DEF Passed
      <4>2. Cardinality(Passed(t)') <= Cardinality(Callers) /\ Cardinality(Passed(t)') \in Nat
        BY <4>1, FS_Subset, FS_CardinalityType, SettingAssumption
      <4>3. ResetsOn(t, day)' = ResetsOn(t, day)
        BY <1>1 DEF ResetsOn
      <4>4. Cardinality(ResetsOn(t, day)) <= Limit(t) - 1 /\ Cardinality(ResetsOn(t, day)) \in Nat
        BY <2>3, <3>2, FiniteCounts DEF SlackInv
      <4> QED
        BY <4>2, <4>3, <4>4, CeilingType DEF Ceiling
    <3> QED
      BY <3>1, <3>2
  <2>6. PastUnderCeiling'
    BY <1>2 DEF SlackInv, PastUnderCeiling, Ceiling, Limit
  <2> QED
    BY <1>1, <2>4, <2>5, <2>6 DEF SlackInv
<1> QED
  BY <1>3, <1>4

\* An INSERT moves its request from the second term of the sum to the first.
\* The request may be gone afterwards: its answer was lost.
LEMMA InsertStep ==
  ASSUME TypeOK, SlackInv, NEW c \in Callers, NEW r \in RowId,
         pc[c] = "insert", rows[r].status = "none", req[c].team \in Teams,
         NewRow(r, req[c].team), day' = day, KnownOffering',
         \A t \in Teams : Passed(t)' = Passed(t) \ {c}
  PROVE  SlackInv'
<1> USE DEF TypeOK
<1>1. /\ rows'[r] = [team |-> req[c].team, day |-> day, status |-> "running"]
      /\ \A s \in RowId : s # r => rows'[s] = rows[s]
  BY DEF NewRow
<1>2. NoFutureRow'
  BY <1>1, SettingAssumption DEF SlackInv, NoFutureRow
<1>3. UsedRows' = UsedRows \cup {r}
  BY <1>1 DEF UsedRows
<1>4. IsFiniteSet(UsedRows')
  BY <1>3, FS_AddElement DEF SlackInv
<1>5. PassedHaveLimit'
  BY DEF SlackInv, PassedHaveLimit, Limit
<1>6. ASSUME NEW t \in Teams, NEW d \in 0..MaxDay, t # req[c].team \/ d # day
      PROVE  ResetsOn(t, d)' = ResetsOn(t, d)
  BY <1>1, <1>6 DEF ResetsOn
<1>7. ASSUME NEW t \in Teams, t = req[c].team
      PROVE  /\ Cardinality(ResetsOn(t, day)') = Cardinality(ResetsOn(t, day)) + 1
             /\ Cardinality(Passed(t)') = Cardinality(Passed(t)) - 1
  <2>1. ResetsOn(t, day)' = ResetsOn(t, day) \cup {r} /\ r \notin ResetsOn(t, day)
    BY <1>1, <1>7 DEF ResetsOn
  <2>2. c \in Passed(t)
    BY <1>7 DEF Passed
  <2> QED
    <3>1. IsFiniteSet(ResetsOn(t, day)) /\ IsFiniteSet(Passed(t))
      BY FiniteCounts DEF SlackInv
    <3>2. Cardinality(ResetsOn(t, day) \cup {r}) = Cardinality(ResetsOn(t, day)) + 1
      BY <2>1, <3>1, FS_AddElement
    <3>3. Cardinality(Passed(t) \ {c}) = Cardinality(Passed(t)) - 1
      BY <2>2, <3>1, FS_RemoveElement
    <3>4. Passed(t)' = Passed(t) \ {c}
      OBVIOUS
    <3> QED
      BY <2>1, <3>2, <3>3, <3>4
<1>8. ASSUME NEW t \in Teams
      PROVE  Cardinality(ResetsOn(t, day)') + Cardinality(Passed(t)') <= Ceiling(t)
  <2>1. CASE t = req[c].team
    BY <1>7, <2>1, FiniteCounts DEF SlackInv, TodayUnderCeiling
  <2>2. CASE t # req[c].team
    <3>1. ResetsOn(t, day)' = ResetsOn(t, day)
      BY <1>6, <2>2
    <3>2. Passed(t)' = Passed(t)
      BY <2>2 DEF Passed
    <3> QED
      BY <3>1, <3>2 DEF SlackInv, TodayUnderCeiling
  <2> QED
    BY <2>1, <2>2
<1>9. TodayUnderCeiling'
  BY <1>8 DEF TodayUnderCeiling, Ceiling, Limit
<1>10. PastUnderCeiling'
  <2>1. \A t \in Teams : Cardinality(ResetsOn(t, day)') <= Ceiling(t)
    <3> SUFFICES ASSUME NEW t \in Teams PROVE Cardinality(ResetsOn(t, day)') <= Ceiling(t)
      OBVIOUS
    <3>0. Cardinality(ResetsOn(t, day)') + Cardinality(Passed(t)') <= Ceiling(t)
      BY <1>8
    <3>1. IsFiniteSet(ResetsOn(t, day)') /\ IsFiniteSet(Passed(t)')
      <4>1. ResetsOn(t, day)' \subseteq UsedRows' /\ Passed(t)' \subseteq Callers
        BY DEF ResetsOn, UsedRows, Passed
      <4> QED
        BY <1>4, <4>1, FS_Subset, SettingAssumption
    <3>2. Cardinality(ResetsOn(t, day)') \in Nat /\ Cardinality(Passed(t)') \in Nat
      BY <3>1, FS_CardinalityType
    <3> QED
      BY <3>0, <3>2, CeilingType
  <2>2. \A t \in Teams : \A d \in 0..MaxDay : d # day => ResetsOn(t, d)' = ResetsOn(t, d)
    BY <1>6
  <2> QED
    BY <2>1, <2>2 DEF SlackInv, PastUnderCeiling, Ceiling, Limit
<1> QED
  BY <1>2, <1>4, <1>5, <1>9, <1>10 DEF SlackInv

\* A step that leaves the table alone.
LEMMA RowsAlone ==
  ASSUME TypeOK, SlackInv, rows' = rows, day' = day, KnownOffering',
         \A t \in Teams : Passed(t)' \subseteq Passed(t)
  PROVE  SlackInv'
<1>1. UsedRows' = UsedRows /\ NoFutureRow'
  BY DEF UsedRows, SlackInv, NoFutureRow
<1>2. \A t \in Teams : \A d \in 0..MaxDay : ResetsOn(t, d)' \subseteq ResetsOn(t, d)
  BY DEF ResetsOn
<1> QED
  BY <1>1, <1>2, CountsFall

\* A step that gives the caller's own row its outcome.
LEMMA OutcomeSet ==
  ASSUME TypeOK, OwnInv, SlackInv, NEW c \in Callers, NEW s \in {"succeeded", "failed"},
         pc[c] \in Owning, SetStatus(c, s), day' = day, KnownOffering',
         \A t \in Teams : Passed(t)' \subseteq Passed(t)
  PROVE  SlackInv'
<1>1. row[c] \in RowId /\ rows[row[c]].status \in {"running", "succeeded"}
  BY DEF OwnInv, OwnersHoldRows, OwnsRow
<1>2. /\ rows'[row[c]] = [rows[row[c]] EXCEPT !.status = s]
      /\ \A r \in RowId : r # row[c] => rows'[r] = rows[r]
  BY <1>1 DEF SetStatus, TypeOK
<1>3. \A r \in RowId : rows'[r].team = rows[r].team /\ rows'[r].day = rows[r].day
  BY <1>1, <1>2 DEF TypeOK
<1>4. UsedRows' \subseteq UsedRows
  BY <1>1, <1>2 DEF UsedRows
<1>5. NoFutureRow'
  BY <1>3 DEF SlackInv, NoFutureRow
<1>6. \A t \in Teams : \A d \in 0..MaxDay : ResetsOn(t, d)' \subseteq ResetsOn(t, d)
  BY <1>1, <1>2, <1>3 DEF ResetsOn
<1> QED
  BY <1>4, <1>5, <1>6, CountsFall

\* At midnight every request in flight passed the check against yesterday's
\* rows; today has none yet.
LEMMA MidnightStep == ASSUME TypeOK, SlackInv, Midnight PROVE SlackInv'
<1>1. day' = day + 1 /\ rows' = rows /\ pc' = pc /\ req' = req /\ day \in Nat
  BY SettingAssumption DEF Midnight, callerVars, TypeOK
<1>2. NoFutureRow'
  <2>1. \A r \in RowId : rows[r].day \in Int /\ rows[r].day <= day
    BY SettingAssumption DEF SlackInv, NoFutureRow, TypeOK
  <2> QED
    BY <1>1, <2>1 DEF NoFutureRow
<1>3. \A t \in Teams : Passed(t)' = Passed(t)
  BY <1>1 DEF Passed
<1>4. \A t \in Teams : ResetsOn(t, day)' = {}
  <2>1. \A r \in RowId : rows[r].day # day + 1
    <3>1. \A r \in RowId : rows[r].day \in Int /\ rows[r].day <= day
      BY SettingAssumption DEF SlackInv, NoFutureRow, TypeOK
    <3> QED
      BY <1>1, <3>1
  <2> QED
    BY <1>1, <2>1 DEF ResetsOn
<1>5. TodayUnderCeiling'
  <2> SUFFICES ASSUME NEW t \in Teams PROVE Cardinality(Passed(t)) <= Ceiling(t)
    <3>1. Cardinality({}) = 0 /\ \A t \in Teams : Cardinality(Passed(t)) \in Nat
      BY FS_EmptySet, FiniteCounts DEF SlackInv
    <3> QED
      BY <1>3, <1>4, <3>1 DEF TodayUnderCeiling, Ceiling, Limit
  <2>1. CASE Passed(t) = {}
    BY <2>1, FS_EmptySet, CeilingType
  <2>2. CASE Passed(t) # {}
    <3>1. Limit(t) >= 1
      BY <2>2 DEF SlackInv, PassedHaveLimit
    <3>2. Cardinality(Passed(t)) \in Nat /\ Cardinality(Passed(t)) <= Cardinality(Callers)
      BY FiniteCounts DEF SlackInv
    <3> QED
      BY <3>1, <3>2, CeilingType DEF Ceiling
  <2> QED
    BY <2>1, <2>2
<1>6. PastUnderCeiling'
  BY <1>1 DEF SlackInv, PastUnderCeiling, ResetsOn, Ceiling, Limit
<1>7. UsedRows' = UsedRows /\ KnownOffering' /\ PassedHaveLimit'
  BY <1>1, <1>3 DEF UsedRows, SlackInv, KnownOffering, PassedHaveLimit, Limit
<1> QED
  BY <1>2, <1>5, <1>6, <1>7 DEF SlackInv

\* A step keeps SlackInv, action by action.
LEMMA SlackStep == TypeOK /\ OwnInv /\ SlackInv /\ [Next]_vars => SlackInv'
<1> SUFFICES ASSUME TypeOK, OwnInv, SlackInv, [Next]_vars PROVE SlackInv'
  OBVIOUS
<1>0. KnownOffering /\ (\A c \in Callers : pc[c] \in Labels /\ req[c] \in Requests \cup {NoRequest})
  BY DEF SlackInv, TypeOK
<1>1. ASSUME NEW c \in Callers,
             \/ Receive(c) \/ FindOffering(c) \/ FindRunning(c) \/ FindTeam(c)
             \/ InsertRefused(c) \/ TerminateSessions(c) \/ DropDatabase(c)
             \/ CreateDatabaseFromTemplate(c) \/ RunSeedHook(c) \/ StepThrows(c)
      PROVE  SlackInv'
  <2>1. rows' = rows /\ day' = day
    BY <1>1 DEF Receive, FindOffering, FindRunning, FindTeam, InsertRefused, TerminateSessions,
       DropDatabase, CreateDatabaseFromTemplate, RunSeedHook, StepThrows, envVars
  <2>2. /\ \A e \in Callers : e # c => pc'[e] = pc[e] /\ req'[e] = req[e]
        /\ pc'[c] \notin {"idle", "offering"} => req'[c].offering \in Offerings
        /\ pc'[c] \in {"running?", "team", "insert"}
             => pc[c] \in {"running?", "team", "insert"} /\ req'[c] = req[c]
    BY <1>0, <1>1 DEF Receive, FindOffering, FindRunning, FindTeam, InsertRefused,
       TerminateSessions, DropDatabase, CreateDatabaseFromTemplate, RunSeedHook, StepThrows,
       AfterThrow, Goto, Answer, KnownOffering, TypeOK
  <2>3. KnownOffering' /\ \A t \in Teams : Passed(t)' \subseteq Passed(t)
    BY <1>0, <2>2 DEF KnownOffering, Passed
  <2> QED
    BY <2>1, <2>3, RowsAlone
<1>2. ASSUME NEW c \in Callers, CountResetsToday(c) PROVE SlackInv'
  BY <1>2, CountStep
<1>3. ASSUME NEW c \in Callers, InsertRunning(c) PROVE SlackInv'
  <2>1. PICK r \in RowId : rows[r].status = "none" /\ NewRow(r, req[c].team)
    BY <1>3 DEF InsertRunning
  <2>2. /\ pc[c] = "insert" /\ req[c].team \in Teams /\ day' = day
        /\ pc' = [pc EXCEPT ![c] = "drop"] /\ req' = req
    BY <1>3 DEF InsertRunning, Goto, envVars, OwnInv, InsertersKnowTeam
  <2>3. KnownOffering' /\ \A t \in Teams : Passed(t)' = Passed(t) \ {c}
    BY <1>0, <2>2 DEF KnownOffering, Passed, TypeOK
  <2> QED
    BY <2>1, <2>2, <2>3, InsertStep
<1>4. ASSUME NEW c \in Callers, QueryLost(c) PROVE SlackInv'
  <2>1. /\ day' = day /\ pc' = [pc EXCEPT ![c] = "idle"] /\ req' = [req EXCEPT ![c] = NoRequest]
    BY <1>4 DEF QueryLost, Goto, Answer
  <2>2. KnownOffering' /\ \A t \in Teams : Passed(t)' = Passed(t) \ {c}
    BY <1>0, <2>1 DEF KnownOffering, Passed, TypeOK
  <2>3. CASE rows' = rows
    BY <2>1, <2>2, <2>3, RowsAlone
  <2>4. CASE rows' # rows
    <3>1. PICK r \in RowId : rows[r].status = "none" /\ NewRow(r, req[c].team)
      BY <1>4, <2>4 DEF QueryLost
    <3>2. pc[c] = "insert" /\ req[c].team \in Teams
      BY <1>4, <2>4 DEF QueryLost, OwnInv, InsertersKnowTeam
    <3> QED
      BY <2>1, <2>2, <3>1, <3>2, InsertStep
  <2> QED
    BY <2>3, <2>4
<1>5. ASSUME NEW c \in Callers,
             MarkSucceeded(c) \/ MarkSucceededLost(c) \/ MarkFailed(c) \/ MarkFailedLost(c)
      PROVE  SlackInv'
  <2>1. /\ pc[c] \in Owning /\ day' = day
        /\ rows' = rows \/ SetStatus(c, "succeeded") \/ SetStatus(c, "failed")
    BY <1>5 DEF MarkSucceeded, MarkSucceededLost, MarkFailed, MarkFailedLost, Owning, Rebuilding,
       envVars
  <2>2. /\ \A e \in Callers : e # c => pc'[e] = pc[e] /\ req'[e] = req[e]
        /\ pc'[c] \in {"idle", "fail"}
        /\ pc'[c] = "fail" => pc[c] = "succeed" /\ req' = req
    BY <1>0, <1>5 DEF MarkSucceeded, MarkSucceededLost, MarkFailed, MarkFailedLost, Goto, Answer,
       TypeOK
  <2>3. KnownOffering' /\ \A t \in Teams : Passed(t)' \subseteq Passed(t)
    BY <1>0, <2>2 DEF KnownOffering, Passed
  <2> QED
    BY <2>1, <2>3, RowsAlone, OutcomeSet
<1>6. CASE Crash
  <2>1. rows' = rows /\ day' = day /\ \A c \in Callers : pc'[c] = "idle"
    BY <1>6 DEF Crash
  <2>2. KnownOffering' /\ \A t \in Teams : Passed(t)' \subseteq Passed(t)
    BY <2>1 DEF KnownOffering, Passed
  <2> QED
    BY <2>1, <2>2, RowsAlone
<1>7. CASE Midnight
  BY <1>7, MidnightStep
<1>8. ASSUME (\E t \in Teams : BackendConnects(t) \/ BackendDisconnects(t)) \/ UNCHANGED vars
      PROVE  SlackInv'
  <2>1. rows' = rows /\ day' = day /\ pc' = pc /\ req' = req
    BY <1>8 DEF BackendConnects, BackendDisconnects, vars, callerVars, envVars
  <2>2. KnownOffering' /\ \A t \in Teams : Passed(t)' \subseteq Passed(t)
    BY <1>0, <2>1 DEF KnownOffering, Passed
  <2> QED
    BY <2>1, <2>2, RowsAlone
<1> QED
  BY <1>1, <1>2, <1>3, <1>4, <1>5, <1>6, <1>7, <1>8 DEF Next, Serve

\* No resets and no requests: the sums are zero.
LEMMA SlackInit == Init => SlackInv
<1> SUFFICES ASSUME Init PROVE SlackInv
  OBVIOUS
<1>1. UsedRows = {} /\ (\A t \in Teams : Passed(t) = {}) /\ (\A t, d : ResetsOn(t, d) = {})
  BY DEF Init, UsedRows, Passed, ResetsOn, BlankRow
<1>2. IsFiniteSet({}) /\ Cardinality({}) = 0
  BY FS_EmptySet
<1>3. KnownOffering /\ NoFutureRow
  BY DEF Init, KnownOffering, NoFutureRow, BlankRow
<1>4. \A t, d : Cardinality(ResetsOn(t, d)) = 0
  BY <1>1, <1>2
<1>5. \A t \in Teams : Cardinality(Passed(t)) = 0
  BY <1>1, <1>2
<1>6. PastUnderCeiling
  BY <1>4, CeilingType DEF PastUnderCeiling
<1>7. TodayUnderCeiling
  BY <1>4, <1>5, CeilingType DEF TodayUnderCeiling
<1> QED
  BY <1>1, <1>2, <1>3, <1>6, <1>7 DEF SlackInv, PassedHaveLimit

\* However requests interleave, queries fail and days change, a team's
\* succeeded and running resets of a day exceed the offering's limit by less
\* than the number of requests the gateway serves at once.
THEOREM LimitExceededByLess == Spec => []DailyLimitSlack
<1>1. TypeOK /\ OwnInv /\ SlackInv /\ [Next]_vars => SlackInv'
  BY SlackStep
<1>2. SlackInv => DailyLimitSlack
  BY DEF SlackInv, PastUnderCeiling, DailyLimitSlack, Ceiling, Limit
<1> QED
  BY Invariance, SlackInit, <1>1, <1>2, PTL DEF Spec
==============================================================================
