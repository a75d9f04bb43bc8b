----------------------------- MODULE Provisioning -----------------------------
(***************************************************************************)
(* ProvisioningService.provision (gateway/src/provisioning/): importing a   *)
(* roster into one offering, from the dashboard or the command line.  Every  *)
(* statement is a step of its own and nothing is transactional: imports may  *)
(* run side by side, fail at any step, and be run again, and a reset may drop *)
(* and create a team's database under them.                                 *)
(***************************************************************************)
EXTENDS Integers, Sequences, FiniteSets

CONSTANTS Imports, Students, Codes, Databases, Keys,
          Registered, \* who may have a row in students from another offering
          Rosters,    \* sequences of [student, code]: what a CSV may hold
          TeamSize,
          AutoCode,   \* "001", "002", ..: String(autoIndex).padStart(3, '0')
          DbOf,       \* sanitizeDatabaseName of the name made from a code
          NoCode, NoKey,
          MaxFaults   \* bound: statements that fail, processes that die, resets

ASSUME RosterAssumption ==
  /\ NoCode \notin Codes /\ NoKey \notin Keys /\ Registered \subseteq Students
  /\ Rosters \subseteq Seq([student : Students, code : Codes \cup {NoCode}])
  /\ TeamSize \in Nat \ {0} /\ MaxFaults \in Nat
  /\ DbOf \in [Codes -> Databases]
  /\ AutoCode \in Seq(Codes) /\ \A roster \in Rosters : 2 * Len(roster) <= Len(AutoCode)
  /\ \A m, n \in DOMAIN AutoCode : AutoCode[m] = AutoCode[n] => m = n

VARIABLES teams,     \* codes with a row in teams; its database is DbOf[code]
          db,        \* "absent", "template" or "seeded"
          students,  \* the table: a credential's row refers to its student's
          members,   \* team_members
          cred,      \* the key whose hash is in the student's credential row
          issued,    \* every key generated so far
          exported,  \* [student, key]: what finished imports handed out
          pc, roster,
          existing,  \* per import: the team maps, read once and then added to
          todo,      \* per import: the groups not yet begun
          group,     \* per import: code, team row, whether it was created
          left,      \* per import: members, or roster rows, still to be written
          result,    \* per import: the raw keys generated
          faults,
          reset      \* per database: where a reset is, or how the last one ended

tableVars == <<teams, db, students, members, cred, issued, exported>>
importVars == <<pc, roster, existing, todo, group, left, result>>
vars == <<tableVars, importVars, faults, reset>>

NewGroup(c) == [code |-> c, team |-> NoCode, created |-> FALSE]

Init == /\ teams = {} /\ exported = {} /\ issued = {}
        /\ db = [d \in Databases |-> "absent"]
        /\ students \in SUBSET Registered
        /\ members = [c \in Codes |-> {}]
        /\ cred = [s \in Students |-> NoKey]
        /\ pc = [i \in Imports |-> "idle"]
        /\ roster = [i \in Imports |-> <<>>]
        /\ existing = [i \in Imports |-> {}] /\ todo = [i \in Imports |-> {}]
        /\ group = [i \in Imports |-> NewGroup(NoCode)]
        /\ left = [i \in Imports |-> {}] /\ result = [i \in Imports |-> {}]
        /\ faults = 0 /\ reset = [d \in Databases |-> "none"]
------------------------------------------------------------------------------
(* groupIntoTeams *)

Explicit(r) == {r[k].code : k \in DOMAIN r} \ {NoCode}
Loose(r) == {k \in DOMAIN r : r[k].code = NoCode}
Chunks(r) == (Cardinality(Loose(r)) + TeamSize - 1) \div TeamSize
ChunkCode(r, n) == AutoCode[Cardinality(Explicit(r)) + n]
\* The chunk of a row: how many loose rows stand before it, by the team size.
Chunk(r, k) == Cardinality({j \in Loose(r) : j < k}) \div TeamSize + 1
ChunkMembers(r, n) == {r[k].student : k \in {j \in Loose(r) : Chunk(r, j) = n}}

GroupCodes(r) == Explicit(r) \cup {ChunkCode(r, n) : n \in 1..Chunks(r)}

\* Map.set: a chunk replaces the explicit group that has its code.
GroupMembers(r, c) ==
  IF \E n \in 1..Chunks(r) : ChunkCode(r, n) = c
  THEN UNION {ChunkMembers(r, n) : n \in {k \in 1..Chunks(r) : ChunkCode(r, k) = c}}
  ELSE {r[k].student : k \in {j \in DOMAIN r : r[j].code = c}}
------------------------------------------------------------------------------
(* The import *)

Goto(i, label) == pc' = [pc EXCEPT ![i] = label]
Code(i) == group[i].code
Team(i) == group[i].team

Begin(i) == /\ pc[i] = "idle"
            /\ \E r \in Rosters : roster' = [roster EXCEPT ![i] = r]
            /\ Goto(i, "list")
            /\ UNCHANGED <<tableVars, existing, todo, group, left, result, faults, reset>>

ListTeams(i) == /\ pc[i] = "list"
                /\ existing' = [existing EXCEPT ![i] = teams]
                /\ todo' = [todo EXCEPT ![i] = GroupCodes(roster[i])]
                /\ Goto(i, "groups")
                /\ UNCHANGED <<tableVars, roster, group, left, result, faults, reset>>

\* Take the next group of the map, in any order here; with none left, go on to
\* the credentials of all rows.
NextGroup(i) == /\ pc[i] = "groups"
                /\ \/ \E c \in todo[i] :
                        /\ todo' = [todo EXCEPT ![i] = @ \ {c}]
                        /\ group' = [group EXCEPT ![i] = NewGroup(c)]
                        /\ Goto(i, "exists?")
                        /\ UNCHANGED left
                   \/ /\ todo[i] = {}
                      /\ left' = [left EXCEPT ![i] = DOMAIN roster[i]]
                      /\ Goto(i, "issue")
                      /\ UNCHANGED <<todo, group>>
                /\ UNCHANGED <<tableVars, roster, existing, result, faults, reset>>

\* The team of a code by its code or, failing that, by its database.
\* In a mutation, a team is taken to be there.
Known_Assumed(i) == {Code(i)}
Known(i) == IF Code(i) \in existing[i] THEN {Code(i)}
            ELSE {t \in existing[i] : DbOf[t] = DbOf[Code(i)]}

\* Members of a reused team taken as written; or written, as in the code.
MembersOf_NewOnly(i, created) == IF created THEN GroupMembers(roster[i], Code(i)) ELSE {}
MembersOf(i, created) == GroupMembers(roster[i], Code(i))

UseTeam(i, t, created) ==
  /\ group' = [group EXCEPT ![i] = [code |-> Code(i), team |-> t, created |-> created]]
  /\ left' = [left EXCEPT ![i] = MembersOf(i, created)]
  /\ Goto(i, "members")

\* The database is there: look the team up in the maps, or insert it.
FindTeam(i) == \/ \E t \in Known(i) : UseTeam(i, t, FALSE)
               \/ Known(i) = {} /\ Goto(i, "create") /\ UNCHANGED <<group, left>>

DatabaseExists(i) == /\ pc[i] = "exists?"
                     /\ IF db[DbOf[Code(i)]] = "absent"
                        THEN Goto(i, "clone") /\ UNCHANGED <<group, left>>
                        ELSE FindTeam(i)
                     /\ UNCHANGED <<tableVars, roster, existing, todo, result, faults, reset>>

\* Somebody else may have created it since: CREATE DATABASE fails.
CreateDatabase(i) == /\ pc[i] = "clone"
                     /\ db[DbOf[Code(i)]] = "absent"
                     /\ db' = [db EXCEPT ![DbOf[Code(i)]] = "template"]
                     /\ FindTeam(i)
                     /\ UNCHANGED <<teams, students, members, cred, issued, exported>>
                     /\ UNCHANGED <<roster, existing, todo, result, faults, reset>>

\* teams.database_name is unique, and so are the codes of an offering; a
\* mutation has the second constraint only.
Admits_AnyDatabase(c) == c \notin teams
Admits(c) == \A t \in teams : t # c /\ DbOf[t] # DbOf[c]

CreateTeam(i) == /\ pc[i] = "create"
                 /\ Admits(Code(i))
                 /\ teams' = teams \cup {Code(i)}
                 /\ existing' = [existing EXCEPT ![i] = @ \cup {Code(i)}]
                 /\ UseTeam(i, Code(i), TRUE)
                 /\ UNCHANGED <<db, students, members, cred, issued, exported>>
                 /\ UNCHANGED <<roster, todo, result, faults, reset>>

\* The members in a fixed order, each registered as a student first.
Member(i) == CHOOSE s \in left[i] : TRUE

UpsertStudent(i) == /\ pc[i] = "members" /\ left[i] # {}
                    /\ students' = students \cup {Member(i)}
                    /\ Goto(i, "member")
                    /\ UNCHANGED <<teams, db, members, cred, issued, exported>>
                    /\ UNCHANGED <<roster, existing, todo, group, left, result, faults, reset>>

AddMember(i) == /\ pc[i] = "member"
                /\ members' = [members EXCEPT ![Team(i)] = @ \cup {Member(i)}]
                /\ left' = [left EXCEPT ![i] = @ \ {Member(i)}]
                /\ Goto(i, "members")
                /\ UNCHANGED <<teams, db, students, cred, issued, exported>>
                /\ UNCHANGED <<roster, existing, todo, group, result, faults, reset>>

\* Who is seeded: new teams; nobody in a mutation.
Seeds_Never(i) == FALSE
Seeds(i) == group[i].created

SeedTeam(i) == /\ pc[i] = "members" /\ left[i] = {}
               /\ Seeds(i) => db[DbOf[Code(i)]] # "absent"
               /\ IF Seeds(i) THEN db' = [db EXCEPT ![DbOf[Code(i)]] = "seeded"] ELSE UNCHANGED db
               /\ Goto(i, "groups")
               /\ UNCHANGED <<teams, students, members, cred, issued, exported>>
               /\ UNCHANGED <<roster, existing, todo, group, left, result, faults, reset>>

\* generateLabKey: a key nobody has had, whichever.
FreshKey == CHOOSE key \in Keys : key \notin issued

\* The rows of the roster are taken in their order.
IsNext(i, k) == k \in left[i] /\ \A j \in left[i] : k <= j
StudentOf(i, k) == roster[i][k].student

\* One key per row: a student in two rows gets two, the second replacing the first.
Issue(i) == /\ pc[i] = "issue" /\ issued # Keys
            /\ \E k \in left[i] :
                 /\ IsNext(i, k) /\ StudentOf(i, k) \in students
                 /\ cred' = [cred EXCEPT ![StudentOf(i, k)] = FreshKey]
                 /\ result' = [result EXCEPT ![i] = @ \cup {[student |-> StudentOf(i, k), key |-> FreshKey]}]
                 /\ left' = [left EXCEPT ![i] = @ \ {k}]
            /\ issued' = issued \cup {FreshKey}
            /\ UNCHANGED <<teams, db, students, members, exported>>
            /\ UNCHANGED <<pc, roster, existing, todo, group, faults, reset>>

\* What the caller is given: every key generated; those of new students only.
Export_NewStudents(i) == {e \in result[i] : \A x \in exported : x.student # e.student}
Export(i) == result[i]

Finish(i) == /\ pc[i] = "issue" /\ left[i] = {}
             /\ exported' = exported \cup Export(i)
             /\ Goto(i, "finished")
             /\ UNCHANGED <<teams, db, students, members, cred, issued>>
             /\ UNCHANGED <<roster, existing, todo, group, left, result, faults, reset>>

Working(i) == pc[i] \notin {"idle", "finished", "failed"}

\* The statement violates a constraint: another import was first, the hook finds
\* that a reset has dropped the database, or the student of a credential has no row
\* in students, because his group was replaced.
Conflict(i) == /\ \/ pc[i] = "clone" /\ db[DbOf[Code(i)]] # "absent"
                  \/ pc[i] = "create" /\ ~Admits(Code(i))
                  \/ /\ pc[i] = "members" /\ left[i] = {}
                     /\ Seeds(i) /\ db[DbOf[Code(i)]] = "absent"
                  \/ pc[i] = "issue" /\ \E k \in left[i] : IsNext(i, k) /\ StudentOf(i, k) \notin students
               /\ Goto(i, "failed")
               /\ UNCHANGED <<tableVars, roster, existing, todo, group, left, result, faults, reset>>

\* A statement or the seed hook fails, or the process dies: the keys generated
\* so far are lost.
Fail(i) == /\ Working(i)
           /\ faults < MaxFaults /\ faults' = faults + 1
           /\ Goto(i, "failed")
           /\ UNCHANGED <<tableVars, roster, existing, todo, group, left, result, reset>>

Step(i) == \/ ListTeams(i) \/ NextGroup(i) \/ DatabaseExists(i) \/ CreateDatabase(i)
           \/ CreateTeam(i) \/ UpsertStudent(i) \/ AddMember(i) \/ SeedTeam(i) \/ Issue(i)
           \/ Finish(i) \/ Conflict(i) \/ Fail(i)

------------------------------------------------------------------------------
(* A reset of a team beside the imports: TeamReset has its other steps *)

\* The DROP succeeds, or fails and the reset with it.
ResetDrops(t) == /\ reset[DbOf[t]] \in {"none", "failed"} /\ faults < MaxFaults
                 /\ faults' = faults + 1
                 /\ \/ /\ db' = [db EXCEPT ![DbOf[t]] = "absent"]
                       /\ reset' = [reset EXCEPT ![DbOf[t]] = "create"]
                    \/ reset' = [reset EXCEPT ![DbOf[t]] = "failed"] /\ UNCHANGED db
                 /\ UNCHANGED <<teams, students, members, cred, issued, exported, importVars>>

\* An import that found no database may have created it since.  In a mutation
\* the reset goes on with what is there.
ResetCreates_IfAbsent(t) ==
  /\ reset[DbOf[t]] = "create"
  /\ reset' = [reset EXCEPT ![DbOf[t]] = "none"]
  /\ db' = [db EXCEPT ![DbOf[t]] = IF db[DbOf[t]] = "absent" THEN "seeded" ELSE db[DbOf[t]]]
  /\ UNCHANGED <<teams, students, members, cred, issued, exported, importVars, faults>>
ResetCreates(t) ==
  /\ reset[DbOf[t]] = "create"
  /\ IF db[DbOf[t]] = "absent"
     THEN /\ db' = [db EXCEPT ![DbOf[t]] = "template"]
          /\ reset' = [reset EXCEPT ![DbOf[t]] = "seed"]
     ELSE reset' = [reset EXCEPT ![DbOf[t]] = "failed"] /\ UNCHANGED db
  /\ UNCHANGED <<teams, students, members, cred, issued, exported, importVars, faults>>

ResetSeeds(t) == /\ reset[DbOf[t]] = "seed"
                 /\ db' = [db EXCEPT ![DbOf[t]] = "seeded"]
                 /\ reset' = [reset EXCEPT ![DbOf[t]] = "none"]
                 /\ UNCHANGED <<teams, students, members, cred, issued, exported, importVars, faults>>

\* The CREATE or the hook fails, or the process dies: the database stays as it is,
\* absent after a failed CREATE.
ResetFails(t) == /\ reset[DbOf[t]] \in {"create", "seed"}
                 /\ reset' = [reset EXCEPT ![DbOf[t]] = "failed"]
                 /\ UNCHANGED <<tableVars, importVars, faults>>

Reset(t) == ResetDrops(t) \/ ResetCreates(t) \/ ResetSeeds(t) \/ ResetFails(t)

Next == \/ \E i \in Imports : Begin(i) \/ Step(i)
        \/ \E t \in teams : Reset(t)

Spec == Init /\ [][Next]_vars
------------------------------------------------------------------------------
(* Properties *)

Labels == {"idle", "list", "groups", "exists?", "clone", "create", "members", "member", "issue",
           "finished", "failed"}

TypeOK ==
  /\ teams \subseteq Codes /\ db \in [Databases -> {"absent", "template", "seeded"}]
  /\ students \subseteq Students /\ members \in [Codes -> SUBSET Students]
  /\ cred \in [Students -> Keys \cup {NoKey}] /\ issued \subseteq Keys
  /\ exported \subseteq [student : Students, key : Keys]
  /\ pc \in [Imports -> Labels]
  /\ roster \in [Imports -> Rosters \cup {<<>>}]
  /\ existing \in [Imports -> SUBSET Codes] /\ todo \in [Imports -> SUBSET Codes]
  /\ group \in [Imports -> [code : Codes \cup {NoCode}, team : Codes \cup {NoCode}, created : BOOLEAN]]
  /\ left \in [Imports -> SUBSET (Students \cup Nat)]
  /\ result \in [Imports -> SUBSET [student : Students, key : Keys]]
  /\ faults \in 0..MaxFaults
  /\ reset \in [Databases -> {"none", "create", "seed", "failed"}]
  /\ \A i \in Imports : Team(i) \in teams \cup {NoCode}

\* Two teams never share a database, whatever their codes are sanitised to and
\* whichever imports race for it; and every team has one, unless a reset is
\* between its DROP and its CREATE or the team's last reset failed.
OneDatabasePerTeam ==
  \A t \in teams : /\ db[DbOf[t]] # "absent" \/ reset[DbOf[t]] \in {"create", "failed"}
                   /\ \A u \in teams : DbOf[t] = DbOf[u] => t = u

\* The tables and databases fit each other between any two statements.
TablesFit == TypeOK /\ OneDatabasePerTeam

\* The explicit code of a row is also an automatic chunk's, which replaced its group.
Displaced(r, k) == r[k].code # NoCode /\ \E n \in 1..Chunks(r) : ChunkCode(r, n) = r[k].code

\* An import that finished did its work, however many imports failed before it
\* or ran beside it: every group has a team over its database, with its members,
\* and every row's student is registered, has a key and is in a team, unless his
\* group was replaced by an automatic one.
FinishedIsComplete ==
  \A i \in Imports : pc[i] = "finished" =>
    /\ \A c \in GroupCodes(roster[i]) :
         \E t \in teams : DbOf[t] = DbOf[c] /\ GroupMembers(roster[i], c) \subseteq members[t]
    /\ \A k \in DOMAIN roster[i] :
         LET s == roster[i][k].student IN
         /\ s \in students /\ cred[s] # NoKey
         /\ Displaced(roster[i], k) \/ \E t \in teams : s \in members[t]

\* The database of a team is seeded, or its seeding is up to the import that
\* created the team, at work or failed before it, or to a reset that is at work
\* or recorded as failed: no race of imports and resets loses the seed unnoticed.
UnseededIsExplained ==
  \A t \in teams : \/ db[DbOf[t]] = "seeded" \/ reset[DbOf[t]] # "none"
                   \/ \E i \in Imports : /\ group[i].created /\ Team(i) = t
                                         /\ pc[i] \in {"members", "member", "failed"}

\* The key that works for a student was handed out, or will be when the import
\* that generated it finishes, or was lost because that import failed.
WorkingKeyIsKnown ==
  \A s \in Students : cred[s] # NoKey =>
    LET entry == [student |-> s, key |-> cred[s]] IN
    entry \in exported \/ \E i \in Imports : entry \in result[i] /\ pc[i] # "finished"
==============================================================================
