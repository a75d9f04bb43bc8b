-------------------------- MODULE ProvisioningProofs --------------------------
(***************************************************************************)
(* Proofs about Provisioning, for any imports, rosters, codes and databases *)
(* and any number of faults: the tables fit each other between statements,  *)
(* an unseeded database and a working key are accounted for, and an import  *)
(* that finished did its work.                                              *)
(***************************************************************************)
EXTENDS Provisioning, FiniteSetTheorems, FunctionTheorems, TLAPS

(* The groups of a roster *)

Roster == Rosters \cup {<<>>}

\* The rows of a roster have students and codes.
LEMMA RosterRows ==
  ASSUME NEW r \in Roster
  PROVE  /\ DOMAIN r = 1..Len(r) /\ Len(r) \in Nat
         /\ \A k \in DOMAIN r : r[k].student \in Students /\ r[k].code \in Codes \cup {NoCode}
<1> DEFINE Row == [student : Students, code : Codes \cup {NoCode}]
<1>1. Rosters \subseteq Seq(Row)
  BY RosterAssumption
<1> HIDE DEF Row
<1>e. <<>> \in Seq(Row)
  OBVIOUS
<1>2. r \in Seq(Row)
  BY <1>1, <1>e, r \in Rosters \/ r = <<>> DEF Roster
<1>3. DOMAIN r = 1..Len(r) /\ Len(r) \in Nat /\ \A k \in DOMAIN r : r[k] \in Row
  BY <1>2
<1> QED
  BY <1>3 DEF Row

\* Rounding up a quotient does not pass the dividend.
LEMMA CeilingBound ==
  ASSUME NEW c \in Nat, NEW t \in Nat \ {0}
  PROVE  (c + t - 1) \div t \in 0..c
<1> DEFINE q == (c + t - 1) \div t
<1>1. q \in Int /\ t * q <= c + t - 1 /\ c + t - 1 < t * q + t
  OBVIOUS
<1>2. q >= 0
  BY <1>1
<1>3. ASSUME q >= c + 1 PROVE FALSE
  <2>1. t * q >= t * (c + 1)
    BY <1>1, <1>3
  <2>2. t * (c + 1) = t * c + t /\ t * c >= c
    OBVIOUS
  <2> QED
    BY <1>1, <2>1, <2>2
<1> QED
  BY <1>1, <1>2, <1>3

\* A roster has no more groups than rows, of either kind.
LEMMA GroupsBounded ==
  ASSUME NEW r \in Roster
  PROVE  /\ IsFiniteSet(Explicit(r)) /\ Cardinality(Explicit(r)) \in 0..Len(r)
         /\ Chunks(r) \in 0..Len(r)
<1> DEFINE D == DOMAIN r
           f == [k \in D |-> r[k].code]
<1>1. IsFiniteSet(D) /\ Cardinality(D) = Len(r)
  <2>1. D = 1..Len(r) /\ Len(r) \in Nat
    BY RosterRows
  <2>2. ASSUME NEW n \in Nat PROVE IsFiniteSet(1..n) /\ Cardinality(1..n) = n
    <3>1. Cardinality(1..n) = (IF 1 > n THEN 0 ELSE n - 1 + 1) /\ IsFiniteSet(1..n)
      BY 1 \in Int, n \in Int, FS_Interval
    <3> QED
      BY <3>1
  <2> QED
    BY <2>1, <2>2
<1>2. f \in Surjection(D, {r[k].code : k \in D})
  <2>1. f \in [D -> {r[k].code : k \in D}]
    OBVIOUS
  <2>2. ASSUME NEW c \in {r[k].code : k \in D} PROVE \E k \in D : f[k] = c
    OBVIOUS
  <2> QED
    BY <2>1, <2>2 DEF Surjection
<1>3. /\ IsFiniteSet({r[k].code : k \in D})
      /\ Cardinality({r[k].code : k \in D}) <= Len(r)
  BY <1>1, <1>2, FS_Surjection
<1>4. Explicit(r) \subseteq {r[k].code : k \in D}
  BY DEF Explicit
<1>5. /\ IsFiniteSet(Explicit(r))
      /\ Cardinality(Explicit(r)) <= Cardinality({r[k].code : k \in D})
  BY <1>3, <1>4, FS_Subset
<1>6. /\ IsFiniteSet(Loose(r)) /\ Cardinality(Loose(r)) <= Cardinality(D)
  BY <1>1, FS_Subset DEF Loose
<1>7. Cardinality(Loose(r)) \in Nat /\ Cardinality(Explicit(r)) \in Nat
      /\ Cardinality({r[k].code : k \in D}) \in Nat
  BY <1>3, <1>5, <1>6, FS_CardinalityType
<1>8. Chunks(r) \in 0..Cardinality(Loose(r))
  BY <1>7, CeilingBound, RosterAssumption DEF Chunks
<1> QED
  BY <1>1, <1>3, <1>5, <1>6, <1>7, <1>8, RosterRows

\* Groups have codes, and members from the roster.
LEMMA GroupsTyped ==
  ASSUME NEW r \in Roster
  PROVE  /\ GroupCodes(r) \subseteq Codes
         /\ \A c \in Codes : GroupMembers(r, c) \subseteq Students
<1>1. Explicit(r) \subseteq Codes
  BY RosterRows DEF Explicit
<1>2. ASSUME NEW n \in 1..Chunks(r) PROVE ChunkCode(r, n) \in Codes
  <2>1. r \in Rosters
    <3>1. CASE r = <<>>
      <4>1. Len(r) = 0
        BY <3>1
      <4> QED
        BY <4>1, <1>2, GroupsBounded
    <3> QED
      BY <3>1 DEF Roster
  <2>2. 2 * Len(r) <= Len(AutoCode) /\ Len(AutoCode) \in Nat
    BY <2>1, RosterAssumption
  <2>3. Cardinality(Explicit(r)) + n \in 1..Len(AutoCode)
    BY <2>2, <1>2, GroupsBounded, RosterRows
  <2> QED
    BY <2>3, RosterAssumption DEF ChunkCode
<1>3. ASSUME NEW n PROVE ChunkMembers(r, n) \subseteq Students
  BY RosterRows DEF ChunkMembers, Loose
<1> QED
  BY <1>1, <1>2, <1>3, RosterRows DEF GroupCodes, GroupMembers
------------------------------------------------------------------------------
(* The invariant *)

\* A database exists, or a reset dropped it and has yet to create it or failed.
HasDatabase(d) == db[d] # "absent" \/ reset[d] \in {"create", "failed"}

\* The teams an import knows exist; at a group it has the code of one of the roster,
\* then a database, then a team over that database; what is left to be written
\* is members of the group, or rows of the roster.
ImportOK(i) ==
  /\ existing[i] \subseteq teams
  /\ pc[i] \in {"idle", "list", "failed"} \/ todo[i] \subseteq GroupCodes(roster[i])
  /\ pc[i] \in {"exists?", "clone", "create", "members", "member"} => Code(i) \in GroupCodes(roster[i])
  /\ pc[i] = "create" => HasDatabase(DbOf[Code(i)])
  /\ pc[i] \in {"members", "member"} => /\ Team(i) \in teams /\ DbOf[Team(i)] = DbOf[Code(i)]
                                        /\ left[i] \subseteq Students
  /\ pc[i] = "member" => left[i] # {}
  /\ pc[i] = "issue" => left[i] \subseteq DOMAIN roster[i]

\* A group is served: it has a team over its database, with its members.
Served(i, c) == \E t \in teams : /\ DbOf[t] = DbOf[c]
                                 /\ GroupMembers(roster[i], c) \subseteq members[t]

\* A group of an import is still to be begun, is the one it is at, with its
\* members written but for those left, or is served.
GroupsServed(i) ==
  \A c \in GroupCodes(roster[i]) :
    \/ pc[i] \in {"idle", "list", "failed"}
    \/ Served(i, c)
    \/ c \in todo[i] /\ pc[i] \notin {"issue", "finished"}
    \/ c = Code(i) /\ pc[i] \in {"exists?", "clone", "create"}
    \/ /\ c = Code(i) /\ pc[i] \in {"members", "member"}
       /\ GroupMembers(roster[i], c) \ left[i] \subseteq members[Team(i)]

\* TypeOK in three parts: the tables, the imports, the teams they use.
TablesOK ==
  /\ teams \subseteq Codes /\ db \in [Databases -> {"absent", "template", "seeded"}]
  /\ students \subseteq Students /\ members \in [Codes -> SUBSET Students]
  /\ cred \in [Students -> Keys \cup {NoKey}] /\ issued \subseteq Keys
  /\ exported \subseteq [student : Students, key : Keys]
  /\ faults \in 0..MaxFaults
  /\ reset \in [Databases -> {"none", "create", "seed", "failed"}]
FormsOK ==
  /\ pc \in [Imports -> Labels]
  /\ roster \in [Imports -> Roster]
  /\ existing \in [Imports -> SUBSET Codes] /\ todo \in [Imports -> SUBSET Codes]
  /\ group \in [Imports -> [code : Codes \cup {NoCode}, team : Codes \cup {NoCode}, created : BOOLEAN]]
  /\ left \in [Imports -> SUBSET (Students \cup Nat)]
  /\ result \in [Imports -> SUBSET [student : Students, key : Keys]]
TeamsOK == \A i \in Imports : Team(i) \in teams \cup {NoCode}

\* The parts are TypeOK.
LEMMA TypeParts == TypeOK <=> TablesOK /\ FormsOK /\ TeamsOK
BY DEF TypeOK, TablesOK, FormsOK, TeamsOK, Roster

\* An import that does not move keeps what it has.
Untouched(j) == /\ pc'[j] = pc[j] /\ roster'[j] = roster[j] /\ existing'[j] = existing[j]
                /\ todo'[j] = todo[j] /\ group'[j] = group[j] /\ left'[j] = left[j]
                /\ result'[j] = result[j]

\* Taking a team, found or created, sets the import's group and members.
LEMMA UseTeamTypes ==
  ASSUME FormsOK, NEW i \in Imports, Code(i) \in GroupCodes(roster[i]),
         NEW t \in Codes, NEW created \in BOOLEAN, UseTeam(i, t, created)
  PROVE  /\ group' \in [Imports -> [code : Codes \cup {NoCode}, team : Codes \cup {NoCode}, created : BOOLEAN]]
         /\ left' \in [Imports -> SUBSET (Students \cup Nat)] /\ pc' \in [Imports -> Labels]
         /\ pc'[i] = "members" /\ left'[i] = GroupMembers(roster[i], Code(i)) /\ left'[i] \subseteq Students
         /\ group'[i] = [code |-> Code(i), team |-> t, created |-> created]
         /\ \A j \in Imports \ {i} : pc'[j] = pc[j] /\ group'[j] = group[j] /\ left'[j] = left[j]
<1>1. roster[i] \in Roster
  BY DEF FormsOK
<1>2. Code(i) \in Codes /\ GroupMembers(roster[i], Code(i)) \subseteq Students
  BY <1>1, GroupsTyped
<1>3. left' = [left EXCEPT ![i] = GroupMembers(roster[i], Code(i))]
  BY DEF UseTeam, MembersOf
<1>4. /\ left' \in [Imports -> SUBSET (Students \cup Nat)]
      /\ left'[i] = GroupMembers(roster[i], Code(i))
      /\ \A j \in Imports \ {i} : left'[j] = left[j]
  BY <1>2, <1>3 DEF FormsOK
<1>5. /\ pc' \in [Imports -> Labels] /\ pc'[i] = "members"
      /\ \A j \in Imports \ {i} : pc'[j] = pc[j]
  BY DEF UseTeam, Goto, FormsOK, Labels
<1>6. group' = [group EXCEPT ![i] = [code |-> Code(i), team |-> t, created |-> created]]
  BY DEF UseTeam
<1>7. /\ group' \in [Imports -> [code : Codes \cup {NoCode}, team : Codes \cup {NoCode}, created : BOOLEAN]]
      /\ group'[i] = [code |-> Code(i), team |-> t, created |-> created]
      /\ \A j \in Imports \ {i} : group'[j] = group[j]
  BY <1>2, <1>6 DEF FormsOK
<1> QED
  BY <1>2, <1>4, <1>5, <1>7

\* What DatabaseExists and CreateDatabase do to an import.
Settles(i) == \/ \E t \in existing[i] : DbOf[t] = DbOf[Code(i)] /\ UseTeam(i, t, FALSE)
              \/ Goto(i, "create") /\ UNCHANGED <<group, left>>

\* A team that is found has the database of the code.
LEMMA FindTeamSettles ==
  ASSUME NEW i \in Imports, FindTeam(i)
  PROVE  Settles(i)
BY DEF FindTeam, Known, Settles

\* Settling leaves the import typed, at its members or about to create a team.
LEMMA SettlesTypes ==
  ASSUME FormsOK, NEW i \in Imports, Code(i) \in GroupCodes(roster[i]), Settles(i),
         UNCHANGED <<roster, existing, todo, result>>
  PROVE  /\ FormsOK' /\ \A j \in Imports \ {i} : Untouched(j)
         /\ \/ pc'[i] = "create" /\ group'[i] = group[i]
            \/ /\ pc'[i] = "members" /\ left'[i] = GroupMembers(roster[i], Code(i))
               /\ left'[i] \subseteq Students
               /\ \E t \in existing[i] : /\ DbOf[t] = DbOf[Code(i)]
                                         /\ group'[i] = [code |-> Code(i), team |-> t, created |-> FALSE]
<1>1. CASE Goto(i, "create") /\ UNCHANGED <<group, left>>
  BY <1>1 DEF Goto, FormsOK, Labels, Untouched
<1>2. ASSUME NEW t \in existing[i], DbOf[t] = DbOf[Code(i)], UseTeam(i, t, FALSE)
      PROVE  /\ FormsOK' /\ \A j \in Imports \ {i} : Untouched(j)
             /\ pc'[i] = "members" /\ left'[i] = GroupMembers(roster[i], Code(i))
             /\ left'[i] \subseteq Students
             /\ group'[i] = [code |-> Code(i), team |-> t, created |-> FALSE]
  <2>1. t \in Codes
    BY DEF FormsOK
  <2> QED
    BY <1>2, <2>1, UseTeamTypes DEF FormsOK, Untouched
<1> QED
  BY <1>1, <1>2 DEF Settles

\* An import's steps move that import alone.
LEMMA FormsStep ==
  ASSUME TypeOK, NEW i \in Imports, ImportOK(i), Begin(i) \/ Step(i)
  PROVE  FormsOK' /\ \A j \in Imports \ {i} : Untouched(j)
<1>1. FormsOK /\ TablesOK
  BY TypeParts
<1>2. roster[i] \in Roster /\ GroupCodes(roster[i]) \subseteq Codes
      /\ DOMAIN roster[i] \subseteq Nat
  BY <1>1, GroupsTyped, RosterRows DEF FormsOK
<1>3. CASE Begin(i)
  <2>1. roster' \in [Imports -> Roster] /\ \A j \in Imports \ {i} : roster'[j] = roster[j]
    BY <1>1, <1>3 DEF Begin, FormsOK, Roster
  <2> QED
    BY <1>1, <1>3, <2>1 DEF Begin, Goto, FormsOK, Labels, Untouched
<1>4. CASE ListTeams(i)
  BY <1>1, <1>2, <1>4 DEF ListTeams, Goto, FormsOK, TablesOK, Labels, Untouched
<1>5. CASE NextGroup(i)
  <2>1. ASSUME NEW c \in todo[i], todo' = [todo EXCEPT ![i] = @ \ {c}],
               group' = [group EXCEPT ![i] = NewGroup(c)],
               Goto(i, "exists?"), UNCHANGED left
        PROVE  FormsOK' /\ \A j \in Imports \ {i} : Untouched(j)
    <3>2. c \in Codes
      BY <1>1 DEF FormsOK
    <3>3. /\ group' \in [Imports -> [code : Codes \cup {NoCode}, team : Codes \cup {NoCode}, created : BOOLEAN]]
          /\ \A j \in Imports \ {i} : group'[j] = group[j]
      BY <1>1, <2>1, <3>2 DEF FormsOK, NewGroup
    <3> QED
      BY <1>1, <1>5, <2>1, <3>3 DEF NextGroup, Goto, FormsOK, Labels, Untouched
  <2>2. CASE left' = [left EXCEPT ![i] = DOMAIN roster[i]] /\ Goto(i, "issue") /\ UNCHANGED <<todo, group>>
    BY <1>1, <1>2, <1>5, <2>2 DEF NextGroup, Goto, FormsOK, Labels, Untouched
  <2> QED
    BY <1>5, <2>1, <2>2 DEF NextGroup
<1>6. CASE DatabaseExists(i)
  <2>1. CASE Goto(i, "clone") /\ UNCHANGED <<group, left>>
    BY <1>1, <1>6, <2>1 DEF DatabaseExists, Goto, FormsOK, Labels, Untouched
  <2>2. CASE FindTeam(i)
    BY <1>1, <1>6, <2>2, FindTeamSettles, SettlesTypes DEF DatabaseExists, ImportOK
  <2> QED
    BY <1>6, <2>1, <2>2 DEF DatabaseExists
<1>7. CASE CreateDatabase(i)
  BY <1>1, <1>7, FindTeamSettles, SettlesTypes DEF CreateDatabase, ImportOK
<1>8. CASE CreateTeam(i)
  <2>1. Code(i) \in GroupCodes(roster[i]) /\ Code(i) \in Codes
    BY <1>2, <1>8 DEF CreateTeam, ImportOK
  <2>2. /\ existing' \in [Imports -> SUBSET Codes]
        /\ \A j \in Imports \ {i} : existing'[j] = existing[j]
    BY <1>1, <1>8, <2>1 DEF CreateTeam, FormsOK
  <2> QED
    BY <1>1, <1>8, <2>1, <2>2, UseTeamTypes DEF CreateTeam, FormsOK, Untouched
<1>9. CASE UpsertStudent(i) \/ AddMember(i)
  BY <1>1, <1>9 DEF UpsertStudent, AddMember, Goto, FormsOK, Labels, Untouched
<1>10. CASE SeedTeam(i)
  BY <1>1, <1>10 DEF SeedTeam, Goto, FormsOK, Labels, Untouched
<1>11. CASE Issue(i)
  <2>1. PICK k \in left[i] :
          /\ result' = [result EXCEPT ![i] = @ \cup {[student |-> roster[i][k].student, key |-> FreshKey]}]
          /\ left' = [left EXCEPT ![i] = @ \ {k}]
    BY <1>11 DEF Issue, StudentOf
  <2>2. roster[i][k].student \in Students
    BY <1>2, <1>11, RosterRows DEF Issue, ImportOK
  <2>3. FreshKey \in Keys
    BY <1>1, <1>11 DEF Issue, TablesOK, FreshKey
  <2>4. /\ result' \in [Imports -> SUBSET [student : Students, key : Keys]]
        /\ \A j \in Imports \ {i} : result'[j] = result[j]
    BY <1>1, <2>1, <2>2, <2>3 DEF FormsOK
  <2> QED
    BY <1>1, <1>11, <2>1, <2>4 DEF Issue, FormsOK, Untouched
<1>12. CASE Finish(i) \/ Conflict(i) \/ Fail(i)
  BY <1>1, <1>12 DEF Finish, Conflict, Fail, Goto, FormsOK, Labels, Untouched
<1> QED
  BY <1>3, <1>4, <1>5, <1>6, <1>7, <1>8, <1>9, <1>10, <1>11, <1>12 DEF Step

\* What never goes away: teams, students, members, and a database once it exists
\* or a reset accounts for it.
Grows == /\ teams \subseteq teams' /\ students \subseteq students'
         /\ \A c \in Codes : members[c] \subseteq members'[c]
         /\ \A d \in Databases : HasDatabase(d) => HasDatabase(d)'

\* The steps of an import keep the tables typed and take nothing away.
LEMMA TablesStep ==
  ASSUME TypeOK, NEW i \in Imports, ImportOK(i), Begin(i) \/ Step(i)
  PROVE  TablesOK' /\ Grows /\ UNCHANGED reset
<1>1. FormsOK /\ TablesOK
  BY TypeParts
<1>2. roster[i] \in Roster /\ GroupCodes(roster[i]) \subseteq Codes
  BY <1>1, GroupsTyped DEF FormsOK
<1>3. ASSUME UNCHANGED <<tableVars, faults, reset>> PROVE TablesOK' /\ Grows /\ UNCHANGED reset
  BY <1>1, <1>3 DEF tableVars, TablesOK, Grows, HasDatabase
<1>4. CASE Begin(i) \/ ListTeams(i) \/ NextGroup(i) \/ DatabaseExists(i) \/ Conflict(i)
  BY <1>3, <1>4 DEF Begin, ListTeams, NextGroup, DatabaseExists, Conflict
<1>5. CASE CreateDatabase(i)
  <2>1. DbOf[Code(i)] \in Databases
    BY <1>2, <1>5, RosterAssumption DEF CreateDatabase, ImportOK
  <2> QED
    BY <1>1, <1>5, <2>1 DEF CreateDatabase, TablesOK, Grows, HasDatabase
<1>6. CASE CreateTeam(i)
  BY <1>1, <1>2, <1>6 DEF CreateTeam, ImportOK, TablesOK, Grows, HasDatabase
<1>7a. CASE UpsertStudent(i)
  <2>1. Member(i) \in Students
    BY <1>7a DEF UpsertStudent, ImportOK, Member
  <2> QED
    BY <1>1, <1>7a, <2>1 DEF UpsertStudent, TablesOK, Grows, HasDatabase
<1>7. CASE AddMember(i)
  <2>1. Team(i) \in Codes /\ Member(i) \in Students
    BY <1>1, <1>7 DEF AddMember, ImportOK, TablesOK, Member
  <2> QED
    BY <1>1, <1>7, <2>1 DEF AddMember, TablesOK, Grows, HasDatabase
<1>8. CASE SeedTeam(i)
  <2>1. DbOf[Code(i)] \in Databases
    BY <1>2, <1>8, RosterAssumption DEF SeedTeam, ImportOK
  <2> QED
    BY <1>1, <1>8, <2>1 DEF SeedTeam, TablesOK, Grows, HasDatabase
<1>9. CASE Issue(i)
  <2>1. PICK k \in left[i] : cred' = [cred EXCEPT ![roster[i][k].student] = FreshKey]
    BY <1>9 DEF Issue, StudentOf
  <2>2. FreshKey \in Keys
    BY <1>1, <1>9 DEF Issue, TablesOK, FreshKey
  <2> QED
    BY <1>1, <1>9, <2>1, <2>2 DEF Issue, TablesOK, Grows, HasDatabase
<1>10. CASE Finish(i)
  <2>1. result[i] \subseteq [student : Students, key : Keys]
    BY <1>1 DEF FormsOK
  <2> QED
    BY <1>1, <1>10, <2>1 DEF Finish, Export, TablesOK, Grows, HasDatabase
<1>11. CASE Fail(i)
  <2>1. faults' \in 0..MaxFaults
    BY <1>1, <1>11, RosterAssumption DEF Fail, TablesOK
  <2> QED
    BY <1>1, <1>11, <2>1 DEF Fail, tableVars, TablesOK, Grows, HasDatabase
<1> QED
  BY <1>4, <1>5, <1>6, <1>7, <1>7a, <1>8, <1>9, <1>10, <1>11 DEF Step

\* So do the steps of a reset, which leave the imports and their tables alone.
LEMMA ResetStep ==
  ASSUME TypeOK, NEW t \in teams, Reset(t)
  PROVE  /\ TablesOK' /\ Grows
         /\ UNCHANGED <<teams, students, members, cred, issued, exported, importVars>>
<1>1. TablesOK /\ t \in Codes /\ DbOf[t] \in Databases
  BY TypeParts, RosterAssumption DEF TablesOK
<1>2. CASE ResetDrops(t)
  <2>1. faults' \in 0..MaxFaults
    BY <1>1, <1>2, RosterAssumption DEF ResetDrops, TablesOK
  <2> QED
    BY <1>1, <1>2, <2>1 DEF ResetDrops, TablesOK, Grows, HasDatabase
<1>3. CASE ResetCreates(t)
  BY <1>1, <1>3 DEF ResetCreates, TablesOK, Grows, HasDatabase
<1>4. CASE ResetSeeds(t)
  BY <1>1, <1>4 DEF ResetSeeds, TablesOK, Grows, HasDatabase
<1>5. CASE ResetFails(t)
  BY <1>1, <1>5 DEF ResetFails, tableVars, TablesOK, Grows, HasDatabase
<1> QED
  BY <1>2, <1>3, <1>4, <1>5 DEF Reset

\* An import that does not move stays as it should be while the tables grow.
LEMMA OthersStep ==
  ASSUME TypeOK, Grows, NEW j \in Imports, ImportOK(j), Untouched(j)
  PROVE  ImportOK(j)' /\ (Team(j) \in teams \cup {NoCode})'
<1>1. roster[j] \in Roster /\ GroupCodes(roster[j]) \subseteq Codes
  BY TypeParts, GroupsTyped DEF FormsOK
<1>2. ASSUME pc[j] = "create", NEW d, d = DbOf[Code(j)] PROVE HasDatabase(d)'
  <2>1. d \in Databases /\ HasDatabase(d)
    BY <1>1, <1>2, RosterAssumption DEF ImportOK
  <2> QED
    BY <2>1 DEF Grows
<1>3. Code(j)' = Code(j) /\ Team(j)' = Team(j)
  BY DEF Untouched, Code, Team
<1>4. (pc[j] = "create" => HasDatabase(DbOf[Code(j)]))'
  BY <1>2, <1>3 DEF Untouched, HasDatabase
<1>5. (Team(j) \in teams \cup {NoCode})'
  BY <1>3 DEF TypeOK, Grows
<1> QED
  BY <1>3, <1>4, <1>5 DEF ImportOK, Untouched, Grows

\* The import that moves stays as it should be.
LEMMA OwnStep ==
  ASSUME TypeOK, NEW i \in Imports, ImportOK(i), Begin(i) \/ Step(i)
  PROVE  ImportOK(i)' /\ (Team(i) \in teams \cup {NoCode})'
<1>1. FormsOK /\ TablesOK /\ FormsOK' /\ Team(i) \in teams \cup {NoCode}
  BY TypeParts, FormsStep DEF TeamsOK
<1>2. Grows /\ UNCHANGED reset
  BY TablesStep
<1>3. CASE Begin(i)
  BY <1>1, <1>2, <1>3 DEF Begin, Goto, ImportOK, FormsOK, tableVars, Team
<1>4. CASE ListTeams(i)
  BY <1>1, <1>2, <1>4 DEF ListTeams, Goto, ImportOK, FormsOK, tableVars, Team
<1>5. CASE NextGroup(i)
  <2>1. ASSUME NEW c \in todo[i], todo' = [todo EXCEPT ![i] = @ \ {c}],
               group' = [group EXCEPT ![i] = NewGroup(c)],
               Goto(i, "exists?"), UNCHANGED left
        PROVE  ImportOK(i)' /\ (Team(i) \in teams \cup {NoCode})'
    <3>1. group'[i] = [code |-> c, team |-> NoCode, created |-> FALSE]
      BY <1>1, <2>1 DEF FormsOK, NewGroup
    <3>2. Code(i)' = c /\ Team(i)' = NoCode
      BY <3>1 DEF Code, Team
    <3>3. pc'[i] = "exists?" /\ todo'[i] = todo[i] \ {c} /\ pc[i] = "groups"
      BY <1>1, <1>5, <2>1 DEF FormsOK, Goto, NextGroup
    <3> QED
      BY <1>2, <1>5, <3>2, <3>3 DEF NextGroup, ImportOK, Grows
  <2>2. CASE left' = [left EXCEPT ![i] = DOMAIN roster[i]] /\ Goto(i, "issue") /\ UNCHANGED <<todo, group>>
    BY <1>1, <1>2, <1>5, <2>2 DEF NextGroup, Goto, ImportOK, FormsOK, tableVars, Team
  <2> QED
    BY <1>5, <2>1, <2>2 DEF NextGroup
<1>6. ASSUME Settles(i), Code(i) \in GroupCodes(roster[i]), pc[i] \in {"exists?", "clone"},
             NEW d, d = DbOf[Code(i)], HasDatabase(d)',
             UNCHANGED <<roster, existing, todo, result>>
      PROVE  ImportOK(i)' /\ (Team(i) \in teams \cup {NoCode})'
  <2>1. CASE pc'[i] = "create" /\ group'[i] = group[i]
    <3>1. Code(i)' = Code(i) /\ Team(i)' = Team(i)
      BY <2>1 DEF Code, Team
    <3> QED
      BY <1>1, <1>2, <1>6, <2>1, <3>1 DEF ImportOK, Grows, HasDatabase
  <2>2. ASSUME pc'[i] = "members", left'[i] \subseteq Students,
               NEW t \in existing[i], DbOf[t] = DbOf[Code(i)],
               group'[i] = [code |-> Code(i), team |-> t, created |-> FALSE]
        PROVE  ImportOK(i)' /\ (Team(i) \in teams \cup {NoCode})'
    <3>1. Code(i)' = Code(i) /\ Team(i)' = t /\ t \in teams
      BY <2>2 DEF Code, Team, ImportOK
    <3> QED
      BY <1>2, <1>6, <2>2, <3>1 DEF ImportOK, Grows
  <2> QED
    BY <1>1, <1>6, <2>1, <2>2, SettlesTypes
<1>7. CASE DatabaseExists(i)
  <2>1. CASE Goto(i, "clone") /\ UNCHANGED <<group, left>>
    BY <1>1, <1>2, <1>7, <2>1 DEF DatabaseExists, Goto, ImportOK, FormsOK, tableVars, Code, Team
  <2>2. ASSUME FindTeam(i), NEW d, d = DbOf[Code(i)], db[d] # "absent"
        PROVE  ImportOK(i)' /\ (Team(i) \in teams \cup {NoCode})'
    <3>1. HasDatabase(d)'
      BY <1>7, <2>2 DEF DatabaseExists, tableVars, HasDatabase
    <3> QED
      BY <1>6, <1>7, <2>2, <3>1, FindTeamSettles DEF DatabaseExists, ImportOK
  <2> QED
    BY <1>7, <2>1, <2>2 DEF DatabaseExists
<1>8. CASE CreateDatabase(i)
  <2>1. ASSUME NEW d, d = DbOf[Code(i)] PROVE HasDatabase(d)'
    <3>1. d \in Databases
      BY <1>1, <1>8, <2>1, GroupsTyped, RosterAssumption DEF CreateDatabase, ImportOK, FormsOK
    <3> QED
      BY <1>1, <1>8, <2>1, <3>1 DEF CreateDatabase, HasDatabase, TablesOK
  <2> QED
    BY <1>6, <1>8, <2>1, FindTeamSettles DEF CreateDatabase, ImportOK
<1>9. CASE CreateTeam(i)
  <2>1. Code(i) \in GroupCodes(roster[i]) /\ Code(i) \in Codes
    BY <1>1, <1>9, GroupsTyped DEF CreateTeam, ImportOK, FormsOK
  <2>2. /\ pc'[i] = "members" /\ left'[i] \subseteq Students
        /\ group'[i] = [code |-> Code(i), team |-> Code(i), created |-> TRUE]
    BY <1>1, <1>9, <2>1, UseTeamTypes DEF CreateTeam
  <2>3. Code(i)' = Code(i) /\ Team(i)' = Code(i)
    BY <2>2 DEF Code, Team
  <2>4. existing'[i] = existing[i] \cup {Code(i)} /\ teams' = teams \cup {Code(i)}
    BY <1>1, <1>9 DEF CreateTeam, FormsOK
  <2> QED
    BY <1>9, <2>1, <2>2, <2>3, <2>4 DEF CreateTeam, ImportOK
<1>10a. CASE UpsertStudent(i)
  BY <1>1, <1>2, <1>10a DEF UpsertStudent, Goto, ImportOK, FormsOK, Code, Team
<1>10. CASE AddMember(i)
  BY <1>1, <1>2, <1>10 DEF AddMember, Goto, ImportOK, FormsOK, Code, Team
<1>11. CASE SeedTeam(i)
  BY <1>1, <1>2, <1>11 DEF SeedTeam, Goto, ImportOK, FormsOK, Code, Team
<1>12. CASE Issue(i)
  <2>1. left'[i] \subseteq left[i] /\ pc[i] = "issue"
    BY <1>1, <1>12 DEF Issue, FormsOK
  <2>2. UNCHANGED <<teams, db, reset, pc, roster, existing, todo, group>>
    BY <1>2, <1>12 DEF Issue
  <2> QED
    BY <1>1, <2>1, <2>2 DEF ImportOK, Code, Team
<1>13. CASE Finish(i) \/ Conflict(i) \/ Fail(i)
  <2>1. \/ pc'[i] = "finished" /\ pc[i] = "issue"
        \/ pc'[i] = "failed"
    BY <1>1, <1>13 DEF Finish, Conflict, Fail, Goto, FormsOK
  <2>2. UNCHANGED <<teams, roster, existing, todo, group>>
    BY <1>13 DEF Finish, Conflict, Fail, tableVars
  <2> QED
    BY <1>1, <2>1, <2>2 DEF ImportOK, Code, Team
<1> QED
  BY <1>3, <1>4, <1>5, <1>7, <1>8, <1>9, <1>10, <1>10a, <1>11, <1>12, <1>13 DEF Step

\* Every team has its database to itself, and it exists unless a reset is
\* between its DROP and its CREATE or failed.
LEMMA DatabasesStep ==
  ASSUME TypeOK, OneDatabasePerTeam, NEW i \in Imports, ImportOK(i), Begin(i) \/ Step(i)
  PROVE  OneDatabasePerTeam'
<1>1. TablesOK /\ FormsOK /\ Grows
  BY TypeParts, TablesStep
<1>2. ASSUME NEW t \in teams, NEW d, d = DbOf[t] PROVE HasDatabase(d)'
  <2>1. d \in Databases /\ HasDatabase(d)
    BY <1>1, <1>2, RosterAssumption DEF TablesOK, OneDatabasePerTeam, HasDatabase
  <2> QED
    BY <1>1, <2>1 DEF Grows
<1>3. CASE teams' = teams
  BY <1>2, <1>3 DEF OneDatabasePerTeam, HasDatabase
<1>4. CASE CreateTeam(i)
  <2>1. teams' = teams \cup {Code(i)} /\ Admits(Code(i)) /\ UNCHANGED <<db, reset>>
        /\ HasDatabase(DbOf[Code(i)])
    BY <1>4 DEF CreateTeam, ImportOK
  <2> QED
    BY <1>2, <2>1 DEF OneDatabasePerTeam, HasDatabase, Admits
<1>5. CreateTeam(i) \/ teams' = teams
  BY DEF Begin, Step, ListTeams, NextGroup, DatabaseExists, CreateDatabase, UpsertStudent,
         AddMember, SeedTeam, Issue, Finish, Conflict, Fail, tableVars
<1> QED
  BY <1>3, <1>4, <1>5

\* The types, what holds of every import, and the databases of the teams.
Inv == TypeOK /\ (\A i \in Imports : ImportOK(i)) /\ OneDatabasePerTeam

LEMMA InvInit == Init => Inv
<1> SUFFICES ASSUME Init PROVE Inv
  OBVIOUS
<1>1. FormsOK
  BY DEF Init, FormsOK, NewGroup, Labels, Roster
<1>2. TablesOK
  BY RosterAssumption DEF Init, TablesOK
<1>3. ASSUME NEW i \in Imports PROVE Code(i) = NoCode /\ Team(i) = NoCode
  BY DEF Init, NewGroup, Code, Team
<1>4. TypeOK
  BY <1>1, <1>2, <1>3, TypeParts DEF TeamsOK
<1>5. (\A i \in Imports : ImportOK(i)) /\ OneDatabasePerTeam
  BY DEF Init, ImportOK, OneDatabasePerTeam
<1> QED
  BY <1>4, <1>5 DEF Inv

\* The invariant holds on, whichever import or reset moves.
LEMMA InvStep == Inv /\ [Next]_vars => Inv'
<1> SUFFICES ASSUME Inv, [Next]_vars PROVE Inv'
  OBVIOUS
<1>1. TypeOK /\ OneDatabasePerTeam /\ \A i \in Imports : ImportOK(i)
  BY DEF Inv
<1>2. ASSUME NEW i \in Imports, Begin(i) \/ Step(i) PROVE Inv'
  <2>1. FormsOK' /\ TablesOK' /\ Grows /\ \A j \in Imports \ {i} : Untouched(j)
    BY <1>1, <1>2, FormsStep, TablesStep
  <2>2. \A j \in Imports : ImportOK(j)' /\ (Team(j) \in teams \cup {NoCode})'
    BY <1>1, <1>2, <2>1, OwnStep, OthersStep
  <2>3. OneDatabasePerTeam'
    BY <1>1, <1>2, DatabasesStep
  <2>4. TeamsOK'
    BY <2>2 DEF TeamsOK
  <2>5. TypeOK'
    BY <2>1, <2>4, TypeParts, PTL
  <2> QED
    BY <2>2, <2>3, <2>5 DEF Inv
<1>3. ASSUME NEW t \in teams, Reset(t) PROVE Inv'
  <2>1. TablesOK' /\ Grows /\ UNCHANGED <<teams, students, members, cred, issued, exported, importVars>>
    BY <1>1, <1>3, ResetStep
  <2>2. FormsOK' /\ \A j \in Imports : Untouched(j)
    BY <1>1, <2>1, TypeParts DEF importVars, FormsOK, Untouched
  <2>3. \A j \in Imports : ImportOK(j)' /\ (Team(j) \in teams \cup {NoCode})'
    BY <1>1, <2>1, <2>2, OthersStep
  <2>4. ASSUME NEW u \in teams, NEW d, d = DbOf[u] PROVE HasDatabase(d)'
    <3>1. d \in Databases /\ HasDatabase(d)
      BY <1>1, <2>4, RosterAssumption DEF TypeOK, OneDatabasePerTeam, HasDatabase
    <3> QED
      BY <2>1, <3>1 DEF Grows
  <2>5. OneDatabasePerTeam'
    BY <1>1, <2>1, <2>4 DEF OneDatabasePerTeam, HasDatabase
  <2>6. TeamsOK'
    BY <2>3 DEF TeamsOK
  <2>7. TypeOK'
    BY <2>1, <2>2, <2>6, TypeParts, PTL
  <2> QED
    BY <2>3, <2>5, <2>7 DEF Inv
<1>4. CASE UNCHANGED vars
  BY <1>1, <1>4 DEF vars, tableVars, importVars, Inv, TypeOK, ImportOK, OneDatabasePerTeam,
                    HasDatabase, Code, Team
<1> QED
  BY <1>2, <1>3, <1>4 DEF Next

LEMMA Invariant == Spec => []Inv
BY InvInit, InvStep, PTL DEF Spec

\* The tables are typed, no two teams share a database, whatever the codes are
\* sanitised to and whichever imports and resets race for it, and a team without
\* one is that of a reset that has dropped it and not created it, or failed.
THEOREM TablesAlwaysFit == Spec => []TablesFit
<1>1. Inv => TablesFit
  BY DEF Inv, TablesFit
<1> QED
  BY <1>1, Invariant, PTL
------------------------------------------------------------------------------
(* Unseeded databases *)

\* A team's database is seeded, will be, or its seeding is known to be lost.
Explained(t) == \/ db[DbOf[t]] = "seeded" \/ reset[DbOf[t]] # "none"
                \/ \E i \in Imports : /\ group[i].created /\ Team(i) = t
                                      /\ pc[i] \in {"members", "member", "failed"}

\* A team stays explained: the import that is to seed it does, or fails.
LEMMA SeedsStep ==
  ASSUME Inv, UnseededIsExplained, NEW i \in Imports, Begin(i) \/ Step(i)
  PROVE  UnseededIsExplained'
<1>1. TypeOK /\ FormsOK /\ TablesOK /\ ImportOK(i) /\ OneDatabasePerTeam
  BY TypeParts DEF Inv
<1>2. Grows /\ FormsOK' /\ UNCHANGED reset /\ \A j \in Imports \ {i} : Untouched(j)
  BY <1>1, FormsStep, TablesStep
<1>3. \A t \in teams : Explained(t)
  BY DEF UnseededIsExplained, Explained
<1>4. ASSUME NEW t \in teams, UNCHANGED db,
             group[i].created /\ pc[i] \in {"members", "member", "failed"} =>
               group'[i] = group[i] /\ pc'[i] \in {"members", "member", "failed"}
      PROVE  Explained(t)'
  <2>1. CASE db[DbOf[t]] = "seeded" \/ reset[DbOf[t]] # "none"
    BY <1>2, <1>4, <2>1 DEF Explained
  <2>2. ASSUME NEW j \in Imports, group[j].created, Team(j) = t, pc[j] \in {"members", "member", "failed"}
        PROVE  Explained(t)'
    <3>1. group'[j] = group[j] /\ pc'[j] \in {"members", "member", "failed"}
      BY <1>2, <1>4, <2>2 DEF Untouched
    <3> QED
      BY <2>2, <3>1 DEF Explained, Team
  <2> QED
    BY <1>3, <2>1, <2>2 DEF Explained
<1>5. (\A t \in teams : Explained(t))' => UnseededIsExplained'
  BY DEF UnseededIsExplained, Explained
<1>6. CASE \/ Begin(i) \/ ListTeams(i) \/ NextGroup(i) \/ DatabaseExists(i)
           \/ UpsertStudent(i) \/ AddMember(i) \/ Issue(i) \/ Finish(i) \/ Conflict(i) \/ Fail(i)
  <2>1. UNCHANGED <<teams, db>>
    BY <1>6 DEF Begin, ListTeams, NextGroup, DatabaseExists, UpsertStudent, AddMember, Issue,
                Finish, Conflict, Fail, tableVars
  <2>2. CASE Begin(i) \/ ListTeams(i) \/ NextGroup(i) \/ DatabaseExists(i) \/ Issue(i) \/ Finish(i)
    <3>1. pc[i] \notin {"members", "member", "failed"}
      BY <2>2 DEF Begin, ListTeams, NextGroup, DatabaseExists, Issue, Finish
    <3> QED
      BY <1>4, <1>5, <2>1, <3>1
  <2>3. CASE UpsertStudent(i) \/ AddMember(i) \/ Conflict(i) \/ Fail(i)
    <3>1. UNCHANGED group /\ (pc[i] \in {"members", "member", "failed"} => pc'[i] \in {"members", "member", "failed"})
      BY <1>1, <2>3 DEF UpsertStudent, AddMember, Conflict, Fail, Goto, FormsOK
    <3> QED
      BY <1>4, <1>5, <2>1, <3>1
  <2> QED
    BY <1>6, <2>2, <2>3
<1>7. CASE CreateDatabase(i)
  <2>1. ASSUME NEW t \in teams, DbOf[t] # DbOf[Code(i)] PROVE Explained(t)'
    <3>1. DbOf[t] \in Databases /\ pc[i] = "clone"
      BY <1>1, <1>7, RosterAssumption DEF TablesOK, CreateDatabase
    <3>2. db'[DbOf[t]] = db[DbOf[t]]
      BY <1>1, <1>7, <2>1, <3>1 DEF CreateDatabase, TablesOK
    <3>3. CASE db[DbOf[t]] = "seeded" \/ reset[DbOf[t]] # "none"
      BY <1>2, <3>2, <3>3 DEF Explained
    <3>4. ASSUME NEW j \in Imports, group[j].created, Team(j) = t, pc[j] \in {"members", "member", "failed"}
          PROVE  Explained(t)'
      BY <1>2, <3>1, <3>4 DEF Explained, Team, Untouched
    <3> QED
      BY <1>3, <3>3, <3>4 DEF Explained
  <2>2. ASSUME NEW t \in teams, DbOf[t] = DbOf[Code(i)] PROVE Explained(t)'
    <3>1. db[DbOf[t]] = "absent"
      BY <1>7, <2>2 DEF CreateDatabase
    <3>2. reset[DbOf[t]] \in {"create", "failed"}
      BY <1>1, <2>2, <3>1 DEF OneDatabasePerTeam
    <3> QED
      BY <1>2, <3>2 DEF Explained
  <2>3. UNCHANGED teams
    BY <1>7 DEF CreateDatabase
  <2> QED
    BY <1>5, <2>1, <2>2, <2>3
<1>8. CASE CreateTeam(i)
  <2>1. teams' = teams \cup {Code(i)} /\ UNCHANGED db /\ pc[i] = "create"
    BY <1>8 DEF CreateTeam
  <2>2. Code(i) \in GroupCodes(roster[i]) /\ Code(i) \in Codes
    BY <1>1, <1>8, GroupsTyped DEF CreateTeam, ImportOK, FormsOK
  <2>3. /\ pc'[i] = "members"
        /\ group'[i] = [code |-> Code(i), team |-> Code(i), created |-> TRUE]
    BY <1>1, <1>8, <2>2, UseTeamTypes DEF CreateTeam
  <2>4. ASSUME NEW t, t = Code(i) PROVE Explained(t)'
    BY <2>3, <2>4 DEF Explained, Team
  <2>5. ASSUME NEW t \in teams PROVE Explained(t)'
    BY <1>4, <2>1
  <2> QED
    BY <1>5, <2>1, <2>4, <2>5
<1>9. CASE SeedTeam(i)
  <2>1. UNCHANGED <<teams, group>> /\ pc[i] = "members"
    BY <1>9 DEF SeedTeam
  <2>2. CASE ~group[i].created
    <3>1. UNCHANGED db
      BY <1>9, <2>2 DEF SeedTeam, Seeds
    <3> QED
      BY <1>4, <1>5, <2>1, <2>2, <3>1
  <2>3. CASE group[i].created
    <3>1. db' = [db EXCEPT ![DbOf[Code(i)]] = "seeded"] /\ DbOf[Team(i)] = DbOf[Code(i)]
      BY <1>1, <1>9, <2>3 DEF SeedTeam, Seeds, ImportOK
    <3>2. ASSUME NEW t \in teams PROVE Explained(t)'
      <4>1. DbOf[t] \in Databases
        BY <1>1, RosterAssumption DEF TablesOK
      <4>2. CASE DbOf[t] = DbOf[Code(i)]
        BY <1>1, <3>1, <4>1, <4>2 DEF Explained, TablesOK
      <4>3. CASE DbOf[t] # DbOf[Code(i)]
        <5>1. db'[DbOf[t]] = db[DbOf[t]] /\ Team(i) # t
          BY <1>1, <3>1, <4>1, <4>3 DEF TablesOK
        <5>2. CASE db[DbOf[t]] = "seeded" \/ reset[DbOf[t]] # "none"
          BY <1>2, <5>1, <5>2 DEF Explained
        <5>3. ASSUME NEW j \in Imports, group[j].created, Team(j) = t, pc[j] \in {"members", "member", "failed"}
              PROVE  Explained(t)'
          BY <1>2, <5>1, <5>3 DEF Explained, Team, Untouched
        <5> QED
          BY <1>3, <5>2, <5>3 DEF Explained
      <4> QED
        BY <4>2, <4>3
    <3> QED
      BY <1>5, <2>1, <3>2
  <2> QED
    BY <2>2, <2>3
<1> QED
  BY <1>6, <1>7, <1>8, <1>9 DEF Step

\* The steps of a reset explain the team they leave unseeded.
LEMMA SeedsReset ==
  ASSUME Inv, UnseededIsExplained, NEW u \in teams, Reset(u)
  PROVE  UnseededIsExplained'
<1>1. TypeOK /\ TablesOK /\ OneDatabasePerTeam /\ DbOf[u] \in Databases
  BY TypeParts, RosterAssumption DEF Inv, TablesOK
<1>2. UNCHANGED <<teams, pc, group>>
  BY <1>1, ResetStep DEF importVars
<1>3. ASSUME NEW t \in teams PROVE Explained(t)'
  <2>1. DbOf[t] \in Databases
    BY <1>1, RosterAssumption DEF TablesOK
  <2>2. CASE DbOf[t] = DbOf[u]
    BY <1>1, <2>1, <2>2 DEF Reset, ResetDrops, ResetCreates, ResetSeeds, ResetFails, tableVars, TablesOK, Explained
  <2>3. CASE DbOf[t] # DbOf[u]
    <3>1. db'[DbOf[t]] = db[DbOf[t]] /\ reset'[DbOf[t]] = reset[DbOf[t]]
      BY <1>1, <2>1, <2>3 DEF Reset, ResetDrops, ResetCreates, ResetSeeds, ResetFails, tableVars, TablesOK
    <3> QED
      BY <1>2, <3>1 DEF UnseededIsExplained, Explained, Team
  <2> QED
    BY <2>2, <2>3
<1> QED
  BY <1>2, <1>3 DEF UnseededIsExplained, Explained

\* A team without its seed is the trace of an import or a reset that is at work
\* or failed, however they interleave.
THEOREM UnseededAlwaysExplained == Spec => []UnseededIsExplained
<1>1. Init => UnseededIsExplained
  BY DEF Init, UnseededIsExplained
<1>2. Inv /\ UnseededIsExplained /\ [Next]_vars => UnseededIsExplained'
  <2> SUFFICES ASSUME Inv, UnseededIsExplained, [Next]_vars PROVE UnseededIsExplained'
    OBVIOUS
  <2>1. CASE UNCHANGED vars
    BY <2>1 DEF vars, tableVars, importVars, UnseededIsExplained, Team
  <2> QED
    BY <2>1, SeedsStep, SeedsReset DEF Next
<1> QED
  BY <1>1, <1>2, Invariant, PTL DEF Spec
------------------------------------------------------------------------------
(* Working keys *)

\* A key was handed out, or generated by an import that has not finished.
Handed(e) == e \in exported \/ \E i \in Imports : e \in result[i] /\ pc[i] # "finished"

\* No import takes back a key that is handed out or still to be.
LEMMA HandedStays ==
  ASSUME TypeOK, NEW i \in Imports, ImportOK(i), Begin(i) \/ Step(i), NEW e, Handed(e)
  PROVE  Handed(e)'
<1>1. FormsOK /\ FormsOK' /\ \A j \in Imports \ {i} : Untouched(j)
  BY TypeParts, FormsStep
<1>2. CASE e \in exported
  <2>1. exported \subseteq exported'
    BY DEF Begin, Step, ListTeams, NextGroup, DatabaseExists, CreateDatabase, CreateTeam,
           UpsertStudent, AddMember, SeedTeam, Issue, Finish, Conflict, Fail, tableVars
  <2> QED
    BY <1>2, <2>1 DEF Handed
<1>3. ASSUME NEW j \in Imports \ {i}, e \in result[j], pc[j] # "finished" PROVE Handed(e)'
  BY <1>1, <1>3 DEF Handed, Untouched
<1>4. CASE e \in result[i] /\ pc[i] # "finished"
  <2>1. CASE Finish(i)
    BY <1>4, <2>1 DEF Finish, Export, Handed
  <2>2. CASE ~Finish(i)
    <3>1. result[i] \subseteq result'[i]
      BY <1>1, <2>2 DEF Begin, Step, ListTeams, NextGroup, DatabaseExists, CreateDatabase,
           CreateTeam, UpsertStudent, AddMember, SeedTeam, Issue, Conflict, Fail, FormsOK
    <3>2. pc'[i] # "finished"
      <4>1. CASE Issue(i)
        BY <1>4, <4>1 DEF Issue
      <4>2. CASE ~Issue(i)
        BY <1>1, <2>2, <4>2 DEF Begin, Step, ListTeams, NextGroup, DatabaseExists, CreateDatabase,
           CreateTeam, UpsertStudent, AddMember, SeedTeam, Conflict, Fail, FormsOK, Goto, FindTeam, UseTeam
      <4> QED
        BY <4>1, <4>2
    <3> QED
      BY <1>4, <3>1, <3>2 DEF Handed
  <2> QED
    BY <2>1, <2>2
<1> QED
  BY <1>2, <1>3, <1>4 DEF Handed

Entry(s) == [student |-> s, key |-> cred[s]]

\* The key that works for a student was handed out, will be when its import
\* finishes, or was lost with an import that failed.
THEOREM WorkingKeysAreKnown == Spec => []WorkingKeyIsKnown
<1>1. Init => WorkingKeyIsKnown
  BY DEF Init, WorkingKeyIsKnown
<1>2. WorkingKeyIsKnown <=> \A s \in Students : cred[s] # NoKey => Handed(Entry(s))
  BY DEF WorkingKeyIsKnown, Handed, Entry
<1>3. Inv /\ WorkingKeyIsKnown /\ [Next]_vars => WorkingKeyIsKnown'
  <2> SUFFICES ASSUME Inv, WorkingKeyIsKnown, [Next]_vars PROVE WorkingKeyIsKnown'
    OBVIOUS
  <2>1. CASE UNCHANGED <<cred, exported, result, pc>>
    BY <2>1 DEF WorkingKeyIsKnown
  <2>2. ASSUME NEW i \in Imports, Begin(i) \/ Step(i), ~Issue(i) PROVE WorkingKeyIsKnown'
    <3>1. UNCHANGED cred
      BY <2>2 DEF Begin, Step, ListTeams, NextGroup, DatabaseExists, CreateDatabase, CreateTeam,
           UpsertStudent, AddMember, SeedTeam, Finish, Conflict, Fail, tableVars
    <3>2. \A e : Handed(e) => Handed(e)'
      BY <2>2, HandedStays DEF Inv
    <3>3. ASSUME NEW s \in Students, cred'[s] # NoKey PROVE Handed(Entry(s))'
      <4>1. cred'[s] = cred[s]
        BY <3>1
      <4>2. ASSUME NEW e, e = [student |-> s, key |-> cred[s]] PROVE Handed(e)'
        BY <1>2, <3>2, <3>3, <4>1, <4>2 DEF Entry
      <4> QED
        BY <4>1, <4>2 DEF Entry, Handed
    <3>4. (\A s \in Students : cred[s] # NoKey => Handed(Entry(s)))'
      BY <3>3
    <3> QED
      BY <1>2, <3>4, PTL
  <2>3. ASSUME NEW i \in Imports, Issue(i) PROVE WorkingKeyIsKnown'
    <3>1. TypeOK /\ TablesOK /\ FormsOK /\ ImportOK(i)
      BY TypeParts DEF Inv
    <3>2. PICK k \in left[i] :
            /\ cred' = [cred EXCEPT ![roster[i][k].student] = FreshKey]
            /\ result' = [result EXCEPT ![i] = @ \cup {[student |-> roster[i][k].student, key |-> FreshKey]}]
      BY <2>3 DEF Issue, StudentOf
    <3>3. \A e : Handed(e) => Handed(e)'
      BY <2>3, <3>1, HandedStays DEF Step
    <3>4. ASSUME NEW s \in Students, cred'[s] # NoKey, NEW e, e = [student |-> s, key |-> cred'[s]]
          PROVE  Handed(e)'
      <4>1. CASE s = roster[i][k].student
        <5>1. cred'[s] = FreshKey
          BY <3>1, <3>2, <4>1 DEF TablesOK
        <5>2. e \in result'[i]
          BY <3>1, <3>2, <3>4, <4>1, <5>1 DEF FormsOK
        <5>3. pc'[i] = "issue"
          BY <2>3 DEF Issue
        <5> QED
          BY <5>2, <5>3 DEF Handed
      <4>2. CASE s # roster[i][k].student
        <5>1. cred'[s] = cred[s]
          BY <3>1, <3>2, <4>2 DEF TablesOK
        <5> QED
          BY <1>2, <3>3, <3>4, <5>1 DEF Entry
      <4> QED
        BY <4>1, <4>2
    <3>5. ASSUME NEW s \in Students, cred'[s] # NoKey PROVE Handed(Entry(s))'
      BY <3>4, <3>5 DEF Entry, Handed
    <3>6. (\A s \in Students : cred[s] # NoKey => Handed(Entry(s)))'
      BY <3>5
    <3> QED
      BY <1>2, <3>6, PTL
  <2>4. ASSUME NEW t \in teams, Reset(t) PROVE WorkingKeyIsKnown'
    BY <2>1, <2>4, ResetStep DEF Inv, importVars
  <2>5. CASE UNCHANGED vars
    BY <2>1, <2>5 DEF vars, tableVars, importVars
  <2> QED
    BY <2>2, <2>3, <2>4, <2>5 DEF Next
<1> QED
  BY <1>1, <1>3, Invariant, PTL DEF Spec
------------------------------------------------------------------------------
(* Finished imports *)

\* A group that is served stays so.
LEMMA ServedStays ==
  ASSUME Grows, NEW i, UNCHANGED roster, NEW c, Served(i, c), teams \subseteq Codes
  PROVE  Served(i, c)'
BY DEF Served, Grows

\* Settling leaves all members of the group to be written.
LEMMA SettlesServed ==
  ASSUME TypeOK, Grows, NEW i \in Imports, Code(i) \in GroupCodes(roster[i]), GroupsServed(i),
         pc[i] \in {"exists?", "clone", "create"}, UNCHANGED <<roster, todo>>,
         \/ pc'[i] = "create" /\ group'[i] = group[i]
         \/ /\ pc'[i] = "members" /\ left'[i] = GroupMembers(roster[i], Code(i))
            /\ group'[i].code = Code(i)
  PROVE  GroupsServed(i)'
<1>1. Code(i)' = Code(i)
  BY DEF Code
<1>2. ASSUME NEW c \in GroupCodes(roster[i]), Served(i, c) PROVE Served(i, c)'
  BY <1>2, ServedStays DEF TypeOK
<1>3. ASSUME NEW c \in GroupCodes(roster[i])
      PROVE  \/ Served(i, c)
             \/ c \in todo'[i] /\ pc'[i] \notin {"issue", "finished"}
             \/ c = Code(i)' /\ pc'[i] \in {"exists?", "clone", "create"}
             \/ /\ c = Code(i)' /\ pc'[i] \in {"members", "member"}
                /\ GroupMembers(roster[i], c) \ left'[i] \subseteq members'[Team(i)']
  BY <1>1, <1>3 DEF GroupsServed
<1> QED
  BY <1>2, <1>3 DEF GroupsServed

\* The groups of an import that moves are begun, served member by member, and
\* left behind when they are served.
LEMMA OwnServed ==
  ASSUME TypeOK, NEW i \in Imports, ImportOK(i), GroupsServed(i), Begin(i) \/ Step(i)
  PROVE  GroupsServed(i)'
<1>1. FormsOK /\ TablesOK /\ FormsOK' /\ Grows
  BY TypeParts, FormsStep, TablesStep
<1>2. ASSUME UNCHANGED roster, NEW c, Served(i, c) PROVE Served(i, c)'
  BY <1>1, <1>2, ServedStays DEF TablesOK
<1>3. CASE Begin(i) \/ Conflict(i) \/ Fail(i)
  <2>1. pc'[i] \in {"list", "failed"}
    BY <1>1, <1>3 DEF Begin, Conflict, Fail, Goto, FormsOK
  <2> QED
    BY <2>1 DEF GroupsServed
<1>4. CASE ListTeams(i)
  <2>1. todo'[i] = GroupCodes(roster[i]) /\ pc'[i] = "groups" /\ UNCHANGED roster
    BY <1>1, <1>4 DEF ListTeams, Goto, FormsOK
  <2> QED
    BY <2>1 DEF GroupsServed
<1>5. CASE NextGroup(i)
  <2>1. UNCHANGED roster /\ pc[i] = "groups"
    BY <1>5 DEF NextGroup
  <2>2. ASSUME NEW c \in GroupCodes(roster[i]) PROVE Served(i, c) \/ c \in todo[i]
    BY <2>1, <2>2 DEF GroupsServed
  <2>3. ASSUME NEW b \in todo[i], todo' = [todo EXCEPT ![i] = @ \ {b}],
               group' = [group EXCEPT ![i] = NewGroup(b)], Goto(i, "exists?")
        PROVE  GroupsServed(i)'
    <3>1. todo'[i] = todo[i] \ {b} /\ pc'[i] = "exists?" /\ group'[i].code = b
      BY <1>1, <2>3 DEF FormsOK, Goto, NewGroup
    <3>2. ASSUME NEW c \in GroupCodes(roster[i]), ~Served(i, c)
          PROVE  c \in todo'[i] \/ c = group'[i].code
      BY <2>2, <3>1, <3>2
    <3> QED
      BY <1>2, <2>1, <3>1, <3>2 DEF GroupsServed, Code
  <2>4. CASE todo[i] = {} /\ Goto(i, "issue")
    <3>1. pc'[i] = "issue"
      BY <1>1, <2>4 DEF FormsOK, Goto
    <3> QED
      BY <1>2, <2>1, <2>2, <2>4, <3>1 DEF GroupsServed
  <2> QED
    BY <1>5, <2>3, <2>4 DEF NextGroup
<1>6. ASSUME Settles(i), Code(i) \in GroupCodes(roster[i]), pc[i] \in {"exists?", "clone"},
             UNCHANGED <<roster, existing, todo, result>>
      PROVE  GroupsServed(i)'
  <2>1. CASE pc'[i] = "create" /\ group'[i] = group[i]
    BY <1>1, <1>6, <2>1, SettlesServed
  <2>2. ASSUME pc'[i] = "members", left'[i] = GroupMembers(roster[i], Code(i)),
               NEW t, group'[i] = [code |-> Code(i), team |-> t, created |-> FALSE]
        PROVE  GroupsServed(i)'
    <3>1. group'[i].code = Code(i)
      BY <2>2
    <3> QED
      BY <1>1, <1>6, <2>2, <3>1, SettlesServed
  <2> QED
    BY <1>1, <1>6, <2>1, <2>2, SettlesTypes
<1>7. CASE DatabaseExists(i)
  <2>1. CASE Goto(i, "clone") /\ UNCHANGED <<group, left>>
    <3>1. pc'[i] = "clone" /\ pc[i] = "exists?" /\ UNCHANGED <<roster, todo>> /\ Code(i)' = Code(i)
      BY <1>1, <1>7, <2>1 DEF DatabaseExists, Goto, FormsOK, Code
    <3> QED
      BY <1>2, <3>1 DEF GroupsServed
  <2>2. CASE FindTeam(i)
    <3>1. pc[i] = "exists?" /\ UNCHANGED <<roster, existing, todo, result>>
          /\ Code(i) \in GroupCodes(roster[i])
      BY <1>7 DEF DatabaseExists, ImportOK
    <3> QED
      BY <1>1, <1>6, <2>2, <3>1, FindTeamSettles
  <2> QED
    BY <1>7, <2>1, <2>2 DEF DatabaseExists
<1>8. CASE CreateDatabase(i)
  <2>1. pc[i] = "clone" /\ UNCHANGED <<roster, existing, todo, result>>
        /\ Code(i) \in GroupCodes(roster[i]) /\ FindTeam(i)
    BY <1>8 DEF CreateDatabase, ImportOK
  <2> QED
    BY <1>1, <1>6, <2>1, FindTeamSettles
<1>9. CASE CreateTeam(i)
  <2>1. pc[i] = "create" /\ UNCHANGED <<roster, todo>> /\ Code(i) \in GroupCodes(roster[i])
    BY <1>9 DEF CreateTeam, ImportOK
  <2>2. Code(i) \in Codes
    BY <1>1, <2>1, GroupsTyped DEF FormsOK
  <2>3. /\ pc'[i] = "members" /\ left'[i] = GroupMembers(roster[i], Code(i))
        /\ group'[i] = [code |-> Code(i), team |-> Code(i), created |-> TRUE]
    BY <1>1, <1>9, <2>1, <2>2, UseTeamTypes DEF CreateTeam
  <2>4. group'[i].code = Code(i)
    BY <2>3
  <2> QED
    BY <1>1, <2>1, <2>3, <2>4, SettlesServed
<1>10a. CASE UpsertStudent(i)
  <2>1. /\ UNCHANGED <<roster, todo, group, left, members>>
        /\ pc[i] = "members" /\ pc'[i] = "member"
    BY <1>1, <1>10a DEF UpsertStudent, Goto, FormsOK
  <2>2. Code(i)' = Code(i) /\ Team(i)' = Team(i)
    BY <2>1 DEF Code, Team
  <2> QED
    BY <1>2, <2>1, <2>2 DEF GroupsServed
<1>10. CASE AddMember(i)
  <2>1. PICK s : s = Member(i)
    OBVIOUS
  <2>2. /\ UNCHANGED <<roster, todo, group>> /\ pc[i] = "member" /\ pc'[i] = "members"
        /\ Team(i) \in Codes
    BY <1>1, <1>10 DEF AddMember, Goto, ImportOK, FormsOK, TablesOK
  <2>3. left'[i] = left[i] \ {s} /\ members'[Team(i)] = members[Team(i)] \cup {s}
    BY <1>1, <1>10, <2>1, <2>2 DEF AddMember, FormsOK, TablesOK
  <2>4. Code(i)' = Code(i) /\ Team(i)' = Team(i)
    BY <2>2 DEF Code, Team
  <2>5. ASSUME NEW c \in GroupCodes(roster[i]), ~Served(i, c), c \notin todo[i]
        PROVE  /\ c = Code(i)
               /\ GroupMembers(roster[i], c) \ left'[i] \subseteq members'[Team(i)]
    BY <2>2, <2>3, <2>5 DEF GroupsServed
  <2> QED
    BY <1>2, <2>2, <2>4, <2>5 DEF GroupsServed
<1>11. CASE SeedTeam(i)
  <2>1. pc[i] = "members" /\ left[i] = {} /\ UNCHANGED <<roster, todo>>
    BY <1>11 DEF SeedTeam
  <2>2. pc'[i] = "groups"
    BY <1>1, <1>11 DEF SeedTeam, Goto, FormsOK
  <2>3. ASSUME NEW c \in GroupCodes(roster[i]) PROVE Served(i, c) \/ c \in todo[i]
    BY <2>1, <2>3 DEF GroupsServed, ImportOK, Served
  <2> QED
    BY <1>2, <2>1, <2>2, <2>3 DEF GroupsServed
<1>12. CASE Issue(i) \/ Finish(i)
  <2>1. pc[i] = "issue" /\ UNCHANGED roster
    BY <1>12 DEF Issue, Finish
  <2>2. pc'[i] \in {"issue", "finished"}
    BY <1>1, <1>12 DEF Issue, Finish, Goto, FormsOK
  <2> QED
    BY <1>2, <2>1, <2>2 DEF GroupsServed
<1> QED
  BY <1>3, <1>4, <1>5, <1>7, <1>8, <1>9, <1>10, <1>10a, <1>11, <1>12 DEF Step

\* The groups of the other imports stay begun and served as they are.
LEMMA OthersServed ==
  ASSUME TypeOK, Grows, NEW j \in Imports, ImportOK(j), GroupsServed(j), Untouched(j)
  PROVE  GroupsServed(j)'
<1>1. teams \subseteq Codes /\ Code(j)' = Code(j) /\ Team(j)' = Team(j)
  BY DEF TypeOK, Untouched, Code, Team
<1>2. ASSUME NEW c, Served(j, c) PROVE Served(j, c)'
  BY <1>1, <1>2 DEF Served, Grows, Untouched
<1>3. ASSUME pc[j] \in {"members", "member"} PROVE members[Team(j)] \subseteq members'[Team(j)']
  BY <1>1, <1>3 DEF ImportOK, Grows
<1>4. ASSUME NEW c \in GroupCodes(roster[j]), c = Code(j), pc[j] \in {"members", "member"},
             GroupMembers(roster[j], c) \ left[j] \subseteq members[Team(j)]
      PROVE  GroupMembers(roster[j], c) \ left[j] \subseteq members'[Team(j)']
  BY <1>3, <1>4
<1> QED
  BY <1>1, <1>2, <1>4 DEF GroupsServed, Untouched

\* A smaller dividend, by a whole divisor or less, has a smaller quotient rounded up.
LEMMA QuotientBelow ==
  ASSUME NEW t \in Nat \ {0}, NEW b \in Nat, NEW l \in Nat, b < l
  PROVE  b \div t + 1 \in 1..((l + t - 1) \div t)
<1> DEFINE q == b \div t
           p == (l + t - 1) \div t
<1>1. q \in Int /\ t * q <= b /\ q >= 0
  OBVIOUS
<1>2. p \in Int /\ l + t - 1 < t * p + t
  OBVIOUS
<1> HIDE DEF q, p
<1>3. ASSUME p <= q PROVE FALSE
  <2>1. t * p <= t * q
    BY <1>1, <1>2, <1>3
  <2>2. t * p \in Int /\ t * q \in Int
    BY <1>1, <1>2
  <2> QED
    BY <1>1, <1>2, <2>1, <2>2
<1>4. p >= q + 1
  BY <1>1, <1>2, <1>3
<1>5. q + 1 \in 1..p
  BY <1>1, <1>2, <1>4
<1> QED
  BY <1>5 DEF q, p

\* A row without a code is in a chunk.
LEMMA LooseChunk ==
  ASSUME NEW r \in Roster, NEW k \in Loose(r)
  PROVE  Chunk(r, k) \in 1..Chunks(r)
<1> DEFINE B == {j \in Loose(r) : j < k}
<1>1. DOMAIN r = 1..Len(r) /\ Len(r) \in Nat /\ k \in Int
  BY RosterRows DEF Loose
<1>2. IsFiniteSet(DOMAIN r)
  BY <1>1, FS_Interval, 1 \in Int, Len(r) \in Int
<1>3. IsFiniteSet(Loose(r))
  BY <1>2, FS_Subset DEF Loose
<1>4. IsFiniteSet(B) /\ B # Loose(r) /\ B \subseteq Loose(r)
  <2>1. k \notin B
    BY <1>1
  <2>2. B \subseteq Loose(r)
    OBVIOUS
  <2> QED
    BY <1>3, <2>1, <2>2, FS_Subset
<1>5. Cardinality(B) \in Nat /\ Cardinality(Loose(r)) \in Nat
  BY <1>3, <1>4, FS_CardinalityType
<1>6. Cardinality(B) < Cardinality(Loose(r))
  <2>1. Cardinality(B) <= Cardinality(Loose(r)) /\ Cardinality(B) # Cardinality(Loose(r))
    BY <1>3, <1>4, FS_Subset
  <2> QED
    BY <1>5, <2>1
<1>7. TeamSize \in Nat \ {0}
  BY RosterAssumption
<1>8. Cardinality(B) \div TeamSize + 1 \in 1..((Cardinality(Loose(r)) + TeamSize - 1) \div TeamSize)
  BY <1>5, <1>6, <1>7, QuotientBelow
<1> QED
  BY <1>8 DEF Chunk, Chunks

\* Every row is in a group of the roster, unless an automatic group replaced its.
LEMMA RowGrouped ==
  ASSUME NEW r \in Roster, NEW k \in DOMAIN r, ~Displaced(r, k)
  PROVE  \E c \in GroupCodes(r) : r[k].student \in GroupMembers(r, c)
<1>1. CASE r[k].code # NoCode
  <2>1. r[k].code \in GroupCodes(r)
    BY <1>1 DEF GroupCodes, Explicit
  <2>2. r[k].student \in GroupMembers(r, r[k].code)
    BY <1>1 DEF Displaced, GroupMembers
  <2> QED
    BY <2>1, <2>2
<1>2. CASE r[k].code = NoCode
  <2>1. k \in Loose(r)
    BY <1>2 DEF Loose
  <2>2. PICK n \in 1..Chunks(r) : n = Chunk(r, k)
    BY <2>1, LooseChunk
  <2>3. r[k].student \in ChunkMembers(r, n)
    BY <2>1, <2>2 DEF ChunkMembers
  <2>4. ChunkCode(r, n) \in GroupCodes(r)
    BY DEF GroupCodes
  <2>5. r[k].student \in GroupMembers(r, ChunkCode(r, n))
    BY <2>3 DEF GroupMembers
  <2> QED
    BY <2>4, <2>5
<1> QED
  BY <1>1, <1>2

\* The student of a row is registered and has a key.
Credited(i, k) == StudentOf(i, k) \in students /\ cred[StudentOf(i, k)] # NoKey

\* The rows an import has issued keys for are credited: all when it finishes.
RowsDone(i) ==
  pc[i] \in {"issue", "finished"} =>
    \A k \in DOMAIN roster[i] : Credited(i, k) \/ (k \in left[i] /\ pc[i] = "issue")

\* A student who has a key keeps having one.
KeysStay == \A s \in Students : cred[s] # NoKey => cred'[s] # NoKey

LEMMA KeysStep ==
  ASSUME TypeOK, NEW i \in Imports, ImportOK(i), Begin(i) \/ Step(i)
  PROVE  KeysStay
<1>1. CASE Issue(i)
  <2>1. PICK k \in left[i] : cred' = [cred EXCEPT ![StudentOf(i, k)] = FreshKey]
    BY <1>1 DEF Issue
  <2>2. FreshKey \in Keys
    BY <1>1 DEF Issue, TypeOK, FreshKey
  <2> QED
    BY <2>1, <2>2, RosterAssumption DEF KeysStay, TypeOK
<1>2. CASE ~Issue(i)
  <2>1. UNCHANGED cred
    BY <1>2 DEF Begin, Step, ListTeams, NextGroup, DatabaseExists, CreateDatabase, CreateTeam,
       UpsertStudent, AddMember, SeedTeam, Finish, Conflict, Fail, tableVars
  <2> QED
    BY <2>1 DEF KeysStay
<1> QED
  BY <1>1, <1>2

\* An import that does not move keeps its rows credited.
LEMMA OthersRows ==
  ASSUME TypeOK, Grows, KeysStay, NEW j \in Imports, RowsDone(j), Untouched(j)
  PROVE  RowsDone(j)'
<1>1. ASSUME NEW k \in DOMAIN roster[j], Credited(j, k) PROVE Credited(j, k)'
  <2>1. StudentOf(j, k)' = StudentOf(j, k) /\ StudentOf(j, k) \in Students
    BY <1>1 DEF Untouched, StudentOf, Credited, TypeOK
  <2> QED
    BY <1>1, <2>1 DEF Credited, Grows, KeysStay
<1> QED
  BY <1>1 DEF RowsDone, Untouched

\* The import that moves issues a key to one more row, or goes on to the rows.
LEMMA OwnRows ==
  ASSUME TypeOK, NEW i \in Imports, ImportOK(i), RowsDone(i), Begin(i) \/ Step(i)
  PROVE  RowsDone(i)'
<1>1. FormsOK /\ TablesOK /\ FormsOK' /\ Grows /\ KeysStay
  BY TypeParts, FormsStep, TablesStep, KeysStep
<1>2. ASSUME UNCHANGED roster, NEW k \in DOMAIN roster[i], Credited(i, k) PROVE Credited(i, k)'
  <2>1. StudentOf(i, k)' = StudentOf(i, k) /\ StudentOf(i, k) \in Students
    BY <1>1, <1>2 DEF StudentOf, Credited, TablesOK
  <2> QED
    BY <1>1, <1>2, <2>1 DEF Credited, Grows, KeysStay
<1>3. CASE Issue(i)
  <2>1. PICK k \in left[i] : /\ StudentOf(i, k) \in students
                             /\ cred' = [cred EXCEPT ![StudentOf(i, k)] = FreshKey]
                             /\ left' = [left EXCEPT ![i] = @ \ {k}]
    BY <1>3 DEF Issue
  <2>2. UNCHANGED <<roster, students, pc>> /\ pc[i] = "issue"
    BY <1>3 DEF Issue
  <2>3. FreshKey # NoKey
    BY <1>1, <1>3, RosterAssumption DEF Issue, TablesOK, FreshKey
  <2>4. left'[i] = left[i] \ {k}
    BY <1>1, <2>1 DEF FormsOK
  <2>5. Credited(i, k)'
    BY <1>1, <2>1, <2>2, <2>3 DEF Credited, StudentOf, TablesOK
  <2>6. ASSUME NEW m \in DOMAIN roster[i], m \notin left'[i] PROVE Credited(i, m)'
    BY <1>2, <2>2, <2>4, <2>5, <2>6 DEF RowsDone
  <2> QED
    BY <2>2, <2>6 DEF RowsDone
<1>4. CASE Finish(i)
  <2>1. UNCHANGED roster /\ left[i] = {} /\ pc[i] = "issue"
    BY <1>4 DEF Finish
  <2> QED
    BY <1>2, <2>1 DEF RowsDone
<1>5. CASE NextGroup(i)
  <2>1. UNCHANGED roster
    BY <1>5 DEF NextGroup
  <2>2. CASE Goto(i, "exists?")
    <3>1. pc'[i] = "exists?"
      BY <1>1, <2>2 DEF Goto, FormsOK
    <3> QED
      BY <3>1 DEF RowsDone
  <2>3. CASE left' = [left EXCEPT ![i] = DOMAIN roster[i]] /\ Goto(i, "issue")
    <3>1. left'[i] = DOMAIN roster'[i] /\ pc'[i] = "issue"
      BY <1>1, <2>1, <2>3 DEF Goto, FormsOK
    <3> QED
      BY <3>1 DEF RowsDone
  <2> QED
    BY <1>5, <2>2, <2>3 DEF NextGroup
<1>6. CASE ~(Issue(i) \/ Finish(i) \/ NextGroup(i))
  <2>1. pc'[i] \notin {"issue", "finished"}
    BY <1>1, <1>6 DEF Begin, Step, ListTeams, DatabaseExists, CreateDatabase, CreateTeam,
       UpsertStudent, AddMember, SeedTeam, Conflict, Fail, FormsOK, Goto, FindTeam, UseTeam
  <2> QED
    BY <2>1 DEF RowsDone
<1> QED
  BY <1>3, <1>4, <1>5, <1>6

\* An import that finished did its work, however many failed before it or ran
\* beside it: every group has a team over its database, with its members, and
\* every row's student is registered, has a key and, unless an automatic group
\* replaced his own, is in a team.
THEOREM FinishedAreComplete == Spec => []FinishedIsComplete
<1> DEFINE Progress == \A i \in Imports : GroupsServed(i) /\ RowsDone(i)
<1>1. Init => Progress
  BY DEF Init, GroupsServed, RowsDone
<1>2. Inv /\ Progress /\ [Next]_vars => Progress'
  <2> SUFFICES ASSUME Inv, Progress, [Next]_vars PROVE Progress'
    OBVIOUS
  <2>1. TypeOK /\ \A i \in Imports : ImportOK(i)
    BY DEF Inv
  <2>2. ASSUME NEW i \in Imports, Begin(i) \/ Step(i) PROVE Progress'
    <3>1. Grows /\ KeysStay /\ \A j \in Imports \ {i} : Untouched(j)
      BY <2>1, <2>2, FormsStep, TablesStep, KeysStep
    <3>2. ASSUME NEW j \in Imports PROVE GroupsServed(j)' /\ RowsDone(j)'
      <4>1. GroupsServed(j)'
        BY <2>1, <2>2, <3>1, OwnServed, OthersServed
      <4>2. RowsDone(j)'
        BY <2>1, <2>2, <3>1, OwnRows, OthersRows
      <4> QED
        BY <4>1, <4>2
    <3> QED
      BY <3>2
  <2>3. ASSUME NEW t \in teams, Reset(t) PROVE Progress'
    <3>1. Grows /\ KeysStay /\ \A j \in Imports : Untouched(j)
      BY <2>1, <2>3, ResetStep DEF importVars, Untouched, KeysStay
    <3>2. ASSUME NEW j \in Imports PROVE GroupsServed(j)' /\ RowsDone(j)'
      BY <2>1, <3>1, OthersServed, OthersRows
    <3> QED
      BY <3>2
  <2>4. CASE UNCHANGED vars
    <3>1. ASSUME NEW j \in Imports PROVE GroupsServed(j)' /\ RowsDone(j)'
      <4>1. GroupsServed(j)'
        BY <2>1, <2>4 DEF vars, tableVars, importVars, GroupsServed, Served, Code, Team
      <4>2. RowsDone(j)'
        BY <2>1, <2>4 DEF vars, tableVars, importVars, RowsDone, Credited, StudentOf
      <4> QED
        BY <4>1, <4>2
    <3> QED
      BY <3>1
  <2> QED
    BY <2>2, <2>3, <2>4 DEF Next
<1>3. Inv /\ Progress => FinishedIsComplete
  <2> SUFFICES ASSUME Inv, Progress, NEW i \in Imports, pc[i] = "finished"
               PROVE  /\ \A c \in GroupCodes(roster[i]) : Served(i, c)
                      /\ \A k \in DOMAIN roster[i] :
                           /\ Credited(i, k)
                           /\ \/ Displaced(roster[i], k)
                              \/ \E t \in teams : StudentOf(i, k) \in members[t]
    BY DEF FinishedIsComplete, Served, Credited, StudentOf
  <2>1. ASSUME NEW c \in GroupCodes(roster[i]) PROVE Served(i, c)
    BY DEF GroupsServed
  <2>2. ASSUME NEW k \in DOMAIN roster[i] PROVE Credited(i, k)
    BY DEF RowsDone
  <2>3. ASSUME NEW k \in DOMAIN roster[i], ~Displaced(roster[i], k)
        PROVE  \E t \in teams : StudentOf(i, k) \in members[t]
    <3>1. roster[i] \in Roster
      BY TypeParts DEF Inv, FormsOK
    <3>2. PICK c \in GroupCodes(roster[i]) : roster[i][k].student \in GroupMembers(roster[i], c)
      BY <2>3, <3>1, RowGrouped
    <3> QED
      BY <2>1, <3>2 DEF Served, StudentOf
  <2> QED
    BY <2>1, <2>2, <2>3
<1> QED
  BY <1>1, <1>2, <1>3, Invariant, PTL DEF Spec
==============================================================================
