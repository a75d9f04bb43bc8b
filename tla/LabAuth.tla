-------------------------------- MODULE LabAuth --------------------------------
(***************************************************************************)
(* LabAuthMiddleware (gateway/src/auth/) and the control tables it reads:   *)
(* up to four queries, one after the other, decide whether a request gets a *)
(* context, while the dashboard and the roster import change the tables     *)
(* between any two of them.  A query is one step; where the code after its   *)
(* await reads the clock, that code is a later step of its own: the tables   *)
(* and the time move in between.                                             *)
(***************************************************************************)
EXTENDS Integers

CONSTANTS Requests, Students, Offerings, Teams,
          Keys,                     \* raw lab keys generateLabKey may draw
          OfferingOf,               \* teams.offering_id
          ActiveFrom, ActiveUntil,  \* of assignment_offerings
          NoPath,                   \* the path of _lab/*: it names no offering
          NoKey,                    \* no X-STQA-Key header, or no credential row
          Nobody, NoContext,
          MaxTime                   \* bound: the last instant

ASSUME TableAssumption ==
  /\ OfferingOf \in [Teams -> Offerings]
  /\ ActiveFrom \in [Offerings -> Nat] /\ ActiveUntil \in [Offerings -> Nat]
  /\ NoPath \notin Offerings /\ NoKey \notin Keys /\ Nobody \notin Students
  /\ NoContext \notin [offering : Offerings, student : Students, team : Teams]
  /\ MaxTime \in Nat

VARIABLES now,
          status,   \* assignment_offerings.status, or "absent"
          cred,     \* student_credentials: the row of an offering and a student
          members,  \* team_members
          issued,   \* the keys handed out so far
          stage,    \* per request: the query it waits for
          req,      \* per request: the offering in its path and its key
          found,    \* per request: what the last query brought: an offering's
                    \* status, or whether a credential is good or revoked
          who,      \* per request: the credential row verify has read
          context,  \* per request: stqaContext
          answer,   \* per request: the status and code it was refused with
          seen      \* history: what held since the request arrived (Observe)

tableVars == <<status, cred, members, issued>>
requestVars == <<stage, req, found, who, context, answer>>
vars == <<now, tableVars, requestVars, seen>>

Rows == [offering : Offerings, student : Students]
Anonymous == [offering |-> NoPath, student |-> Nobody]
Blank == [path |-> NoPath, key |-> NoKey]
NoRow == [key |-> NoKey, revoked |-> FALSE]
Unseen == [live |-> FALSE, opened |-> {}, active |-> {}, entitled |-> FALSE]

Init == /\ now = 0
        /\ status = [o \in Offerings |-> "absent"]
        /\ cred = [row \in Rows |-> NoRow]
        /\ members = [t \in Teams |-> {}]
        /\ issued = {}
        /\ stage = [r \in Requests |-> "idle"]
        /\ req = [r \in Requests |-> Blank]
        /\ found = [r \in Requests |-> "none"]
        /\ who = [r \in Requests |-> Anonymous]
        /\ context = [r \in Requests |-> NoContext]
        /\ answer = [r \in Requests |-> "none"]
        /\ seen = [r \in Requests |-> Unseen]
------------------------------------------------------------------------------
(* What the tables say *)

InWindow(o) == ActiveFrom[o] <= now /\ now <= ActiveUntil[o]

\* isActive, of an offering whose row was read with status s.
IsActive(o, s) == s = "active" /\ InWindow(o)

\* issue is called with offering.activeUntil, which nothing changes later: the
\* expiry of a credential is its offering's.  One instant early in a mutation.
Expired_OffByOne(o) == ActiveUntil[o] <= now
Expired(o) == ActiveUntil[o] < now

RowsOf(key) == {row \in Rows : key # NoKey /\ cred[row].key = key}
Live(key) == \E row \in RowsOf(key) : ~cred[row].revoked /\ now <= ActiveUntil[row.offering]

\* The join of teams and team_members; all of the student's teams in a mutation.
TeamsOf_AnyOffering(s, o) == {t \in Teams : s \in members[t]}
TeamsOf(s, o) == {t \in Teams : s \in members[t] /\ OfferingOf[t] = o}
------------------------------------------------------------------------------
(* The middleware *)

Refuse(r, code) == /\ answer' = [answer EXCEPT ![r] = code]
                   /\ stage' = [stage EXCEPT ![r] = "done"]
                   /\ UNCHANGED <<found, who, context>>
Goto(r, s) == stage' = [stage EXCEPT ![r] = s] /\ UNCHANGED <<found, who, context, answer>>

\* The row of an offering arrives: the code after the await is still to run.
ReadOffering(r, o, s) == /\ found' = [found EXCEPT ![r] = status[o]]
                         /\ stage' = [stage EXCEPT ![r] = s]
                         /\ UNCHANGED <<now, tableVars, req, who, context, answer>>

\* A handler that goes on after it has refused the request.
CheckHeader_GoesOn(r, key) == /\ answer' = [answer EXCEPT ![r] = IF key = NoKey THEN "401 missing" ELSE @]
                              /\ stage' = [stage EXCEPT ![r] = "verify"]
                              /\ UNCHANGED <<found, who, context>>
CheckHeader(r, key) == IF key = NoKey THEN Refuse(r, "401 missing") ELSE Goto(r, "verify")

\* RawBodyMiddleware let the request pass.
Arrive(r) == /\ stage[r] = "idle"
             /\ \E path \in Offerings \cup {NoPath}, key \in issued \cup {NoKey} :
                  /\ req' = [req EXCEPT ![r] = [path |-> path, key |-> key]]
                  /\ IF path = NoPath THEN CheckHeader(r, key) ELSE Goto(r, "byCode")
             /\ UNCHANGED <<now, tableVars>>

FindByCode(r) == stage[r] = "byCode" /\ ReadOffering(r, req[r].path, "gotCode")

CheckByCode(r) == /\ stage[r] = "gotCode"
                  /\ CASE found[r] = "absent" -> Refuse(r, "404 offering")
                       [] found[r] # "absent" /\ ~IsActive(req[r].path, found[r]) ->
                            Refuse(r, "403 inactive")
                       [] OTHER -> CheckHeader(r, req[r].key)
                  /\ UNCHANGED <<now, tableVars, req>>

\* A verification that does not look at revoked_at.
Revoked_Ignored(row) == FALSE
Revoked(row) == cred[row].revoked

FindCredential(r) ==
  /\ stage[r] = "verify"
  /\ \/ RowsOf(req[r].key) = {} /\ found' = [found EXCEPT ![r] = "none"] /\ UNCHANGED who
     \/ \E row \in RowsOf(req[r].key) :
          /\ found' = [found EXCEPT ![r] = IF Revoked(row) THEN "revoked" ELSE "good"]
          /\ who' = [who EXCEPT ![r] = row]
  /\ stage' = [stage EXCEPT ![r] = "gotKey"]
  /\ UNCHANGED <<now, tableVars, req, context, answer>>

\* A credential of another offering than the path's.
Foreign(r, o) == req[r].path \notin {NoPath, o}

Verify(r) == /\ stage[r] = "gotKey"
             /\ LET o == who[r].offering IN
                \/ found[r] = "none" /\ Refuse(r, "401 invalid")
                \/ found[r] = "revoked" /\ Refuse(r, "401 revoked")
                \/ found[r] = "good" /\ Expired(o) /\ Refuse(r, "401 expired")
                \/ found[r] = "good" /\ ~Expired(o) /\ Foreign(r, o) /\ Refuse(r, "403 foreign")
                \/ /\ found[r] = "good" /\ ~Expired(o) /\ ~Foreign(r, o)
                   /\ Goto(r, IF req[r].path = NoPath THEN "byId" ELSE "team")
             /\ UNCHANGED <<now, tableVars, req>>

\* Offerings are never deleted: the row of the credential's offering is there.
FindById(r) == stage[r] = "byId" /\ ReadOffering(r, who[r].offering, "gotId")

\* The offering of a credential found by key; trusted in a mutation.
MayUse_Trusted(o, s) == s # "absent"
MayUse(o, s) == IsActive(o, s)

CheckById(r) == /\ stage[r] = "gotId"
                /\ IF MayUse(who[r].offering, found[r]) THEN Goto(r, "team")
                                                       ELSE Refuse(r, "403 inactive")
                /\ UNCHANGED <<now, tableVars, req>>

\* The first row of a query without ORDER BY: any of them.
FindTeam(r) == /\ stage[r] = "team"
               /\ \/ TeamsOf(who[r].student, who[r].offering) = {} /\ Refuse(r, "404 team")
                  \/ \E t \in TeamsOf(who[r].student, who[r].offering) :
                       /\ context' = [context EXCEPT ![r] =
                            [offering |-> who[r].offering, student |-> who[r].student, team |-> t]]
                       /\ stage' = [stage EXCEPT ![r] = "done"]
                       /\ UNCHANGED <<found, who, answer>>
               /\ UNCHANGED <<now, tableVars, req>>

QueryFails(r) == /\ stage[r] \in {"byCode", "verify", "byId", "team"}
                 /\ Refuse(r, "500")
                 /\ UNCHANGED <<now, tableVars, req>>
------------------------------------------------------------------------------
(* The dashboard and the roster import, one statement at a time *)

Create(o) == /\ status[o] = "absent"
             /\ status' = [status EXCEPT ![o] = "draft"]
             /\ UNCHANGED <<now, cred, members, issued, requestVars>>

SetStatus(o, s) == /\ status[o] # "absent"
                   /\ status' = [status EXCEPT ![o] = s]
                   /\ UNCHANGED <<now, cred, members, issued, requestVars>>

\* The key a new credential gets: a random one; the old one in a mutation.
NewKeys_Renewed(row) == IF cred[row].key = NoKey THEN Keys \ issued ELSE {cred[row].key}
NewKeys(row) == Keys \ issued

Issue(row) == /\ status[row.offering] # "absent"
              /\ \E key \in NewKeys(row) :
                   /\ cred' = [cred EXCEPT ![row] = [key |-> key, revoked |-> FALSE]]
                   /\ issued' = issued \cup {key}
              /\ UNCHANGED <<now, status, members, requestVars>>

Revoke(row) == /\ cred[row].key # NoKey
               /\ cred' = [cred EXCEPT ![row].revoked = TRUE]
               /\ UNCHANGED <<now, status, members, issued, requestVars>>

AddMember(t, s) == /\ status[OfferingOf[t]] # "absent"
                   /\ members' = [members EXCEPT ![t] = @ \cup {s}]
                   /\ UNCHANGED <<now, status, cred, issued, requestVars>>

Tick == now < MaxTime /\ now' = now + 1 /\ UNCHANGED <<tableVars, requestVars>>
------------------------------------------------------------------------------
Query(r) == \/ FindByCode(r) \/ CheckByCode(r)
            \/ FindCredential(r) \/ Verify(r)
            \/ FindById(r) \/ CheckById(r)
            \/ FindTeam(r) \/ QueryFails(r)

Admin == \/ \E o \in Offerings : Create(o) \/ \E s \in {"active", "closed"} : SetStatus(o, s)
         \/ \E row \in Rows : Issue(row) \/ Revoke(row)
         \/ \E t \in Teams, s \in Students : AddMember(t, s)

\* The tables as they are entitle the request to a context.
Entitled(r) == \E row \in RowsOf(req[r].key) :
                 /\ Live(req[r].key) /\ IsActive(row.offering, status[row.offering])
                 /\ req[r].path \in {NoPath, row.offering}
                 /\ \E t \in Teams : OfferingOf[t] = row.offering /\ row.student \in members[t]

\* From its arrival to its answer: was the key live on arrival, which offerings
\* have been set active since, which of them were then or later in their window,
\* has the request been entitled all the time.
Observe ==
  LET Opened == {o \in Offerings : status'[o] = "active"}
      Windows(os) == {o \in os : InWindow(o)'} IN
  seen' = [r \in Requests |->
    CASE stage[r] = "idle" /\ stage'[r] # "idle" ->
           [live |-> Live(req[r].key)', opened |-> Opened, active |-> Windows(Opened),
            entitled |-> Entitled(r)']
      [] stage[r] \notin {"idle", "done"} ->
           [seen[r] EXCEPT !.opened = @ \cup Opened,
                           !.active = @ \cup Windows(seen[r].opened \cup Opened),
                           !.entitled = @ /\ Entitled(r)']
      [] OTHER -> seen[r]]

Next == ((\E r \in Requests : Arrive(r) \/ Query(r)) \/ Admin \/ Tick) /\ Observe

Spec == Init /\ [][Next]_vars
------------------------------------------------------------------------------
(* Properties *)

Refusals == {"404 offering", "403 inactive", "401 missing", "401 invalid", "401 revoked",
             "401 expired", "403 foreign", "404 team", "500"}
Contexts == [offering : Offerings, student : Students, team : Teams]

TypeOK ==
  /\ now \in 0..MaxTime
  /\ status \in [Offerings -> {"absent", "draft", "active", "closed"}]
  /\ cred \in [Rows -> [key : Keys \cup {NoKey}, revoked : BOOLEAN]]
  /\ members \in [Teams -> SUBSET Students]
  /\ issued \subseteq Keys
  /\ stage \in [Requests -> {"idle", "byCode", "gotCode", "verify", "gotKey", "byId", "gotId",
                            "team", "done"}]
  /\ req \in [Requests -> [path : Offerings \cup {NoPath}, key : Keys \cup {NoKey}]]
  /\ found \in [Requests -> {"none", "good", "revoked", "absent", "draft", "active", "closed"}]
  /\ who \in [Requests -> Rows \cup {Anonymous}]
  /\ \A r \in Requests :
       /\ stage[r] \in {"byCode", "gotCode"} => req[r].path \in Offerings
       /\ found[r] = "good" \/ stage[r] \in {"byId", "gotId", "team"} => who[r] \in Rows
  /\ context \in [Requests -> Contexts \cup {NoContext}]
  /\ answer \in [Requests -> Refusals \cup {"none"}]
  /\ \A r \in Requests : IF stage[r] = "done" THEN context[r] = NoContext <=> answer[r] # "none"
                                               ELSE context[r] = NoContext /\ answer[r] = "none"
  /\ seen \in [Requests -> [live : BOOLEAN, opened : SUBSET Offerings,
                           active : SUBSET Offerings, entitled : BOOLEAN]]

Admitted(r) == context[r] # NoContext

\* No key that was revoked, expired or replaced when the request arrived gets a
\* context, whatever is issued while the request waits for its queries.
KeyWasLive == \A r \in Requests : Admitted(r) => seen[r].live

\* A context's offering was set active at some moment since the request arrived,
\* and at that moment or a later one the clock was in its window.  The row and the
\* clock are read apart (isActive runs after the await): that both were so at one
\* moment is not promised, and not so.
OfferingWasActive == \A r \in Requests : Admitted(r) => context[r].offering \in seen[r].active

\* A context put together from up to four reads is of one piece: the student is
\* in the team, the team in the offering, and the offering is the path's.
ContextOfOnePiece ==
  \A r \in Requests : Admitted(r) =>
    /\ context[r].student \in members[context[r].team]
    /\ OfferingOf[context[r].team] = context[r].offering
    /\ req[r].path \in {NoPath, context[r].offering}

\* A request entitled to its context from arrival to answer is not refused, but
\* for a failing query: expiry and the active window end at the same instant.
NoFalseRefusal ==
  \A r \in Requests : stage[r] = "done" /\ seen[r].entitled => Admitted(r) \/ answer[r] = "500"

\* A key that stopped working never works again.
DeadKeysStayDead == [][\A key \in issued : ~Live(key) => ~Live(key)']_vars
==============================================================================
